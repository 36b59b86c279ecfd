# A verification of the chat server

The server is a FastAPI and Socket.IO application (`src/app`) over PostgreSQL and,
optionally, Redis. It registers users by mail, keeps their sessions, stores the
messages of direct conversations encrypted, and announces new ones to connected
sockets. gunicorn runs it in four worker processes that are replaced after about
a thousand requests (`src/Dockerfile`), so everything below happens concurrently,
in processes that share nothing but the database and Redis and that can go away
between any two steps.

This directory has TLA+ modules of the parts in which that matters, TLC
configurations for small instances, and proofs for TLAPS of what the runs check.
`PROJECT.json` is the index: the lines each definition stands for (`map`), the
runs, a mutation of the code for every property (`mutants`), disagreements of code
and docs (`findings`), hazards and theorems.

## 1. Inventory

| Part | State | Operations | Talks to |
|---|---|---|---|
| Direct conversations, `services/conversation_service.py` | `conversations`, `conversation_participants` | create, list, build the response | users, keys |
| Messages and keys, `conversation_service.py`, `encryption_service.py` | `messages`, `encryption_keys` | save, forward, read, list; get or create a key | participants, users, sockets |
| History and read marks, `conversation_service.py` | `messages.created_at`, `last_read_msg_id` | page, mark as read, count unread | messages |
| Sessions, `services/auth_service.py` | `refresh_tokens` | login, refresh, logout | users |
| Registration, `auth_service.py`, `email_service.py` | `users`, `email_verification_codes`, codes that were sent | register, verify, resend | SMTP, or standard output without one |
| Account deletion, `auth_service.py` | all of the tables | delete | every part above |
| Sockets, `services/socketio_handler.py` | sessions and rooms of each process | connect, join, leave, send, disconnect | messages, Redis pub/sub |
| Rate limits, `core/rate_limit.py` | time stamps in memory or in Redis | is_allowed | routes of `auth.py` |
| Master keys, `encryption_service.py` | two keys derived from `SECRET_KEY` | wrap, unwrap with fall-back | keys |
| Accounts, `users.py`, `auth_service.py`, `dependencies.py` | columns of `users` | current user, profile, password, look up, search | sessions, pool |
| Pool of connections, `db/session.py` | connections in use | connect, wait, time out | every request |
| Upload, `upload.py` | files | write one file | current user, pool |
| Mail, Redis client, settings, start, health, migrations, deployment | connections, configuration | - | - |

What each of them has to get right, and what makes it hard:

* **Conversations.** Two users should share one conversation, participants should
  be users. Creation reads, locks and inserts in separate statements and races with
  other creations and with deletions of accounts.
* **Messages and keys.** A message stored under a key the server can unwrap must stay
  readable by the members, and its text by nobody else. The key of a conversation is
  made by whoever needs it first, a reader included, and is only flushed until the
  transaction commits or not.
* **History.** No message twice and none left out, although `created_at` is taken
  before the commit and times can be equal.
* **Sessions.** A token is revoked and replaced in two statements; both or neither.
  Refreshes, logouts and deletions of the same rows overlap.
* **Registration.** Nobody is left without a way to verify, and an account is verified
  with digits of a live code of its own alone: six digits, guessed or read, are the only
  handle, and accounts may have the same ones.
* **Accounts.** A session reads a row once and goes on with that object: two requests
  that set different columns must not revert each other, and a check must not be of a
  value that never was. Every request takes a connection at its first statement and
  keeps it, an upload even while it writes a file.
* **Sockets.** Between loading the history and the first event there may be no gap;
  handlers of one socket overlap, workers learn of messages at different times.
* **Rate limits.** Admit no more than the limit in any window and refuse nobody
  without need; with Redis, pipelines overtake each other and seconds are cut off.

`PROJECT.json` lists the places where such things can go wrong, with the properties
that would notice. Those without a property say why.

## 2. How the code is modelled

**Steps.** A handler is a coroutine with a database session of its own. It is
interrupted only where it awaits the database, Redis or a socket; an action is the
code from one such point to the next. `pc[r]` says where request `r` is, the other
functions of `r` are its local variables. Each request may be one of any worker.

**Database.** PostgreSQL at READ COMMITTED (`db/session.py` sets nothing else): every
statement sees what is committed when it runs and what its own transaction wrote;
a written or `FOR UPDATE` row is locked until its transaction ends; a statement that
wants it waits and then looks at the row again; foreign keys and unique indexes
are enforced; a transaction that raises is rolled back. Rules by which steps were
merged:

* a flush whose rows nobody else can see and which neither locks what others want nor
  waits for them is merged with the commit that publishes it;
* a statement that locks several rows is a step of its own for each row (`LockRow`), with
  the ones locked before held meanwhile, in `Conversations` and `RefreshTokens`; in
  `Registration` the rows of one statement are locked in one step;
* the first SELECT is merged with the arrival of the request;
* a request that is refused before it writes (400, 401, 403, 404) is no step, except
  where the check comes after another step, and in `Accounts`, where it holds a connection;
* a statement that reads rows which never change is merged with its neighbour;
* the check of the foreign keys by the DELETE of a user, and the commit after it, are one
  step; the lock on the user's row, which comes first, is another (`LockUser`).

In `Conversations` and `RefreshTokens`, `held` is what a request has locked so far; the
row of a user that is being deleted, and the KEY SHARE of an insert that refers to a user,
follow from `pc`. A cycle of requests that hold what others wait for is a deadlock
(`Deadlocked`), which PostgreSQL ends by aborting one of them (`BreakDeadlock`). In
`Registration`, `Locks` computes the locked rows from `pc` and `seen`.

**Data.** Ids, keys, tokens and texts are model values. A ciphertext is a pair of key and
text. A text is named by the message it was first typed in, so that it can be followed
through forwards. Time is a counter. Ids of messages are numbers only in `History`,
where their order decides.

**Failures.** `Crash` is the death or replacement of a worker at any point of a
request: what is not committed is gone. A code that was committed leaves the server, by
mail or on standard output, unless the worker dies first; whether a mail arrives nobody
here knows. A request can fail after its commit (`SaveAndFail`), connections to Redis can
break before or after a pipeline is executed, Redis can be out of reach for an
announcement, sockets can drop.

### Modules

| Module | Models | Checked by | Proofs |
|---|---|---|---|
| `Directory` | abstract: a conversation for two users, found or made | refined by `Conversations` | |
| `Conversations` | `create_direct_conversation` against itself and `delete_account` | itself | `ConversationsProofs` |
| `ChatLog` | abstract: a log of posts and forwards that can be read | refined by `Messaging` | |
| `Messaging` | `save_message`, `forward_message`, `get_messages`, last messages of `list_conversations`, `get_or_create_conversation_key` with the master keys, `delete_account` | `MCMessaging` | `MessagingProofs` |
| `Sessions` | abstract: tokens given, exchanged and ended at one instant each | refined by `RefreshTokens` | |
| `RefreshTokens` | `login`, `refresh_tokens`, `logout`, `delete_account` | `MCRefreshTokens` | `RefreshTokensProofs` |
| `ColumnStore` | abstract: columns that are read and written at one instant each | refined by `Accounts` | |
| `Accounts` | `update_me`, `change_password`, `get_me`, `get_user`, `login`, `verify_email`, `upload_file`, `delete_account` over rows of `users`, with sessions and the pool | itself | `AccountsProofs` |
| `RateLimit` | abstract: what a limiter promises | refined by both limiters | |
| `Limiter` | constants, clock and tries that both have | in the next two | |
| `MemoryRateLimiter` | the limiter of one process | itself | `RateLimiterProofs` |
| `RedisRateLimiter` | the limiter shared through Redis | `MCRedisRateLimiter` | `RateLimiterProofs` |
| `History` | pages of `get_messages`, `mark_read`, unread count of `list_conversations` | `MCHistory` | `HistoryProofs` |
| `Realtime` | `connect`, `join`, `leave`, `send_message`, `disconnect` on several workers | itself | `RealtimeProofs` |
| `Verification` | abstract: accounts claimed, verified with a live code of theirs, and closed | refined by `Registration` | |
| `Registration` | `register`, `verify_email`, `resend_code`, `delete_account` | `MCRegistration` | `RegistrationProofs` |

State and code correspond as follows.

* **Conversations.** `users`, `conversations`, `participants`, `keyed` are the tables.
  `BeginCreate` checks the partner and takes the snapshot of the `SELECT ... FOR UPDATE`;
  `LockRow` locks one of the rows in it, whichever comes next, and waits for one that
  another request has; `FindExisting` is the end of the statement, with what is still
  there (it fails when it finds two conversations). `Flush` writes the participants,
  waits for a deletion that has one of the users, and keeps it out until
  `InsertConversation` commits; `BuildResponse` reads the partner's name. A deletion is
  `BeginDelete` with the snapshot of its DELETE, `LockRow`, `DeleteParticipants`,
  `LockUser`, and `DeleteUser`, which finds rows committed since the snapshot by the
  foreign key and fails; `RefuseDelete` is the foreign key of `messages`.
  The participants are flushed by the SELECT for the key, before the `try`: a foreign key
  error fails the request there, and the handler of `IntegrityError` at the commit, whose
  rows and key are of a new conversation, has nothing left to catch.
* **Messaging.** `keyOf` is `encryption_keys`, `messages` has key and text of each row.
  A request passes through membership, key (`FetchKey`, `InsertKey`, waiting while
  another insert for the same conversation is not committed), reply, insert. A reader's
  new key is rolled back when its session closes.
  `Init` has what an older deployment left: conversations with a key wrapped with the
  first master key (`v1`), with a `SECRET_KEY` that is set no more (`other`), or without
  any, and in them messages under that key or from before the migration that added keys
  (`LeftBehind`). A key of a lost secret is refused (`RejectKey`): a send, forward or read
  fails, a list shows the placeholder. A message from before the keys is shown as the
  placeholder under the key of later.
  An answer and a reply preview have items, `Item`: the id of the message, which stands
  for all that is copied from the row as it is (the author's name, the file, its name and
  type), and the body, which is decrypted with the key of the conversation of the reader.
  A list handles its conversations one after the other, each with its own key, so
  `BeginList` takes one: the last message is read in the first SELECT and `ShowPreview`
  decrypts it with the key of later. Which of equally old messages is the last is left
  open, as `row_number` leaves it.
  `messages.deleted` is left out: only `delete_account` sets it, and its transaction
  cannot commit where there is a message to set it on (finding 2).
* **RefreshTokens.** `owner` and `revoked` are the table, `held` the rows a request has
  flushed or locked. `Revoke` is the flush that takes the row lock, `Reissue` the insert
  and commit, with the foreign key to `users`, which waits for a deletion that has the
  user. A deletion locks the tokens of its snapshot one by one (`LockRow`), then the user
  (`LockUser`), and fails on a token that was issued since. A token known to a client is
  in `known`; a crash before the answer loses it.
* **Accounts.** `row` is the table, `read` the object in the session (the columns that
  matter to the request), `body` the columns it sets. `Connect` is the first statement,
  `get_current_user` for most; `Reread` the second SELECT of `change_password` and
  `get_user`, whose result is the object read before, as the identity map has it;
  `Commit` writes the columns that differ from what was read (`Dirty`) and nothing if none
  does; a password always differs, because its hash has a new salt. `Reread` also refuses
  a new password that is too short. A session has its connection from `Connect` to the
  commit or its end (`Connected`). `ColumnStore` takes a request apart into reads and
  writes of columns: a write of the value that was read counts as done at the instant of
  the reading, which is why an unsent UPDATE is no lost one.
* **History.** `Flush` gives a message its time, `Commit` makes it visible, later ones
  first perhaps. A walk asks for pages by cursor; `HasMore` and `HasNoMore` are the two
  answers that `limit + 1` rows make possible; `BeginAgain` is a request with a cursor
  that cannot be parsed, which gets the first page. `cleared` and `before` are history.
* **Realtime.** `stored` is the table, `state` and `home` where the `send_message` of a
  message is; `room`, `queue` and `got` are what python-socketio keeps in each worker,
  Redis holds for it, and a client has received. `Save` has three outcomes: the message is
  committed and goes on to be announced, nothing is committed, or the commit is followed
  by an error in reading the row or the sender back, after which the sender is told
  "Save failed" and nobody hears of the message (`unannounced`). A message whose `home`
  is `NoWorker` was stored by `forward_message`, which announces nothing.
* **Registration.** `codes`, `owner`, `value`, `fresh` are the rows of codes, `sent` those
  that left the server, by mail or on standard output, and `typed` the digits a request
  has come with: any, from a mail, a log or a guess. `Activate` takes the lock of the
  user row by the autoflush before the second SELECT; `DropCodes` and `DeleteUser` lock
  in the opposite order.
* **Limiters.** `counts` is `_counts`, with the numbers of tries for time stamps;
  `members`, `score` and `expires` are the sorted set. `tries` is history, and is the
  state of the abstract `RateLimit`.

## 3. Runs

| Run | Question | Bounds |
|---|---|---|
| `conversations` | `Conversations` implements `Directory`; a found conversation is answered with its partner; duplicates only from races; every request returns, those in a deadlock included | 3 users, 2 conversations, 2 requests |
| `conversations_idempotent` | finding 1 | 2 users, 2 conversations, 2 requests |
| `messaging` | messages keep a key that opens them; members see the placeholder for messages without a usable key and for no others; the texts in previews stay in their conversations; `Messaging` implements `ChatLog` | 3 users, 2 conversations, up to 2 messages of which 1 may be old, 2 requests, 4 keys: 2 new, 1 old, 1 lost |
| `messaging_delete` | finding 2 | the same with 1 request |
| `tokens` | `RefreshTokens` implements `Sessions`; tokens have users; double use only from races; logouts are final; answers are usable; every request returns, those in a deadlock included | 1 user, 3 tokens, 2 requests |
| `accounts` | column by column requests are atomic (`Accounts` implements `ColumnStore`); none that has a connection waits for another | 1 user, 2 requests, 2 values, pools of 1 and of 2 |
| `limiter_memory` | `MemoryRateLimiter` implements `RateLimit`; idle keys are forgotten | 2 keys, limit 2, window 3, 6 tries |
| `limiter_redis` | `RedisRateLimiter` implements `RateLimit` with a margin | 2 keys, 2 requests, limit 2, window 2 s of 2 units, delay 1, 5 tries |
| `history` | pages descend, miss nothing; marking clears | 2 users, 3 messages, 2 times, 2 walks, pages of 1 |
| `realtime` | no gap, nothing for outsiders; announcements arrive | 1 member, 1 outsider, 2 sockets, 2 workers, 2 messages |
| `registration` | `Registration` implements `Verification`; nobody stranded, codes that were sent are good, leftovers explained; every request returns, those in a deadlock included | 2 addresses, 2 accounts, 2 codes of 2 values, 2 requests |
| `registration_invalidated` | finding 3 | the same with 3 codes |

Model values are interchangeable in `messaging` (where the two conversations and their
other members change places together), `limiter_redis`, `history` and
`registration_invalidated`, which use symmetry and check no liveness property. `tokens`
has liveness properties and no symmetry; `MCRefreshTokens` has the ids of tokens issued
in order instead.

Why these are enough to be interesting: two requests make every race of two operations,
and no hazard above takes three; two conversations of one pair are a
creation that finds two, and rows that two statements lock in opposite orders; three
tokens are one and its two successors; two conversations with one common member make
forwards and wrong previews possible; two new keys are two for one conversation, or one
stored and one thrown away, an old and a lost one what two changes of `SECRET_KEY` in
the past leave; one row with two changing requests has every lost update, and a pool of
one makes the second wait for the first; three messages in two instants on pages of one
have ties within and across pages, and late commits on either side of a cursor; two
workers make announcements overtake each other; three users tell a partner from a
stranger; two codes are a resend or a collision. The sets `Convs`, `Msgs`, `Tokens`,
`Keys`, `Accounts` and `Rows` bound creations: an id is used once. `MaxTime`, `MaxTries`
and `MaxDelay` bound clocks, tries and the delay of a pipeline. The proofs do not need
these bounds to be small. `CHECK_DEADLOCK` is off in all runs because a model stops when
its ids or its clock are used up; that no request is stuck is what `EveryRequestReturns`
checks.

**Fairness.** Strong fairness of the steps of a request that has begun, `SF(Step(r))`:
the event loop resumes a coroutine whose result is there, and PostgreSQL queues those
who wait for a lock, so that none is overtaken for ever. Weak fairness of the detection
of deadlocks in `Conversations`, `RefreshTokens` and `Registration`
(`deadlock_timeout`). In `Accounts` the same strong fairness stands for the queue of the
pool, first come, first served; its timeout of 30 seconds may happen and is never
needed. In `Realtime`, weak fairness: handlers go on and every worker takes what Redis
has for it. Nobody has to begin anything, and crashes are never required.

**Mutants.** Each property is broken, in its run, by a definition that differs from the
one of the code as a plausible bug would: `FOR UPDATE` dropped, a commit in place of
the flush, the key not unique, a cursor by time alone, an announcement that stays on
its worker, a mail before the commit, an UPDATE of the whole object, a second session
beside the first, a session that is not closed and keeps its locks, a code accepted after
it has expired. They are the definitions marked `Mutant`.

## 4. Findings

1. **Two creations of one pair make two conversations**
   (`conversation_service.py:54`, run `conversations_idempotent`). With no row yet,
   `FOR UPDATE` locks none. From then on every further creation fails, because
   `scalar_one_or_none` finds two rows. `DuplicatesComeFromRaces` is what still holds.
2. **An account that has sent a message cannot be deleted**
   (`auth_service.py:234`, run `messaging_delete`). Its messages are only marked, and
   `messages.sender_id` references the user: PostgreSQL refuses and everything is
   rolled back. On SQLite, which the tests use, foreign keys are not enforced.
3. **A code can outlive the verification** (`auth_service.py:253`, run
   `registration_invalidated`). `resend_code` inserts after `verify_email` has selected the
   codes to delete. `LeftoversComeFromRaces` says that this is the only way.

Also seen, and promised otherwise nowhere: codes are looked up by their digits alone
(`auth_service.py:66`), so two live rows with the same ones raise instead of verifying;
a reply preview takes the name of the sender and the file of the message it quotes in
the clear, and that message may be of any conversation (`conversation_service.py:259`,
`403`), so that only its text, under another key, stays hidden; a message that is
committed and whose save fails then is announced to nobody, and a client that sends it
again doubles it (`conversation_service.py:425`, `socketio_handler.py:157`); a cursor that
cannot be parsed gets the first page again (`conversation_service.py:321`); two
overlapping refreshes of one token both succeed; a logout that overlaps with a refresh
leaves the new token valid (`LogoutSticks` says that it has to overlap); two overlapping
changes of a password both succeed with the same current one, and neither revokes a
refresh token; the list shows either of two last messages of the same time, and on
PostgreSQL puts conversations without any first; a crash after the commit of a refresh
loses the session; `mark_read` can move a mark backwards; a message that commits late
with an older time is never counted as unread; a socket stays in its room after its user
is deleted, and rooms are checked at `join` only; forwarded messages are not announced;
without Redis the limit is per worker and announcements reach one worker; the pruning of
the memory limiter uses the window of the route that triggers it, which is sound because
all routes use one window; refused tries count against later ones with Redis and do not
in memory.

## 5. Proofs

For each detailed module TLAPS proves type correctness and every safety property of its
run, for all values of the constants, without the bounds of the runs; and it proves every
refinement that a run checks: `Messaging` implements `ChatLog`, `Conversations` implements
`Directory`, `RefreshTokens` implements `Sessions`, `Registration` implements
`Verification`, `Accounts` implements `ColumnStore`, and each limiter implements
`RateLimit`. Assumptions are the ones the modules name: sentinels are not members of the
sets they stand out from, `Members` maps conversations to sets of users, limits, windows
and seconds are positive, ids in `History` are a finite set of numbers, `Master` is
defined for every key, old messages and keys are messages and keys, pools have a
positive size, and the `NoQuestion` of `ColumnStore` is not a question. TLC evaluates
them.

Each `...Proofs` module defines an invariant (`IInv`, or one for each limiter) and
proves that `Init` implies it, that each action keeps it (one lemma per action or group
of actions, one step per conjunct that can change), and that it implies the properties.
What the strengthenings are about:

* **Conversations**: `HoldsSeen` (a request holds rows it saw, and the one it has found),
  `LocksExclude` (two requests never hold one row), `SeenIsOfThePair`,
  `FoundHasPartner` (the locked row is still there, so its user is), `CommitHasUsers` (the
  KEY SHARE of the flush keeps the users until the commit), `PendingIsFresh`
  (what a request is about to insert it has not inserted before). `Directory` forgets rows,
  locks and statements: it knows what a request saw when it asked, what it got, and the
  members of each conversation. Three more facts are proved on top of `IInv` for it:
  `WhoAsks`, `NothingLeft` (when a request inserts, nothing it saw has been left to find)
  and `DeletesOwn`. That no account leaves while an answer about it is due, a guard
  of `Directory`, follows from `LocksExclude` and the fact that a deletion that commits
  has found every row of its user (its foreign key fails otherwise). `Directory` implies
  `ParticipantsExist`, which is a theorem of its own as well.
* **Messaging**: `KeysDiffer` (no key in two places), `InsertsExclude` (one uncommitted
  key per conversation), `KeysInUse` (a key in use is one that unwraps, and is that of the
  conversation, or new, uncommitted and the only one), `Progress` (what each
  request knows at each point is still so). `PlaceholderOnlyWithoutKey` says of every
  answer, reads and lists of old messages included, that the placeholder is in it exactly
  for the messages that no key or no usable key was left for; `PreviewTextsNeverLeave` is
  about the text of a quoted message and not about its other fields, which do leave (see
  section 4). `AuthorsStayMembers` and
  `ForwardsWereReadable` are theorems on the way to the refinement. The refinement maps
  `log` to the tables as the server would decrypt them, so that a lost key would show as
  a changed log. `WrittenStays` is an action property: no step changes a message, takes
  one back or replaces the key of a conversation that has one; `KeysInUse` carries it
  over the window between the insert of a key and its commit.
* **RefreshTokens**: `LocksExclude`, `Held` and `SeenIsOwn` (what a request has locked
  at each point, and that a deletion has seen and locked rows of its user only),
  `InFlight` (what it read about them is still true), `ExchangedIsRevoked` and
  `PendingIsFresh` (an exchange is committed once). The action property `LogoutSticks`
  rests on `LoggedOutIsSpent`: a token that is logged out is one a client has, so no
  insert is of it, and its row is revoked or gone. `Sessions` has a request present a
  token that is good and exchange it at one instant later; a request that presents it
  between its SELECT and its commit, and withdraws when it fails or its worker dies, is
  what the proof maps a refresh to. `RefreshIsAllOrNothing` is implied, and proved
  directly too.
* **Accounts**: `Begun` (what a request sets is what its kind sets), `OnItsWay` (where
  it is fits its kind) and `Knows` (it was let through with the values of the object it
  has), and the set of connections is finite, which the bound on the pool needs. A
  commit maps to one instant at which the changed columns are written; the ones that
  `Dirty` leaves out have been written, in the abstract, when they were read. From it
  follow `VerifiedStaysVerified`, an action property (no write of an object that was
  read before the verification takes the verification back), and `SignedInAreActive`
  (who has signed in is verified, a login that has read the row before included), by
  `AdmittedAreActive`.
* **MemoryRateLimiter**: `LiveKept` (admitted tries in the window are stored) and
  `OnlyAdmitted` give the two halves of the promise, `LiveAtPrune` the memory.
* **RedisRateLimiter**: `Timely` (a request on its way is at most `MaxDelay` old), `Scored`
  (the score of a try is its time, wrong by less than a delay and a second), `Kept` (a
  try inside the shortened window is still a member). Hence
  `Early = MaxDelay + Second - 1` and `Late = MaxDelay`.
* **History**: `CursorPasses` and `NothingSkipped` (whatever was there at the start is
  shown or below the cursor), `FirstIsNewest` and `MarkIsNewest` for the unread count.
* **Realtime**: `HandlersAreSomewhere`, `OnlyStoredIsQueued`, `OnlyTheRoomKnows`;
  `ClientsMissNothing` is then inductive itself.
* **Registration**: `IdsAreUsedOnce`, `MailsAreOfStoredCodes`, and `RequestsKnow`: what a
  request has read and still relies on, such as the lock on the user while it deletes
  codes, or that the digits it has typed are those of an account that was once made.
  `Verification` lets an account be verified by digits that were, at one instant since
  they were presented, a live code of that account and of no other, and lets only
  verified accounts be closed; that an address has one account at a time is its guard on
  claims, and here the unique index. Nothing is said of how somebody came by the digits.

Only model-checked are the liveness properties (`EveryRequestReturns`,
`RoomGetsEveryMessage`), which need `ENABLED` and fairness that the prover does not
handle, and the three violations. Some theorems have no run of their own, because a
refinement that a run checks implies them or because they are steps on the way
(`ParticipantsExist`, `RefreshIsAllOrNothing`, `AuthorsStayMembers`,
`ForwardsWereReadable`, `OneAccountPerEmail`, `NothingUnsavedIsShown`, `WrittenStays`,
`VerifiedStaysVerified`, `SignedInAreActive`). No definition is recursive and none is
proved by induction over data.

## 6. Not modelled

JWTs, password hashes, ciphers and the derivation of the master keys (pure functions,
taken to be what their libraries say); validation and layout of requests and answers;
the contents of uploaded files; `search_users`, one query; health, start, migrations.
`UserPrivacy` is a table that no service uses. Conversations are the two-party ones that
the service can create. SQLite, which the tests use, differs in locks and foreign keys;
the modules are of PostgreSQL, which `docker-compose.yml` deploys. The clocks of the
workers and of Redis are taken to be one. Of `list_conversations`, the order and the
names are left out. A list takes one conversation (several inserts of keys by one list, and
the deadlock of two such lists, are out). `SECRET_KEY` does not change while the model
runs: earlier changes of it are in the initial state. `limit` is positive in `History`, as
in the clients; the route does not enforce it. Redis
out of reach is a limiter error and a lost announcement; the client's own pool and its
reconnection are library code.

## 7. Plan

The order was that of importance: conversations and keys first, because a mistake there
loses messages; then sessions, limits, history, sockets and registration; then accounts
with their sessions and the pool, the list of conversations, master keys and logout.
What could follow:

1. A composition of `Messaging`, `History` and `Realtime`: what a client shows after
   joining, paging and receiving events, refined to one abstract conversation view;
   duplicates and the order of events against that of `created_at`.
2. A refinement of `History` (an abstract list of messages that is read from a point
   downwards) and of `Realtime` (a feed that lacks only what is on its way).
3. More action properties from the invariants that are there: a mark that moves, an
   announcement that was received.
