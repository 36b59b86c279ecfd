--------------------------- MODULE Conversations ---------------------------
(***************************************************************************)
(* Direct conversations: create_direct_conversation of                     *)
(* app/services/conversation_service.py, run concurrently by several       *)
(* requests and against delete_account of app/services/auth_service.py.    *)
(*                                                                         *)
(* A request is a coroutine with a database session of its own.  Every     *)
(* await on the session is a point where other requests run, so each       *)
(* action below is the code from one such point to the next.  The database *)
(* is PostgreSQL at READ COMMITTED: a statement sees what is committed     *)
(* when it runs, writes become visible at commit, and a row that           *)
(* references a missing user is refused.  A statement over several rows    *)
(* locks them one by one, in an order that no clause of it fixes, and      *)
(* keeps them until its transaction ends: it holds the first while it      *)
(* waits for the next.  The flushes of one transaction that no other       *)
(* request can observe are merged with the commit that publishes them.     *)
(*                                                                         *)
(* A request answered before it touches the tables (400 for oneself, 401   *)
(* and 404 for a user that does not exist) changes nothing and is no step. *)
(***************************************************************************)
EXTENDS Naturals, FiniteSets

CONSTANTS
  Users,     \* ids of the accounts that ever exist
  Convs,     \* ids (uuid4) a conversation can be given; bounds the creations
  Requests,  \* requests that can be in progress at the same time
  NoUser, NoConv, NoRequest

ASSUME SentinelsAssumption ==
  NoUser \notin Users /\ NoConv \notin Convs /\ NoRequest \notin Requests

VARIABLES
  users,          \* rows of users
  conversations,  \* rows of conversations
  participants,   \* rows of conversation_participants: <<conversation, user>>
  keyed,          \* conversations that have their row in encryption_keys
  pc,             \* where each request is
  actor,          \* current_user_id of the request
  other,          \* other_user_id
  conv,           \* the conversation the request is going to answer with
  seen,           \* participant rows its SELECT ... FOR UPDATE or DELETE has seen
  held,           \* participant rows it has locked
  answer,         \* participant_ids of the answer
  creator         \* history: the request that inserted each conversation

tables == <<users, conversations, participants, keyed, creator>>
locals == <<actor, other, conv, seen, held, answer>>
vars == <<tables, pc, locals>>

Pair(r) == {actor[r], other[r]}

\* Conversations in which every one of the given users takes part.
Shared(us) == {c \in conversations : \A u \in us : <<c, u>> \in participants}

RowsOf(u) == {p \in participants : p[2] = u}

\* Mutant: the SELECT without FOR UPDATE.
LocksOfDeleteOnly(r) ==
  IF pc[r] \in {"deleteParticipants", "lockUser", "deleteUser"} THEN held[r] ELSE {}

\* The row locks of a request: SELECT ... FOR UPDATE keeps the other user's
\* rows until the session is closed, DELETE those it removes until the commit.
Locks(r) == held[r]

LockedByOthers(r) == UNION {Locks(q) : q \in Requests \ {r}}

\* The rows a statement has yet to lock: those it saw that nobody has deleted
\* meanwhile.  The DELETE on users checks that no participant is left, which
\* takes the lock of such a row.
Wanted(r) ==
  CASE pc[r] \in {"existing", "deleteParticipants"} -> (seen[r] \cap participants) \ held[r]
    [] pc[r] = "deleteUser"                         -> RowsOf(actor[r]) \ held[r]
    [] OTHER                                        -> {}

Wants(r, q) ==
  \/ Wanted(r) \cap Locks(q) # {}
  \/ pc[r] = "lockUser" /\ pc[q] = "deleteUser" /\ actor[q] = actor[r]

\* A cycle of requests, each with a row locked that another cannot do without.
Deadlocked(r) ==
  \E S \in SUBSET Requests :
    /\ r \in S
    /\ \A q \in S : (\E p \in S : Wants(q, p)) /\ (\E p \in S : Wants(p, q))

-----------------------------------------------------------------------------

Init ==
  /\ users = Users
  /\ conversations = {}
  /\ participants = {}
  /\ keyed = {}
  /\ creator = [c \in Convs |-> NoRequest]
  /\ pc = [r \in Requests |-> "idle"]
  /\ actor = [r \in Requests |-> NoUser]
  /\ other = [r \in Requests |-> NoUser]
  /\ conv = [r \in Requests |-> NoConv]
  /\ seen = [r \in Requests |-> {}]
  /\ held = [r \in Requests |-> {}]
  /\ answer = [r \in Requests |-> {}]

Goto(r, l) == pc' = [pc EXCEPT ![r] = l]

\* Bound: a request that may come to insert starts only while an id is left.
\* One that sees a conversation never inserts: those it saw go with the account
\* of the other user only.
RoomForAnother ==
  Cardinality({q \in Requests : pc[q] \in {"existing", "insert", "commit"} /\ seen[q] = {}})
    < Cardinality(Convs \ conversations)

\* POST /conversations: get_current_user, the check that the other user is
\* somebody else and exists, and the snapshot on which the SELECT for a
\* conversation the two already share runs.
BeginCreate(r, a, b) ==
  /\ pc[r] = "idle"
  /\ Shared({a, b}) # {} \/ RoomForAnother
  /\ a \in users
  /\ a # b /\ b \in users
  /\ actor' = [actor EXCEPT ![r] = a]
  /\ other' = [other EXCEPT ![r] = b]
  /\ seen' = [seen EXCEPT ![r] = {<<c, b>> : c \in Shared({a, b})}]
  /\ Goto(r, "existing")
  /\ UNCHANGED <<tables, conv, held, answer>>

\* A statement locks one more of its rows; for a row that another transaction
\* has locked it waits.
LockRow(r) ==
  /\ pc[r] \in {"existing", "deleteParticipants"}
  /\ \E row \in Wanted(r) \ LockedByOthers(r) :
       held' = [held EXCEPT ![r] = @ \cup {row}]
  /\ UNCHANGED <<tables, pc, actor, other, conv, seen, answer>>

\* Mutant: the answer that there is nothing is believed even when the SELECT
\* raised, and the rows it found are not looked at.
FindNothing(r) ==
  /\ pc[r] = "existing" /\ Wanted(r) = {}
  /\ Goto(r, "insert")
  /\ UNCHANGED <<tables, locals>>

\* The SELECT ... FOR UPDATE ends when it has locked all rows of the other user
\* that it saw and that are still there.  scalar_one_or_none gives the one
\* conversation, nothing, or raises when there are several.
FindExisting(r) ==
  LET found == {row[1] : row \in held[r]} IN
  /\ pc[r] = "existing"
  /\ Wanted(r) = {}
  /\ \/ /\ found = {}
        /\ Goto(r, "insert")
        /\ UNCHANGED conv
     \/ \E c \in found :
          /\ found = {c}
          /\ conv' = [conv EXCEPT ![r] = c]
          /\ Goto(r, "found")
     \/ /\ \E c, d \in found : c # d
        /\ Goto(r, "failed")
        /\ UNCHANGED conv
  /\ UNCHANGED <<tables, actor, other, seen, held, answer>>

\* The conversation, its two participants and its key are inserted.  The
\* participants are flushed by the SELECT for the key, outside the try block:
\* a user deleted meanwhile fails the request there.  The foreign key waits
\* for a deletion that has the row of one of the users, and keeps the rows of
\* both (KEY SHARE) until the commit.
Flush(r) ==
  /\ pc[r] = "insert"
  /\ \A q \in Requests : pc[q] = "deleteUser" => actor[q] \notin Pair(r)
  /\ Goto(r, IF Pair(r) \subseteq users THEN "commit" ELSE "failed")
  /\ UNCHANGED <<tables, locals>>

\* Mutant: the participants without their conversation.
InsertOrphans(r) ==
  /\ pc[r] = "commit"
  /\ \E c \in Convs \ conversations :
       /\ participants' = participants \cup {<<c, u>> : u \in Pair(r)}
       /\ conv' = [conv EXCEPT ![r] = c]
  /\ Goto(r, "created")
  /\ UNCHANGED <<users, conversations, keyed, creator, actor, other, seen, held, answer>>

\* The commit of the conversation, its participants and its key.
InsertConversation(r) ==
  /\ pc[r] = "commit"
  /\ \E c \in Convs \ conversations :
       /\ conversations' = conversations \cup {c}
       /\ participants' = participants \cup {<<c, u>> : u \in Pair(r)}
       /\ keyed' = keyed \cup {c}
       /\ creator' = [creator EXCEPT ![c] = r]
       /\ conv' = [conv EXCEPT ![r] = c]
  /\ Goto(r, "created")
  /\ UNCHANGED <<users, actor, other, seen, held, answer>>

\* _build_conversation_response: the participants other than the caller.
BuildResponse(r) ==
  /\ pc[r] \in {"found", "created"}
  /\ answer' = [answer EXCEPT ![r] =
                  {u \in Users : u # actor[r] /\ <<conv[r], u>> \in participants}]
  /\ Goto(r, IF pc[r] = "found" THEN "foundAnswer" ELSE "createdAnswer")
  /\ UNCHANGED <<tables, actor, other, conv, seen, held>>

-----------------------------------------------------------------------------

\* DELETE /users/me: the user is read, and the DELETE on the participants
\* starts with the rows it sees.
BeginDelete(r, u) ==
  /\ pc[r] = "idle"
  /\ u \in users
  /\ actor' = [actor EXCEPT ![r] = u]
  /\ seen' = [seen EXCEPT ![r] = RowsOf(u)]
  /\ Goto(r, "deleteParticipants")
  /\ UNCHANGED <<tables, other, conv, held, answer>>

\* The DELETE ends when it has locked all rows that it saw and that are still
\* there; rows that are new are not seen.
DeleteParticipants(r) ==
  /\ pc[r] = "deleteParticipants"
  /\ Wanted(r) = {}
  /\ seen' = [seen EXCEPT ![r] = {}]
  /\ Goto(r, "lockUser")
  /\ UNCHANGED <<tables, actor, other, conv, held, answer>>

\* Nobody has the row of the user, and no transaction that is not over has
\* inserted a reference to it.
UserRowFree(r) ==
  \A q \in Requests \ {r} :
    /\ pc[q] = "commit" => actor[r] \notin Pair(q)
    /\ pc[q] = "deleteUser" => actor[q] # actor[r]

\* The DELETE on users locks the row of the user first.
LockUser(r) ==
  /\ pc[r] = "lockUser"
  /\ UserRowFree(r)
  /\ Goto(r, "deleteUser")
  /\ UNCHANGED <<tables, locals>>

\* Mutant: no foreign key on conversation_participants.user_id.
DeleteUserUnchecked(r) ==
  /\ pc[r] = "deleteUser"
  /\ users' = users \ {actor[r]}
  /\ participants' = participants \ held[r]
  /\ held' = [held EXCEPT ![r] = {}]
  /\ Goto(r, "deleted")
  /\ UNCHANGED <<conversations, keyed, creator, actor, other, conv, seen, answer>>

\* It then looks for participants that refer to the user: one left over, once
\* nobody else has it locked, is a foreign key error.  With none it commits.
DeleteUser(r) ==
  /\ pc[r] = "deleteUser"
  /\ \/ /\ Wanted(r) = {}
        /\ users' = users \ {actor[r]}
        /\ participants' = participants \ held[r]
        /\ Goto(r, "deleted")
     \/ /\ Wanted(r) \ LockedByOthers(r) # {}
        /\ Goto(r, "failed")
        /\ UNCHANGED <<users, participants>>
  /\ held' = [held EXCEPT ![r] = {}]
  /\ UNCHANGED <<conversations, keyed, creator, actor, other, conv, seen, answer>>

\* A row of another table that references the user (module Messaging) fails
\* the DELETE on users too: here that may happen at any time.
RefuseDelete(r) ==
  /\ pc[r] = "deleteUser"
  /\ held' = [held EXCEPT ![r] = {}]
  /\ Goto(r, "failed")
  /\ UNCHANGED <<tables, actor, other, conv, seen, answer>>

-----------------------------------------------------------------------------

Reset(r) ==
  /\ Goto(r, "idle")
  /\ actor' = [actor EXCEPT ![r] = NoUser]
  /\ other' = [other EXCEPT ![r] = NoUser]
  /\ conv' = [conv EXCEPT ![r] = NoConv]
  /\ seen' = [seen EXCEPT ![r] = {}]
  /\ held' = [held EXCEPT ![r] = {}]
  /\ answer' = [answer EXCEPT ![r] = {}]
  /\ UNCHANGED tables

\* Mutant: the session stays open, with the rows it has locked.
FinishUnclosed(r) ==
  /\ pc[r] \in {"foundAnswer", "createdAnswer", "deleted", "failed"}
  /\ Goto(r, "idle")
  /\ actor' = [actor EXCEPT ![r] = NoUser]
  /\ other' = [other EXCEPT ![r] = NoUser]
  /\ conv' = [conv EXCEPT ![r] = NoConv]
  /\ seen' = [seen EXCEPT ![r] = {}]
  /\ answer' = [answer EXCEPT ![r] = {}]
  /\ UNCHANGED <<tables, held>>

\* The answer leaves and get_db closes the session.
Finish(r) ==
  /\ pc[r] \in {"foundAnswer", "createdAnswer", "deleted", "failed"}
  /\ Reset(r)

\* PostgreSQL aborts one of the transactions in a deadlock (after a
\* deadlock_timeout), whichever notices; its request fails with a 500.
BreakDeadlock(r) ==
  /\ Deadlocked(r)
  /\ held' = [held EXCEPT ![r] = {}]
  /\ Goto(r, "failed")
  /\ UNCHANGED <<tables, actor, other, conv, seen, answer>>

\* The worker dies or is replaced (gunicorn --timeout, --max-requests): what
\* is not committed is rolled back and the locks are released.
Crash(r) ==
  /\ pc[r] # "idle"
  /\ Reset(r)

Step(r) ==
  \/ LockRow(r)
  \/ FindExisting(r)
  \/ Flush(r)
  \/ InsertConversation(r)
  \/ BuildResponse(r)
  \/ DeleteParticipants(r)
  \/ LockUser(r)
  \/ DeleteUser(r)
  \/ Finish(r)

Next ==
  \E r \in Requests :
    \/ \E a, b \in Users : BeginCreate(r, a, b)
    \/ \E u \in Users : BeginDelete(r, u)
    \/ Step(r)
    \/ RefuseDelete(r)
    \/ BreakDeadlock(r)
    \/ Crash(r)

\* The event loop resumes every coroutine that can go on; PostgreSQL grants
\* row locks in turn and looks for deadlocks.
Fairness == \A r \in Requests : SF_vars(Step(r)) /\ WF_vars(BreakDeadlock(r))

Spec == Init /\ [][Next]_vars

FairSpec == Spec /\ Fairness

-----------------------------------------------------------------------------

PCs == {"idle", "existing", "insert", "commit", "found", "created", "foundAnswer",
        "createdAnswer", "deleteParticipants", "lockUser", "deleteUser", "deleted",
        "failed"}

\* Every variable stays in its type.
TypeOK ==
  /\ users \subseteq Users
  /\ conversations \subseteq Convs
  /\ participants \subseteq conversations \X Users
  /\ keyed \subseteq conversations
  /\ creator \in [Convs -> Requests \cup {NoRequest}]
  /\ pc \in [Requests -> PCs]
  /\ actor \in [Requests -> Users \cup {NoUser}]
  /\ other \in [Requests -> Users \cup {NoUser}]
  /\ conv \in [Requests -> Convs \cup {NoConv}]
  /\ seen \in [Requests -> SUBSET (conversations \X Users)]
  /\ held \in [Requests -> SUBSET participants]
  /\ answer \in [Requests -> SUBSET Users]

\* delete_account leaves every conversation: however its DELETE statements
\* interleave with conversations being created for the same user, no
\* participant row outlives its user.
ParticipantsExist == \A p \in participants : p[2] \in users

\* create_direct_conversation with an existing conversation answers with the
\* partner asked for and nobody else, even if the partner's account is being
\* deleted: what the lock of the SELECT ... FOR UPDATE is good for.
FoundAnswerNamesPartner ==
  \A r \in Requests : pc[r] = "foundAnswer" => answer[r] = {other[r]}

\* Two conversations of one pair were inserted by different requests: a
\* request never duplicates a conversation that was there when it began, and
\* concurrency is the only source of duplicates.
DuplicatesComeFromRaces ==
  \A c, d \in conversations :
    /\ c # d
    /\ \E a, b \in Users : a # b /\ {c, d} \X {a, b} \subseteq participants
    => creator[c] # creator[d]

Asking(r) ==
  pc[r] \in {"existing", "insert", "commit", "found", "created", "foundAnswer",
            "createdAnswer"}

Promise == INSTANCE Directory WITH
  accounts <- users,
  born <- conversations,
  members <- [c \in Convs |-> {u \in Users : <<c, u>> \in participants}],
  asker <- [r \in Requests |-> IF Asking(r) THEN actor[r] ELSE NoUser],
  partner <- [r \in Requests |-> IF Asking(r) THEN other[r] ELSE NoUser],
  saw <- [r \in Requests |->
            IF pc[r] \in {"existing", "insert", "commit"} THEN {p[1] : p \in seen[r]} ELSE {}],
  conv <- [r \in Requests |->
             IF pc[r] \in {"found", "created", "foundAnswer", "createdAnswer"}
             THEN conv[r] ELSE NoConv],
  existed <- {r \in Requests : pc[r] \in {"found", "foundAnswer"}},
  answer <- [r \in Requests |->
               IF pc[r] \in {"foundAnswer", "createdAnswer"} THEN answer[r] ELSE {}]

\* Whatever overlaps, fails or is rolled back, a request answers with the one
\* conversation that it saw when it began and that its partner still is in, or
\* makes a new one when all that it saw are left; a conversation appears with
\* both members, and an account goes from all of its conversations at once, but
\* never from under a request that has found it there.
ImplementsDirectory == Promise!Spec

\* Creating a direct conversation is idempotent: two users share at most one
\* (create_direct_conversation takes a "row lock" for it).
OneDirectConversation ==
  \A a, b \in Users : a # b => Cardinality(Shared({a, b})) <= 1

\* Every request comes back.  Row locks taken one by one, over the rows of two
\* conversations of one pair or by two deletions of one account, can make
\* requests wait for each other; none of them waits for good.
EveryRequestReturns ==
  \A r \in Requests : pc[r] # "idle" ~> pc[r] = "idle"

=============================================================================
