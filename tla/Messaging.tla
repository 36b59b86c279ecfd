----------------------------- MODULE Messaging -----------------------------
(***************************************************************************)
(* Messages: save_message, forward_message, get_messages and the previews  *)
(* of list_conversations of app/services/conversation_service.py with the  *)
(* conversation keys of app/services/encryption_service.py, run            *)
(* concurrently by several requests and against delete_account of          *)
(* app/services/auth_service.py.                                           *)
(*                                                                         *)
(* Each action is the code from one wait for the database to the next; the *)
(* database is PostgreSQL at READ COMMITTED, as in module Conversations.   *)
(* Statements that read rows which never change any more are merged.       *)
(*                                                                         *)
(* A ciphertext is a pair of a key and a text; a key opens what it sealed  *)
(* and nothing else (AES-GCM), and generated keys do not repeat.  A text   *)
(* is named by the id of the message it was first sent in.                 *)
(*                                                                         *)
(* The tables start out with what an older deployment has left: keys       *)
(* wrapped with the master key of then or with one that is lost, and       *)
(* messages under them or from before there were keys.  SECRET_KEY does    *)
(* not change while the requests run.                                      *)
(*                                                                         *)
(* Nothing sets messages.deleted but delete_account, whose transaction     *)
(* cannot commit when there is a message to set it on (DeleteAccount), so  *)
(* the filters on it select everything and the flag is left out.           *)
(***************************************************************************)
EXTENDS Naturals, FiniteSets

CONSTANTS
  Users,
  Convs,
  Msgs,      \* ids a message can be given
  MaxMsgs,   \* bound on the messages stored
  OldMsgs,   \* those of messages that may have been stored before
  Requests,  \* requests and socket events that can be in progress at once
  Keys,      \* conversation keys
  OldKeys,   \* those that may have been stored before
  Master,    \* what each was wrapped with: "v1", "v2", or "other" if it was a
             \* SECRET_KEY that is not set any more
  Members,   \* the two users of each conversation
  NoUser, NoConv, NoMsg, NoKey,
  Encrypted  \* the placeholder "[encrypted]" for what a key does not open

ASSUME MembersAssumption == Members \in [Convs -> SUBSET Users]

ASSUME OldMsgsAssumption == OldMsgs \subseteq Msgs

ASSUME KeysAssumption ==
  OldKeys \subseteq Keys /\ Master \in [Keys -> {"v1", "v2", "other"}]

ASSUME SentinelsAssumption ==
  /\ NoUser \notin Users /\ NoConv \notin Convs
  /\ NoMsg \notin Msgs /\ NoKey \notin Keys
  /\ Encrypted \notin Msgs

VARIABLES
  users,     \* rows of users
  keyOf,     \* rows of encryption_keys: the key of each conversation, or NoKey
  messages,  \* rows of messages
  pc,        \* where each request is
  kind,      \* "send", "forward", "read", "list" or "delete"
  actor,     \* user_id of the request or of the socket session
  conv,      \* the conversation read or written
  ref,       \* reply_to_id of a send, message_id of a forward, last message of
             \* the conversation in a list
  key,       \* conv_key, once fetched or generated
  inserted,  \* whether that key is an uncommitted insert of this request
  text,      \* the text a forward has decrypted
  shown,     \* messages in the answer, each with its body
  quoted     \* reply previews in the answer

tables == <<users, keyOf, messages>>
locals == <<kind, actor, conv, ref, key, inserted, text, shown, quoted>>
vars == <<tables, pc, locals>>

\* The key of a message from before the keys is NoKey: nothing opens it.
OldRow == [id : OldMsgs, conv : Convs, sender : Users, text : OldMsgs,
           key : OldKeys \cup {NoKey}, replyTo : OldMsgs \cup {NoMsg}]

NewRow == [id : Msgs \ OldMsgs, conv : Convs, sender : Users, text : Msgs,
           key : Keys, replyTo : Msgs \cup {NoMsg}]

Row == OldRow \cup NewRow

In(c) == {m \in messages : m.conv = c}

\* Participant rows go with their user (Conversations!ParticipantsExist), and
\* a conversation gets no others after it is made.
IsParticipant(u, c) == u \in users \cap Members[c]

\* The master keys of the process, both derived from SECRET_KEY.
Masters == {"v2", "v1"}

\* _decrypt_key_with_master: the new master key is tried, then the old one.
Unwraps(k) == Master[k] \in Masters

\* The message was encrypted with a conversation key, and with one that can be
\* unwrapped.
HasKey(m) == m.key # NoKey /\ Unwraps(m.key)

\* Mutant: bodies stored in the clear.
DecryptAnything(m, k) == m.text

\* decrypt_message, with the handler of its failure.
Decrypt(m, k) == IF m.key = k THEN m.text ELSE Encrypted

\* What an answer says of a message.  Its id stands for all that is taken from
\* the row as it is: the author's name, the file and its type.
Item(m, body) == [id |-> m.id, body |-> body]

-----------------------------------------------------------------------------

\* Messages an older deployment may have left in a conversation: under its key,
\* or from before the migration that added encryption_keys.
LeftBehind ==
  {m \in OldRow :
     /\ m.sender \in Members[m.conv] /\ m.key \in {keyOf[m.conv], NoKey}
     /\ m.text = m.id /\ m.replyTo # m.id}

Init ==
  /\ users = Users
  /\ keyOf \in [Convs -> OldKeys \cup {NoKey}]
  /\ \A c, d \in Convs : c # d /\ keyOf[c] = keyOf[d] => keyOf[c] = NoKey
  /\ messages \in SUBSET LeftBehind
  /\ \A m, n \in messages : m.id = n.id => m = n
  /\ \A m \in messages : m.replyTo # NoMsg => \E n \in messages : n.id = m.replyTo
  /\ pc = [r \in Requests |-> "idle"]
  /\ kind = [r \in Requests |-> "none"]
  /\ actor = [r \in Requests |-> NoUser]
  /\ conv = [r \in Requests |-> NoConv]
  /\ ref = [r \in Requests |-> NoMsg]
  /\ key = [r \in Requests |-> NoKey]
  /\ inserted = [r \in Requests |-> FALSE]
  /\ text = [r \in Requests |-> NoMsg]
  /\ shown = [r \in Requests |-> {}]
  /\ quoted = [r \in Requests |-> {}]

Goto(r, l) == pc' = [pc EXCEPT ![r] = l]

\* Bound: a writer may start only while there is room for its message.
RoomForAnother ==
  Cardinality({q \in Requests : kind[q] \in {"send", "forward"} /\ pc[q] # "done"})
    + Cardinality(messages) < MaxMsgs

Begin(r, k, u, c, m) ==
  /\ pc[r] = "idle"
  /\ kind' = [kind EXCEPT ![r] = k]
  /\ actor' = [actor EXCEPT ![r] = u]
  /\ conv' = [conv EXCEPT ![r] = c]
  /\ ref' = [ref EXCEPT ![r] = m]
  /\ Goto(r, CASE k = "delete" -> "delete" [] k = "list" -> "key" [] OTHER -> "member")
  /\ UNCHANGED <<tables, key, inserted, text, shown, quoted>>

\* The socket event send_message.  The user id is that of the session, whose
\* account may be gone since connect; the id replied to is the client's.
BeginSend(r, u, c, m) ==
  /\ RoomForAnother
  /\ Begin(r, "send", u, c, m)

\* POST /conversations/forward: the router has found the message.
BeginForward(r, u, c, m) ==
  /\ RoomForAnother
  /\ u \in users
  /\ \E n \in messages : n.id = m
  /\ Begin(r, "forward", u, c, m)

\* GET /conversations/{id}/messages.
BeginRead(r, u, c) ==
  /\ u \in users
  /\ Begin(r, "read", u, c, NoMsg)

\* GET /conversations, up to the keys: its SELECT finds the conversations of
\* the user, each with its last message.  What follows is done for each of them
\* on its own, so one is taken; which of its messages is the last is left open,
\* as the SELECT leaves it between messages of the same time.
BeginList(r, u, c) ==
  /\ IsParticipant(u, c)
  /\ \E m \in In(c) : Begin(r, "list", u, c, m.id)

\* DELETE /users/me.
BeginDelete(r, u) ==
  /\ u \in users
  /\ Begin(r, "delete", u, NoConv, NoMsg)

-----------------------------------------------------------------------------

Fail(r) ==
  /\ Goto(r, "failed")
  /\ UNCHANGED <<tables, locals>>

\* What a forward needs of the message: membership in its conversation, and
\* a key of that conversation that opens it.  A key that has to be created
\* first does not.
CanTake(r, m) ==
  IsParticipant(actor[r], m.conv) /\ m.key = keyOf[m.conv] /\ HasKey(m)

\* _check_membership, and for a forward the fetch and the decryption of the
\* message.
CheckMembership(r) ==
  /\ pc[r] = "member"
  /\ \/ /\ ~ IsParticipant(actor[r], conv[r])
        /\ Fail(r)
     \/ /\ IsParticipant(actor[r], conv[r])
        /\ kind[r] # "forward"
        /\ Goto(r, "key")
        /\ UNCHANGED <<tables, locals>>
     \/ /\ IsParticipant(actor[r], conv[r])
        /\ kind[r] = "forward"
        /\ \E m \in messages :
             /\ m.id = ref[r]
             /\ \/ /\ ~ CanTake(r, m)
                   /\ Fail(r)
                \/ /\ CanTake(r, m)
                   /\ text' = [text EXCEPT ![r] = m.text]
                   /\ Goto(r, "key")
                   /\ UNCHANGED <<tables, kind, actor, conv, ref, key, inserted,
                                  shown, quoted>>

AfterKey(r) ==
  CASE kind[r] = "read"                     -> "rows"
    [] kind[r] = "list"                     -> "preview"
    [] kind[r] = "send" /\ ref[r] # NoMsg   -> "reply"
    [] kind[r] = "send" /\ ref[r] = NoMsg   -> "commit"
    [] kind[r] = "forward"                  -> "commit"
    [] OTHER                                -> "failed"

\* Mutant: the result of the SELECT is used without a look at it.
FetchKeyUnchecked(r) ==
  /\ pc[r] = "key"
  /\ key' = [key EXCEPT ![r] = keyOf[conv[r]]]
  /\ Goto(r, AfterKey(r))
  /\ UNCHANGED <<tables, kind, actor, conv, ref, inserted, text, shown, quoted>>

\* A key that no master key unwraps is an error, which list_conversations
\* turns into the placeholder.
RejectKey(r) ==
  /\ \/ /\ kind[r] = "list"
        /\ shown' = [shown EXCEPT ![r] =
                       {Item(m, Encrypted) : m \in {n \in In(conv[r]) : n.id = ref[r]}}]
        /\ Goto(r, "done")
     \/ /\ kind[r] # "list"
        /\ Goto(r, "failed")
        /\ UNCHANGED shown
  /\ UNCHANGED key

\* get_or_create_conversation_key: the SELECT.
FetchKey(r) ==
  /\ pc[r] = "key"
  /\ \/ /\ keyOf[conv[r]] # NoKey
        /\ Unwraps(keyOf[conv[r]])
        /\ key' = [key EXCEPT ![r] = keyOf[conv[r]]]
        /\ Goto(r, AfterKey(r))
        /\ UNCHANGED shown
     \/ /\ keyOf[conv[r]] # NoKey
        /\ ~ Unwraps(keyOf[conv[r]])
        /\ RejectKey(r)
     \/ /\ keyOf[conv[r]] = NoKey
        /\ Goto(r, "insertKey")
        /\ UNCHANGED <<key, shown>>
  /\ UNCHANGED <<tables, kind, actor, conv, ref, inserted, text, quoted>>

\* Mutant: no unique index, or one checked at the commit only.
NeverPending(c) == FALSE

\* Somebody's insert of a key for the conversation is neither committed nor
\* rolled back: the unique index on conversation_id makes others wait.
InsertPending(c) == \E q \in Requests : inserted[q] /\ conv[q] = c

\* New keys are wrapped with the new master key.
FreshKeys ==
  {k \in Keys : Master[k] = "v2" /\ \A c \in Convs : keyOf[c] # k}
    \ {key[q] : q \in Requests}

\* Mutant: the key inserted meanwhile is overwritten, as an upsert would.
InsertOrReplaceKey(r) ==
  /\ pc[r] = "insertKey"
  /\ ~ InsertPending(conv[r])
  /\ \E k \in FreshKeys : key' = [key EXCEPT ![r] = k]
  /\ inserted' = [inserted EXCEPT ![r] = TRUE]
  /\ Goto(r, AfterKey(r))
  /\ UNCHANGED <<tables, kind, actor, conv, ref, text, shown, quoted>>

\* get_or_create_conversation_key: the flush of a new key.  The row that a
\* concurrent request has committed meanwhile makes it fail, and the request
\* with it: list_conversations catches the error, but the failed flush has
\* expired the objects of the session and the next attribute it reads raises.
InsertKey(r) ==
  /\ pc[r] = "insertKey"
  /\ ~ InsertPending(conv[r])
  /\ \/ /\ keyOf[conv[r]] # NoKey
        /\ Fail(r)
     \/ /\ keyOf[conv[r]] = NoKey
        /\ \E k \in FreshKeys : key' = [key EXCEPT ![r] = k]
        /\ inserted' = [inserted EXCEPT ![r] = TRUE]
        /\ Goto(r, AfterKey(r))
        /\ UNCHANGED <<tables, kind, actor, conv, ref, text, shown, quoted>>

\* save_message: the message replied to is looked up by its id alone; one that
\* does not exist is dropped.
LookUpReply(r) ==
  LET replied == {m \in messages : m.id = ref[r]} IN
  /\ pc[r] = "reply"
  /\ quoted' = [quoted EXCEPT ![r] = {Item(m, Decrypt(m, key[r])) : m \in replied}]
  /\ ref' = [ref EXCEPT ![r] = IF replied = {} THEN NoMsg ELSE @]
  /\ Goto(r, "commit")
  /\ UNCHANGED <<tables, kind, actor, conv, key, inserted, text, shown>>

\* The foreign key on sender_id refuses an author without account.
AuthorExists(r) == actor[r] \in users

\* The insert of a message and the commit, which also publishes a new key.
Insert(r, i, said, replyTo) ==
  /\ \A m \in messages : m.id # i
  /\ messages' = messages \cup
       {[id |-> i, conv |-> conv[r], sender |-> actor[r], text |-> said,
         key |-> key[r], replyTo |-> replyTo]}
  /\ keyOf' = [keyOf EXCEPT ![conv[r]] = IF inserted[r] THEN key[r] ELSE @]
  /\ inserted' = [inserted EXCEPT ![r] = FALSE]
  /\ shown' = [shown EXCEPT ![r] = {[id |-> i, body |-> said]}]
  /\ Goto(r, "done")
  /\ UNCHANGED <<users, kind, actor, conv, ref, key, text, quoted>>

\* save_message, from the construction of the message on.
CommitSend(r) ==
  /\ pc[r] = "commit" /\ kind[r] = "send"
  /\ \/ ~ AuthorExists(r) /\ Fail(r)
     \/ AuthorExists(r) /\ \E i \in Msgs \ OldMsgs : Insert(r, i, i, ref[r])

\* forward_message, from the encryption with the key of the target on.
CommitForward(r) ==
  /\ pc[r] = "commit" /\ kind[r] = "forward"
  /\ \/ ~ AuthorExists(r) /\ Fail(r)
     \/ AuthorExists(r) /\ \E i \in Msgs \ OldMsgs : Insert(r, i, text[r], NoMsg)

\* get_messages and _build_messages: the rows of the conversation (its pages
\* are another matter), each decrypted, with previews of what they reply to.
ReadRows(r) ==
  LET rows == In(conv[r])
      replied == {m \in messages : \E n \in rows : n.replyTo = m.id} IN
  /\ pc[r] = "rows"
  /\ shown' = [shown EXCEPT ![r] = {Item(m, Decrypt(m, key[r])) : m \in rows}]
  /\ quoted' = [quoted EXCEPT ![r] = {Item(m, Decrypt(m, key[r])) : m \in replied}]
  /\ Goto(r, "done")
  /\ UNCHANGED <<tables, kind, actor, conv, ref, key, inserted, text>>

\* list_conversations: the last message found before, with the key of now.
ShowPreview(r) ==
  /\ pc[r] = "preview"
  /\ shown' = [shown EXCEPT ![r] =
                 {Item(m, Decrypt(m, key[r])) : m \in {n \in In(conv[r]) : n.id = ref[r]}}]
  /\ Goto(r, "done")
  /\ UNCHANGED <<tables, kind, actor, conv, ref, key, inserted, text, quoted>>

\* Mutant: only messages replied to keep their author.
IsQuoted(u) == \E m, n \in messages : m.sender = u /\ n.replyTo = m.id

\* The foreign key on sender_id refuses to delete an author.
HasSent(u) == \E m \in messages : m.sender = u

\* delete_account: tokens, codes and participants are deleted, the messages
\* of the user marked, the user deleted, all in one transaction.  It fails
\* when messages reference the user, marked or not.
DeleteAccount(r) ==
  /\ pc[r] = "delete"
  /\ \/ /\ HasSent(actor[r])
        /\ Fail(r)
     \/ /\ ~ HasSent(actor[r])
        /\ users' = users \ {actor[r]}
        /\ Goto(r, "done")
        /\ UNCHANGED <<keyOf, messages, locals>>

-----------------------------------------------------------------------------

Reset(r) ==
  /\ Goto(r, "idle")
  /\ kind' = [kind EXCEPT ![r] = "none"]
  /\ actor' = [actor EXCEPT ![r] = NoUser]
  /\ conv' = [conv EXCEPT ![r] = NoConv]
  /\ ref' = [ref EXCEPT ![r] = NoMsg]
  /\ key' = [key EXCEPT ![r] = NoKey]
  /\ inserted' = [inserted EXCEPT ![r] = FALSE]
  /\ text' = [text EXCEPT ![r] = NoMsg]
  /\ shown' = [shown EXCEPT ![r] = {}]
  /\ quoted' = [quoted EXCEPT ![r] = {}]
  /\ UNCHANGED tables

\* The answer leaves and the session is closed, which rolls back what is not
\* committed: a key inserted by a reader or by a request that failed.
Finish(r) ==
  /\ pc[r] \in {"done", "failed"}
  /\ Reset(r)

\* The worker dies or is replaced.
Crash(r) ==
  /\ pc[r] # "idle"
  /\ Reset(r)

Step(r) ==
  \/ CheckMembership(r)
  \/ FetchKey(r)
  \/ InsertKey(r)
  \/ LookUpReply(r)
  \/ CommitSend(r)
  \/ CommitForward(r)
  \/ ReadRows(r)
  \/ ShowPreview(r)
  \/ DeleteAccount(r)
  \/ Finish(r)

Next ==
  \E r \in Requests :
    \/ \E u \in Users, c \in Convs :
         \/ \E m \in Msgs \cup {NoMsg} : BeginSend(r, u, c, m)
         \/ \E m \in Msgs : BeginForward(r, u, c, m)
         \/ BeginRead(r, u, c)
         \/ BeginList(r, u, c)
    \/ \E u \in Users : BeginDelete(r, u)
    \/ Step(r)
    \/ Crash(r)

Spec == Init /\ [][Next]_vars

-----------------------------------------------------------------------------

PCs == {"idle", "member", "key", "insertKey", "reply", "commit", "rows",
        "preview", "delete", "done", "failed"}

\* Every variable stays in its type.
TypeOK ==
  /\ users \subseteq Users
  /\ keyOf \in [Convs -> Keys \cup {NoKey}]
  /\ messages \subseteq Row
  /\ pc \in [Requests -> PCs]
  /\ kind \in [Requests -> {"none", "send", "forward", "read", "list", "delete"}]
  /\ actor \in [Requests -> Users \cup {NoUser}]
  /\ conv \in [Requests -> Convs \cup {NoConv}]
  /\ ref \in [Requests -> Msgs \cup {NoMsg}]
  /\ key \in [Requests -> Keys \cup {NoKey}]
  /\ inserted \in [Requests -> BOOLEAN]
  /\ text \in [Requests -> Msgs \cup {NoMsg}]
  /\ shown \in [Requests -> SUBSET [id : Msgs, body : Msgs \cup {Encrypted}]]
  /\ quoted \in [Requests -> SUBSET [id : Msgs, body : Msgs \cup {Encrypted}]]

\* A message that a key was made for never loses it: its conversation keeps
\* that key, whoever creates keys at the same time and whichever transaction is
\* rolled back, even while no master key unwraps it.  And nothing new is written
\* that could not be read: only old messages have no key or a lost one.
EveryMessageReadable ==
  \A m \in messages :
    /\ m.key # NoKey => keyOf[m.conv] = m.key
    /\ m.id \notin OldMsgs => m.key # NoKey /\ Unwraps(m.key)

\* What there is to be read of a message.
Body(m) == IF HasKey(m) THEN m.text ELSE Encrypted

\* get_messages and list_conversations answer "[encrypted]" for the messages
\* whose key is lost or never was, and for these alone: no reader sees it for
\* any other, not even one who made up a key that is going to be thrown away,
\* and none is shown a text that is not of the message.
ReadersSeePlaintext ==
  \A r \in Requests : \A s \in shown[r] :
    \E m \in messages : s = Item(m, Body(m))

\* reply_to_id is looked up in all conversations, and the preview has the name
\* and the file of whatever message it finds; the text of a message of another
\* conversation it never has, for only the key keeps texts apart.
PreviewTextsStayInConversation ==
  \A r \in Requests : \A q \in quoted[r] :
    \E m \in messages :
      q.id = m.id /\ (q.body = Encrypted \/ (m.conv = conv[r] /\ q.body = m.text))

\* What can be read of the tables.
Legible(m) ==
  IF keyOf[m.conv] # NoKey /\ Unwraps(keyOf[m.conv])
    THEN Decrypt(m, keyOf[m.conv]) ELSE Encrypted

ReadableLog ==
  {[id |-> m.id, conv |-> m.conv, sender |-> m.sender,
    text |-> Legible(m), replyTo |-> m.replyTo] : m \in messages}

Log == INSTANCE ChatLog WITH accounts <- users, log <- ReadableLog, Illegible <- Encrypted

\* What can be read of the tables is the log of module ChatLog: every step is
\* a post, a forward or the closing of an account there, or changes nothing.
ImplementsChatLog == Log!Spec

\* delete_account succeeds: it removes the messages of the user with the user.
AccountsCanBeDeleted ==
  \A r \in Requests : kind[r] = "delete" => pc[r] # "failed"

=============================================================================
