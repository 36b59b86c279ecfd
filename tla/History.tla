------------------------------ MODULE History ------------------------------
(***************************************************************************)
(* Reading a conversation page by page while messages arrive, and what     *)
(* marking it as read does to the count of unread messages: get_messages,  *)
(* mark_read and list_conversations of                                     *)
(* app/services/conversation_service.py.                                   *)
(*                                                                         *)
(* A message gets created_at and its random id when it is flushed, and is  *)
(* seen by others when that transaction commits: messages appear in an     *)
(* order that is not the one of created_at.  Membership and encryption are *)
(* in module Messaging; nothing ever removes a message (see there).        *)
(***************************************************************************)
EXTENDS Naturals, Sequences, FiniteSets

CONSTANTS
  Users,    \* the participants
  Msgs,     \* ids of messages, ordered as PostgreSQL orders UUIDs
  Walks,    \* clients that read the conversation page by page
  Limit,    \* size of a page
  MaxTime,  \* bound on the clock
  NoUser, NoMsg

\* The route admits limit <= 0 too: an empty page that ends the walk, or an
\* error of the database.  Nothing is said of such requests.
ASSUME HistoryAssumption ==
  /\ Msgs \subseteq Nat /\ IsFiniteSet(Msgs)
  /\ Limit \in Nat \ {0}
  /\ MaxTime \in Nat
  /\ NoUser \notin Users /\ NoMsg \notin Msgs

VARIABLES
  now,        \* the clock
  time,       \* created_at of the messages
  sender,     \* their sender_id, NoUser for ids that are not used
  committed,  \* the messages that can be seen
  mark,       \* last_read_msg_id of each participant
  cleared,    \* history: what was there when the page was read that the mark is of
  pc,         \* where each walk is: "idle", "asked" or "ended"
  reader,     \* whose it is
  cursor,     \* the last message of the page before, NoMsg for the first page
  before,     \* history: what was committed when it asked for the first page
  pages       \* the pages it has got since

messageVars == <<now, time, sender, committed>>
markVars == <<mark, cleared>>
walkVars == <<pc, reader, cursor, before, pages>>
vars == <<messageVars, markVars, walkVars>>

Init ==
  /\ now = 0
  /\ time = [m \in Msgs |-> 0]
  /\ sender = [m \in Msgs |-> NoUser]
  /\ committed = {}
  /\ mark = [u \in Users |-> NoMsg]
  /\ cleared = [u \in Users |-> {}]
  /\ pc = [w \in Walks |-> "idle"]
  /\ reader = [w \in Walks |-> NoUser]
  /\ cursor = [w \in Walks |-> NoMsg]
  /\ before = [w \in Walks |-> {}]
  /\ pages = [w \in Walks |-> <<>>]

\* Bound: MaxTime.
Tick ==
  /\ now < MaxTime
  /\ now' = now + 1
  /\ UNCHANGED <<time, sender, committed, markVars, walkVars>>

\* The flush of save_message or forward_message: the defaults of Message.
Flush(m, u) ==
  /\ sender[m] = NoUser
  /\ sender' = [sender EXCEPT ![m] = u]
  /\ time' = [time EXCEPT ![m] = now]
  /\ UNCHANGED <<now, committed, markVars, walkVars>>

\* Its commit.
Commit(m) ==
  /\ sender[m] # NoUser /\ m \notin committed
  /\ committed' = committed \cup {m}
  /\ UNCHANGED <<now, time, sender, markVars, walkVars>>

\* Or the end of the worker before it.
Rollback(m) ==
  /\ sender[m] # NoUser /\ m \notin committed
  /\ sender' = [sender EXCEPT ![m] = NoUser]
  /\ time' = [time EXCEPT ![m] = 0]
  /\ UNCHANGED <<now, committed, markVars, walkVars>>

-----------------------------------------------------------------------------

\* The order of pages: created_at, then the id.
Newer(m, k) == time[m] > time[k] \/ (time[m] = time[k] /\ m > k)

\* Mutant: the cursor is part of the next page.
LeftWithCursor(w) ==
  {m \in committed : cursor[w] # NoMsg => m = cursor[w] \/ Newer(cursor[w], m)}

\* Mutant: only created_at is compared with the cursor.
LeftByTime(w) ==
  {m \in committed : cursor[w] # NoMsg => time[cursor[w]] > time[m]}

\* The rows a page is taken from: a snapshot of those older than the cursor.
Left(w) == {m \in committed : cursor[w] # NoMsg => Newer(cursor[w], m)}

\* ORDER BY created_at DESC, id DESC LIMIT Limit
Newest(S) == {m \in S : Cardinality({k \in S : Newer(k, m)}) < Limit}

IsOldest(m, S) == m \in S /\ \A k \in S \ {m} : Newer(k, m)

\* A client asks for the first page.
BeginWalk(w, u) ==
  /\ pc[w] = "idle"
  /\ pc' = [pc EXCEPT ![w] = "asked"]
  /\ reader' = [reader EXCEPT ![w] = u]
  /\ before' = [before EXCEPT ![w] = committed]
  /\ UNCHANGED <<messageVars, markVars, cursor, pages>>

\* It sends a cursor that cannot be parsed: the error is swallowed, and what it
\* gets is the first page again, as if it had begun now.
BeginAgain(w) ==
  /\ pc[w] # "idle"
  /\ pc' = [pc EXCEPT ![w] = "asked"]
  /\ cursor' = [cursor EXCEPT ![w] = NoMsg]
  /\ before' = [before EXCEPT ![w] = committed]
  /\ pages' = [pages EXCEPT ![w] = <<>>]
  /\ UNCHANGED <<messageVars, markVars, reader>>

\* The row after the last of the page tells that there are more: the client
\* asks again with the cursor it got.
HasMore(w) ==
  /\ Cardinality(Left(w)) > Limit
  /\ \E c \in Newest(Left(w)) :
       /\ IsOldest(c, Newest(Left(w)))
       /\ cursor' = [cursor EXCEPT ![w] = c]
  /\ UNCHANGED pc

\* next_cursor is null.
HasNoMore(w) ==
  /\ Cardinality(Left(w)) <= Limit
  /\ pc' = [pc EXCEPT ![w] = "ended"]
  /\ UNCHANGED cursor

\* get_messages: a page.
Page(w) ==
  /\ pc[w] = "asked"
  /\ pages' = [pages EXCEPT ![w] = Append(@, Newest(Left(w)))]
  /\ HasMore(w) \/ HasNoMore(w)
  /\ UNCHANGED <<messageVars, markVars, reader, before>>

\* Mutant: the message is not looked up.
MarkUnchecked(w) ==
  /\ pages[w] # <<>>
  /\ \E m \in Msgs : mark' = [mark EXCEPT ![reader[w]] = m]
  /\ cleared' = [cleared EXCEPT ![reader[w]] = before[w]]
  /\ UNCHANGED <<messageVars, walkVars>>

\* mark_read: a client marks the newest message it was shown.  It overwrites
\* what another client of the same user has marked.
MarkRead(w) ==
  /\ pages[w] # <<>>
  /\ \E m \in pages[w][1] :
       /\ \A k \in pages[w][1] \ {m} : Newer(m, k)
       /\ mark' = [mark EXCEPT ![reader[w]] = m]
  /\ cleared' = [cleared EXCEPT ![reader[w]] = before[w]]
  /\ UNCHANGED <<messageVars, walkVars>>

\* The client goes away, with or without having read to the end.
EndWalk(w) ==
  /\ pc[w] # "idle"
  /\ pc' = [pc EXCEPT ![w] = "idle"]
  /\ reader' = [reader EXCEPT ![w] = NoUser]
  /\ cursor' = [cursor EXCEPT ![w] = NoMsg]
  /\ before' = [before EXCEPT ![w] = {}]
  /\ pages' = [pages EXCEPT ![w] = <<>>]
  /\ UNCHANGED <<messageVars, markVars>>

Next ==
  \/ Tick
  \/ \E m \in Msgs : (\E u \in Users : Flush(m, u)) \/ Commit(m) \/ Rollback(m)
  \/ \E w \in Walks :
       \/ \E u \in Users : BeginWalk(w, u)
       \/ BeginAgain(w)
       \/ Page(w)
       \/ MarkRead(w)
       \/ EndWalk(w)

Spec == Init /\ [][Next]_vars

-----------------------------------------------------------------------------

\* Mutant: the order of pages decides what is unread.
UnreadById(u) ==
  {m \in committed : sender[m] # u /\ (mark[u] # NoMsg => m > mark[u])}

\* list_conversations: the messages it counts as unread.
Unread(u) ==
  {m \in committed :
     sender[m] # u /\ (mark[u] # NoMsg => time[m] > time[mark[u]])}

Shown(w) == UNION {pages[w][i] : i \in DOMAIN pages[w]}

\* Every variable stays in its type; marks, cursors and pages are of messages
\* that are committed.
TypeOK ==
  /\ now \in Nat
  /\ time \in [Msgs -> 0 .. now]
  /\ sender \in [Msgs -> Users \cup {NoUser}]
  /\ committed \subseteq {m \in Msgs : sender[m] # NoUser}
  /\ mark \in [Users -> committed \cup {NoMsg}]
  /\ cleared \in [Users -> SUBSET committed]
  /\ pc \in [Walks -> {"idle", "asked", "ended"}]
  /\ reader \in [Walks -> Users \cup {NoUser}]
  /\ cursor \in [Walks -> committed \cup {NoMsg}]
  /\ before \in [Walks -> SUBSET committed]
  /\ pages \in [Walks -> Seq(SUBSET committed)]

\* Whatever is committed between two pages, and however many messages have the
\* same created_at, a client gets no message twice and none out of order.
PagesDescend ==
  \A w \in Walks : \A i, j \in DOMAIN pages[w] : i < j =>
    \A m \in pages[w][i], k \in pages[w][j] : Newer(m, k)

\* A client that has read to the end has got every message that was there
\* when it began: messages that arrive meanwhile push none out of its pages.
WalkIsComplete ==
  \A w \in Walks : pc[w] = "ended" => before[w] \subseteq Shown(w)

\* A client that marks the newest message it was shown has nothing unread of
\* what was there when it began to read.
MarkingClears ==
  \A u \in Users : Unread(u) \cap cleared[u] = {}

=============================================================================
