------------------------------ MODULE ChatLog ------------------------------
(***************************************************************************)
(* What messaging promises to its users, without requests, transactions or *)
(* keys: a log of messages that can be read by the members of their        *)
(* conversation, that only grows, and in which nobody speaks for somebody  *)
(* else.  The log may begin with old entries, some of them illegible; what *)
(* is legible stays so, and nothing that is not can be passed on.          *)
(***************************************************************************)
CONSTANTS
  Users,
  Convs,
  Msgs,      \* ids of messages; a text is named by the message it was typed in
  OldMsgs,   \* those of messages the log may begin with
  Members,   \* the members of each conversation
  NoMsg,
  Illegible  \* instead of a text that cannot be read

VARIABLES
  accounts,  \* users that have an account
  log        \* messages: id, conversation, author, text, message replied to

vars == <<accounts, log>>

Texts(c) == {m.text : m \in {n \in log : n.conv = c}} \ {Illegible}

Ids == {m.id : m \in log}

Init ==
  /\ accounts = Users
  /\ \A m, n \in log : m.id = n.id => m = n
  /\ \A m \in log :
       /\ m.id \in OldMsgs /\ m.conv \in Convs /\ m.sender \in Members[m.conv]
       /\ m.text \in {m.id, Illegible}
       /\ m.replyTo \in Ids \cup {NoMsg}

Add(u, c, id, text, replyTo) ==
  /\ u \in accounts \cap Members[c]
  /\ id \notin Ids
  /\ log' = log \cup
       {[id |-> id, conv |-> c, sender |-> u, text |-> text, replyTo |-> replyTo]}
  /\ UNCHANGED accounts

\* A member says something new, possibly as a reply.
Post(u, c, id, replyTo) ==
  /\ replyTo \in Ids \cup {NoMsg}
  /\ Add(u, c, id, id, replyTo)

\* A member of two conversations repeats in one what was said in the other.
Forward(u, from, to, id) ==
  /\ u \in Members[from]
  /\ \E text \in Texts(from) : Add(u, to, id, text, NoMsg)

\* An account goes, unless it has spoken.
CloseAccount(u) ==
  /\ \A m \in log : m.sender # u
  /\ accounts' = accounts \ {u}
  /\ UNCHANGED log

Next ==
  \E u \in Users :
    \/ CloseAccount(u)
    \/ \E c \in Convs, id \in Msgs \ OldMsgs :
         \/ \E replyTo \in Msgs \cup {NoMsg} : Post(u, c, id, replyTo)
         \/ \E from \in Convs : Forward(u, from, c, id)

Spec == Init /\ [][Next]_vars

=============================================================================
