----------------------------- MODULE Directory -----------------------------
(***************************************************************************)
(* What direct conversations promise, without statements, locks or         *)
(* crashes: a request asks for the conversation of two users and gets one  *)
(* that was there when it asked, or makes one if there was none.  A        *)
(* conversation has its two members from the start and loses one only      *)
(* with the account.                                                       *)
(*                                                                         *)
(* That others make one for the same two at the same time is not excluded. *)
(***************************************************************************)
CONSTANTS Users, Convs, Requests, NoUser, NoConv

VARIABLES
  accounts,  \* users that have an account
  born,      \* conversations
  members,   \* the members of each
  asker,     \* who asks
  partner,   \* for a conversation with whom
  saw,       \* the conversations of the two when the request asked
  conv,      \* the one it got, NoConv before
  existed,   \* requests that got one that was there
  answer     \* the other members that the answer names

vars == <<accounts, born, members, asker, partner, saw, conv, existed, answer>>

Init ==
  /\ accounts = Users
  /\ born = {}
  /\ members = [c \in Convs |-> {}]
  /\ asker = [r \in Requests |-> NoUser]
  /\ partner = [r \in Requests |-> NoUser]
  /\ saw = [r \in Requests |-> {}]
  /\ conv = [r \in Requests |-> NoConv]
  /\ existed = {}
  /\ answer = [r \in Requests |-> {}]

Ask(r, a, b) ==
  /\ asker[r] = NoUser
  /\ {a, b} \subseteq accounts /\ a # b
  /\ asker' = [asker EXCEPT ![r] = a]
  /\ partner' = [partner EXCEPT ![r] = b]
  /\ saw' = [saw EXCEPT ![r] = {c \in born : {a, b} \subseteq members[c]}]
  /\ UNCHANGED <<accounts, born, members, conv, existed, answer>>

Get(r, c) ==
  /\ asker[r] # NoUser /\ conv[r] = NoConv
  /\ conv' = [conv EXCEPT ![r] = c]
  /\ saw' = [saw EXCEPT ![r] = {}]
  /\ UNCHANGED <<accounts, asker, partner, answer>>

\* Of the conversations it saw, those that the partner is still in.
StillThere(r) == {c \in saw[r] : partner[r] \in members[c]}

Find(r, c) ==
  /\ StillThere(r) = {c}
  /\ Get(r, c)
  /\ existed' = existed \cup {r}
  /\ UNCHANGED <<born, members>>

Make(r, c) ==
  /\ StillThere(r) = {}
  /\ {asker[r], partner[r]} \subseteq accounts
  /\ c \notin born
  /\ Get(r, c)
  /\ born' = born \cup {c}
  /\ members' = [members EXCEPT ![c] = {asker[r], partner[r]}]
  /\ UNCHANGED existed

Tell(r) ==
  /\ conv[r] # NoConv
  /\ answer' = [answer EXCEPT ![r] = members[conv[r]] \ {asker[r]}]
  /\ UNCHANGED <<accounts, born, members, asker, partner, saw, conv, existed>>

\* The request is over, with or without a conversation.
Leave(r) ==
  /\ asker' = [asker EXCEPT ![r] = NoUser]
  /\ partner' = [partner EXCEPT ![r] = NoUser]
  /\ saw' = [saw EXCEPT ![r] = {}]
  /\ conv' = [conv EXCEPT ![r] = NoConv]
  /\ existed' = existed \ {r}
  /\ answer' = [answer EXCEPT ![r] = {}]
  /\ UNCHANGED <<accounts, born, members>>

\* An account goes, with all memberships of it, but not while a request that
\* has found a conversation with the user is about to answer.
Close(u) ==
  /\ \A r \in existed : partner[r] # u
  /\ accounts' = accounts \ {u}
  /\ members' = [c \in Convs |-> members[c] \ {u}]
  /\ UNCHANGED <<born, asker, partner, saw, conv, existed, answer>>

Next ==
  \/ \E r \in Requests :
       \/ \E a, b \in Users : Ask(r, a, b)
       \/ \E c \in Convs : Find(r, c) \/ Make(r, c)
       \/ Tell(r)
       \/ Leave(r)
  \/ \E u \in Users : Close(u)

Spec == Init /\ [][Next]_vars

=============================================================================
