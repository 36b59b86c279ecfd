------------------------ MODULE ConversationsProofs ------------------------
(***************************************************************************)
(* Safety of direct conversations, proved for any numbers of users,        *)
(* conversations and requests.                                             *)
(***************************************************************************)
EXTENDS Conversations, TLAPS

\* No conversation has three participants.
TwoParties ==
  \A c \in Convs : \A u, v, w \in Users :
    {<<c, u>>, <<c, v>>, <<c, w>>} \subseteq participants
      => u = v \/ v = w \/ u = w

\* A create request that found nothing has no conversation of its pair among
\* those it inserted before; one that has not looked yet will find it.
PendingIsFresh ==
  \A r \in Requests, c \in conversations :
    /\ {<<c, actor[r]>>, <<c, other[r]>>} \subseteq participants
    /\ creator[c] = r
    => /\ pc[r] \notin {"insert", "commit"}
       /\ pc[r] = "existing" => <<c, other[r]>> \in seen[r]

\* What a create request has seen are conversations of its pair only.
SeenIsOfThePair ==
  \A r \in Requests : pc[r] = "existing" =>
    /\ actor[r] # other[r]
    /\ \A row \in seen[r] :
         /\ row[2] = other[r]
         /\ \A u \in Users : <<row[1], u>> \in participants => u \in Pair(r)

\* A conversation found is of the pair, and its partner is still in it.
FoundHasPartner ==
  \A r \in Requests : pc[r] \in {"found", "foundAnswer"} =>
    /\ actor[r] # other[r]
    /\ <<conv[r], other[r]>> \in participants
    /\ \A u \in Users : <<conv[r], u>> \in participants => u \in Pair(r)

\* No row is locked by two requests.
LocksExclude ==
  \A r, q \in Requests : r # q => held[r] \cap held[q] = {}

\* A statement locks rows that it saw; the request that has found a conversation
\* keeps the row of its partner locked.
HoldsSeen ==
  \A r \in Requests :
    /\ pc[r] = "idle" => held[r] = {}
    /\ pc[r] \in {"existing", "deleteParticipants"} => held[r] \subseteq seen[r]
    /\ pc[r] \in {"found", "foundAnswer"} => <<conv[r], other[r]>> \in held[r]

\* The users of a conversation that waits for its commit are kept: no deletion
\* has their rows.
CommitHasUsers ==
  \A r \in Requests : pc[r] = "commit" =>
    /\ Pair(r) \subseteq users
    /\ \A q \in Requests : pc[q] = "deleteUser" => actor[q] \notin Pair(r)

IInv ==
  /\ TypeOK
  /\ ParticipantsExist
  /\ DuplicatesComeFromRaces
  /\ FoundAnswerNamesPartner
  /\ TwoParties
  /\ PendingIsFresh
  /\ SeenIsOfThePair
  /\ FoundHasPartner
  /\ LocksExclude
  /\ HoldsSeen
  /\ CommitHasUsers

\* A create request starts: what it sees are the conversations of its pair.
LEMMA BeginCreateKeeps ==
  ASSUME IInv, NEW r \in Requests,
         NEW a \in Users, NEW b \in Users, BeginCreate(r, a, b)
  PROVE  IInv'
<1>1. TypeOK'
  <2>1. {<<c, b>> : c \in Shared({a, b})} \subseteq conversations \X Users
    <3>1. \A c \in Shared({a, b}) : <<c, b>> \in conversations \X Users
      BY DEF Shared
    <3> QED
      BY <3>1
  <2>2. seen' \in [Requests -> SUBSET (conversations \X Users)]
    BY <2>1 DEF IInv, TypeOK, BeginCreate
  <2>3. actor' \in [Requests -> Users \cup {NoUser}] /\ other' \in [Requests -> Users \cup {NoUser}]
    BY DEF IInv, TypeOK, BeginCreate
  <2>4. pc' \in [Requests -> PCs]
    BY DEF IInv, TypeOK, BeginCreate, Goto, PCs
  <2> QED
    BY <2>2, <2>3, <2>4 DEF IInv, TypeOK, BeginCreate, tables
<1>2. ParticipantsExist' /\ DuplicatesComeFromRaces' /\ TwoParties'
  BY DEF IInv, ParticipantsExist, DuplicatesComeFromRaces, TwoParties,
    BeginCreate, tables
<1>3. FoundAnswerNamesPartner'
  BY DEF IInv, TypeOK, FoundAnswerNamesPartner, BeginCreate, Goto
<1>4. PendingIsFresh'
  <2> SUFFICES ASSUME NEW q \in Requests, NEW c \in conversations',
                      {<<c, actor'[q]>>, <<c, other'[q]>>} \subseteq participants',
                      creator'[c] = q
               PROVE  /\ pc'[q] \notin {"insert", "commit"}
                      /\ pc'[q] = "existing" => <<c, other'[q]>> \in seen'[q]
    BY DEF PendingIsFresh
  <2>1. CASE q # r
    BY <2>1 DEF IInv, TypeOK, PendingIsFresh, BeginCreate, Goto, tables
  <2>2. CASE q = r
    <3>1. actor'[r] = a /\ other'[r] = b /\ pc'[r] = "existing"
      BY DEF IInv, TypeOK, BeginCreate, Goto
    <3>2. c \in Shared({a, b})
      BY <2>2, <3>1 DEF BeginCreate, tables, Shared
    <3>3. <<c, b>> \in seen'[r]
      BY <3>2 DEF IInv, TypeOK, BeginCreate
    <3> QED
      BY <2>2, <3>1, <3>3
  <2> QED
    BY <2>1, <2>2
<1>5. SeenIsOfThePair'
  <2> SUFFICES ASSUME NEW q \in Requests, pc'[q] = "existing"
               PROVE  /\ actor'[q] # other'[q]
                      /\ \A row \in seen'[q] :
                           /\ row[2] = other'[q]
                           /\ \A u \in Users : <<row[1], u>> \in participants'
                                             => u \in {actor'[q], other'[q]}
    BY DEF SeenIsOfThePair, Pair
  <2>1. CASE q # r
    BY <2>1 DEF IInv, TypeOK, SeenIsOfThePair, Pair, BeginCreate, Goto, tables
  <2>2. CASE q = r
    <3>1. actor'[r] = a /\ other'[r] = b /\ a # b
      BY DEF IInv, TypeOK, BeginCreate
    <3>2. seen'[r] = {<<c, b>> : c \in Shared({a, b})}
      BY DEF IInv, TypeOK, BeginCreate
    <3>3. \A c \in Shared({a, b}), u \in Users : <<c, u>> \in participants => u \in {a, b}
      BY <3>1 DEF IInv, TypeOK, TwoParties, Shared
    <3>4. ASSUME NEW row \in seen'[r]
          PROVE  /\ row[2] = b
                 /\ \A u \in Users : <<row[1], u>> \in participants' => u \in {a, b}
      <4>1. PICK c \in Shared({a, b}) : row = <<c, b>>
        BY <3>2
      <4> QED
        BY <3>3, <4>1 DEF BeginCreate, tables
    <3> QED
      BY <2>2, <3>1, <3>4
  <2> QED
    BY <2>1, <2>2
<1>6. FoundHasPartner'
  BY DEF IInv, TypeOK, FoundHasPartner, BeginCreate, Goto, tables, Pair
<1>7. LocksExclude'
  BY DEF IInv, TypeOK, LocksExclude, BeginCreate, Goto, tables
<1>8. HoldsSeen'
  BY DEF IInv, TypeOK, HoldsSeen, BeginCreate, Goto, tables
<1>9. CommitHasUsers'
  BY DEF IInv, TypeOK, CommitHasUsers, Pair, BeginCreate, Goto, tables
<1> QED
  BY <1>1, <1>2, <1>3, <1>4, <1>5, <1>6, <1>7, <1>8, <1>9 DEF IInv

\* The locking SELECT: it goes on to insert only when nothing it saw is left.
LEMMA FindExistingKeeps ==
  ASSUME IInv, NEW r \in Requests, FindExisting(r)
  PROVE  IInv'
<1>0. pc[r] = "existing" /\ held[r] = seen[r] \cap participants
  BY DEF IInv, TypeOK, FindExisting, Wanted, HoldsSeen
<1>f. ASSUME pc'[r] = "found"
      PROVE  <<conv'[r], other[r]>> \in held[r]
  <2>1. PICK c \in {row[1] : row \in held[r]} : conv'[r] = c
    BY <1>f DEF IInv, TypeOK, FindExisting, Goto
  <2>2. PICK row \in held[r] : c = row[1]
    BY <2>1
  <2>3. row = <<row[1], row[2]>> /\ row[2] = other[r]
    BY <1>0, <2>2 DEF IInv, TypeOK, SeenIsOfThePair
  <2> QED
    BY <2>1, <2>2, <2>3
<1>1. TypeOK'
  BY DEF IInv, TypeOK, FindExisting, Goto, tables, PCs
<1>2. ParticipantsExist' /\ DuplicatesComeFromRaces' /\ TwoParties'
  BY DEF IInv, ParticipantsExist, DuplicatesComeFromRaces, TwoParties,
    FindExisting, tables
<1>3. FoundAnswerNamesPartner'
  BY DEF IInv, TypeOK, FoundAnswerNamesPartner, FindExisting, Goto
<1>4. PendingIsFresh'
  <2> SUFFICES ASSUME NEW q \in Requests, NEW c \in conversations',
                      {<<c, actor'[q]>>, <<c, other'[q]>>} \subseteq participants',
                      creator'[c] = q
               PROVE  /\ pc'[q] \notin {"insert", "commit"}
                      /\ pc'[q] = "existing" => <<c, other'[q]>> \in seen'[q]
    BY DEF PendingIsFresh
  <2>1. pc[q] \notin {"insert", "commit"} /\ (pc[q] = "existing" => <<c, other[q]>> \in seen[q])
    BY DEF IInv, PendingIsFresh, FindExisting, tables
  <2>2. CASE q # r
    BY <2>1, <2>2 DEF IInv, TypeOK, FindExisting, Goto
  <2>3. CASE q = r
    <3>1. <<c, other[r]>> \in held[r]
      BY <1>0, <2>1, <2>3 DEF FindExisting, tables
    <3>2. c \in {row[1] : row \in held[r]}
      BY <3>1
    <3> QED
      BY <2>3, <3>2 DEF IInv, TypeOK, FindExisting, Goto
  <2> QED
    BY <2>2, <2>3
<1>5. SeenIsOfThePair'
  BY DEF IInv, TypeOK, SeenIsOfThePair, FindExisting, Goto, tables, Pair
<1>6. FoundHasPartner'
  <2>1. ASSUME pc'[r] = "found"
        PROVE  /\ actor[r] # other[r]
               /\ <<conv'[r], other[r]>> \in participants
               /\ \A u \in Users : <<conv'[r], u>> \in participants => u \in Pair(r)
    <3>1. <<conv'[r], other[r]>> \in seen[r] \cap participants
      BY <1>0, <1>f, <2>1
    <3> QED
      BY <1>0, <3>1 DEF IInv, SeenIsOfThePair
  <2>2. pc'[r] # "foundAnswer"
    BY <1>0 DEF FindExisting, Goto, IInv, TypeOK
  <2> QED
    BY <2>1, <2>2 DEF IInv, TypeOK, FoundHasPartner, FindExisting, Goto, tables, Pair
<1>7. LocksExclude'
  BY DEF IInv, TypeOK, LocksExclude, FindExisting
<1>8. HoldsSeen'
  BY <1>0, <1>f DEF IInv, TypeOK, HoldsSeen, FindExisting, Goto, tables
<1>9. CommitHasUsers'
  BY DEF IInv, TypeOK, CommitHasUsers, Pair, FindExisting, Goto, tables
<1> QED
  BY <1>1, <1>2, <1>3, <1>4, <1>5, <1>6, <1>7, <1>8, <1>9 DEF IInv

\* A lock changes what its request holds, and nothing else.
LEMMA LockRowKeeps ==
  ASSUME IInv, NEW r \in Requests, LockRow(r)
  PROVE  IInv'
<1>1. PICK row \in Wanted(r) \ LockedByOthers(r) : held' = [held EXCEPT ![r] = @ \cup {row}]
  BY DEF LockRow
<1>2. /\ row \in seen[r] \cap participants
      /\ \A q \in Requests \ {r} : row \notin held[q]
  BY <1>1 DEF LockRow, Wanted, LockedByOthers, Locks
<1>3. TypeOK'
  BY <1>1, <1>2 DEF IInv, TypeOK, LockRow, tables, PCs
<1>4. ParticipantsExist' /\ DuplicatesComeFromRaces' /\ TwoParties' /\ FoundAnswerNamesPartner'
  BY DEF IInv, ParticipantsExist, DuplicatesComeFromRaces, TwoParties,
    FoundAnswerNamesPartner, LockRow, tables
<1>5. PendingIsFresh' /\ SeenIsOfThePair' /\ FoundHasPartner' /\ CommitHasUsers'
  BY DEF IInv, PendingIsFresh, SeenIsOfThePair, FoundHasPartner, CommitHasUsers, Pair,
    LockRow, tables
<1>6. LocksExclude'
  BY <1>1, <1>2 DEF IInv, TypeOK, LocksExclude
<1>7. HoldsSeen'
  BY <1>1, <1>2 DEF IInv, TypeOK, HoldsSeen, LockRow
<1> QED
  BY <1>3, <1>4, <1>5, <1>6, <1>7 DEF IInv

\* The flush goes on with both users there.
LEMMA FlushKeeps ==
  ASSUME IInv, NEW r \in Requests, Flush(r)
  PROVE  IInv'
<1>1. TypeOK' /\ HoldsSeen' /\ LocksExclude'
  BY DEF IInv, TypeOK, HoldsSeen, LocksExclude, Flush, Goto, tables, locals, PCs
<1>2. ParticipantsExist' /\ DuplicatesComeFromRaces' /\ TwoParties'
  BY DEF IInv, ParticipantsExist, DuplicatesComeFromRaces, TwoParties, Flush, tables
<1>3. FoundAnswerNamesPartner' /\ PendingIsFresh'
  BY DEF IInv, TypeOK, FoundAnswerNamesPartner, PendingIsFresh, Flush, Goto, tables, locals
<1>4. SeenIsOfThePair' /\ FoundHasPartner' /\ CommitHasUsers'
  BY DEF IInv, TypeOK, SeenIsOfThePair, FoundHasPartner, CommitHasUsers, Pair, Flush, Goto,
    tables, locals
<1> QED
  BY <1>1, <1>2, <1>3, <1>4 DEF IInv

\* A transaction that the database refuses or aborts changes nothing.
Aborts(r) ==
  /\ held' = [held EXCEPT ![r] = {}]
  /\ Goto(r, "failed")
  /\ UNCHANGED <<tables, actor, other, conv, seen, answer>>

LEMMA AbortKeeps ==
  ASSUME IInv, NEW r \in Requests, Aborts(r)
  PROVE  IInv'
<1>1. TypeOK' /\ HoldsSeen' /\ LocksExclude'
  BY DEF IInv, TypeOK, HoldsSeen, LocksExclude, Aborts, Goto, tables, PCs
<1>2. ParticipantsExist' /\ DuplicatesComeFromRaces' /\ TwoParties'
  BY DEF IInv, ParticipantsExist, DuplicatesComeFromRaces, TwoParties, Aborts, tables
<1>3. FoundAnswerNamesPartner' /\ PendingIsFresh'
  BY DEF IInv, TypeOK, FoundAnswerNamesPartner, PendingIsFresh, Aborts, Goto, tables
<1>4. SeenIsOfThePair' /\ FoundHasPartner' /\ CommitHasUsers'
  BY DEF IInv, TypeOK, SeenIsOfThePair, FoundHasPartner, CommitHasUsers, Pair, Aborts, Goto,
    tables
<1> QED
  BY <1>1, <1>2, <1>3, <1>4 DEF IInv

\* The insert: the conversation is new, and so is its creator for the pair.
LEMMA InsertConversationKeeps ==
  ASSUME IInv, NEW r \in Requests, InsertConversation(r)
  PROVE  IInv'
<1>0. Pair(r) \subseteq users
  BY DEF IInv, CommitHasUsers, InsertConversation
<1>1. TypeOK'
  <2>1. PICK c \in Convs \ conversations :
          /\ conversations' = conversations \cup {c}
          /\ participants' = participants \cup {<<c, u>> : u \in Pair(r)}
          /\ keyed' = keyed \cup {c}
          /\ creator' = [creator EXCEPT ![c] = r]
          /\ conv' = [conv EXCEPT ![r] = c]
    BY DEF InsertConversation
  <2>2. /\ conversations' \subseteq Convs
        /\ participants' \subseteq conversations' \X Users /\ keyed' \subseteq conversations'
    BY <1>0, <2>1 DEF IInv, TypeOK
  <2>3. /\ seen' \in [Requests -> SUBSET (conversations' \X Users)]
        /\ held' \in [Requests -> SUBSET participants']
    BY <2>1 DEF IInv, TypeOK, InsertConversation
  <2> QED
    BY <2>1, <2>2, <2>3 DEF IInv, TypeOK, InsertConversation, Goto, PCs
<1>2. ParticipantsExist'
  BY <1>0 DEF IInv, TypeOK, ParticipantsExist, InsertConversation
<1>3. DuplicatesComeFromRaces'
  <2>2. ASSUME NEW n \in Convs \ conversations, pc[r] = "commit",
               conversations' = conversations \cup {n},
               participants' = participants \cup {<<n, u>> : u \in Pair(r)},
               creator' = [creator EXCEPT ![n] = r]
        PROVE  DuplicatesComeFromRaces'
    <3> SUFFICES ASSUME NEW c \in conversations', NEW d \in conversations', c # d,
                        NEW a \in Users, NEW b \in Users, a # b,
                        {c, d} \X {a, b} \subseteq participants'
                 PROVE  creator'[c] # creator'[d]
      BY DEF DuplicatesComeFromRaces
    <3>1. ASSUME NEW e \in conversations, {n, e} \X {a, b} \subseteq participants'
          PROVE  creator'[e] # r
      <4>1. {<<n, a>>, <<n, b>>, <<e, a>>, <<e, b>>} \subseteq participants'
        BY <3>1
      <4>2. a \in Pair(r) /\ b \in Pair(r)
        BY <2>2, <4>1 DEF IInv, TypeOK
      <4>3. {<<e, actor[r]>>, <<e, other[r]>>} \subseteq participants
        BY <2>2, <4>1, <4>2 DEF Pair
      <4>4. creator[e] # r
        BY <2>2, <4>3 DEF IInv, PendingIsFresh
      <4> QED
        BY <2>2, <4>4 DEF IInv, TypeOK
    <3>2. creator'[n] = r
      BY <2>2 DEF IInv, TypeOK
    <3>3. CASE c = n
      <4>1. d \in conversations /\ {n, d} \X {a, b} \subseteq participants'
        BY <2>2, <3>3
      <4> QED
        BY <3>1, <3>2, <3>3, <4>1
    <3>4. CASE d = n
      <4>1. c \in conversations /\ {n, c} \X {a, b} \subseteq participants'
        BY <2>2, <3>4
      <4> QED
        BY <3>1, <3>2, <3>4, <4>1
    <3>5. CASE c # n /\ d # n
      <4>1. c \in conversations /\ d \in conversations
        BY <2>2, <3>5
      <4>2. \A p \in {c, d} \X {a, b} : p \in participants
        BY <2>2, <3>5
      <4>3. creator[c] # creator[d]
        BY <4>1, <4>2 DEF IInv, DuplicatesComeFromRaces
      <4> QED
        BY <2>2, <3>5, <4>1, <4>3 DEF IInv, TypeOK
    <3> QED
      BY <3>3, <3>4, <3>5
  <2> QED
    BY <2>2 DEF InsertConversation
<1>4. FoundAnswerNamesPartner'
  BY DEF IInv, TypeOK, FoundAnswerNamesPartner, InsertConversation, Goto, Pair
<1>5. TwoParties'
  BY DEF IInv, TypeOK, TwoParties, InsertConversation, Goto, tables, Pair
<1>6. PendingIsFresh'
  BY DEF IInv, TypeOK, PendingIsFresh, InsertConversation, Goto, tables, Pair
<1>7. SeenIsOfThePair'
  BY DEF IInv, TypeOK, SeenIsOfThePair, InsertConversation, Goto, tables, Pair
<1>8. FoundHasPartner'
  BY DEF IInv, TypeOK, FoundHasPartner, InsertConversation, Goto, tables, Pair
<1>9. LocksExclude'
  BY DEF IInv, TypeOK, LocksExclude, InsertConversation, Goto, tables, Pair
<1>10. HoldsSeen'
  BY DEF IInv, TypeOK, HoldsSeen, InsertConversation, Goto
<1>11. CommitHasUsers'
  BY DEF IInv, TypeOK, CommitHasUsers, Pair, InsertConversation, Goto
<1> QED
  BY <1>1, <1>2, <1>3, <1>4, <1>5, <1>6, <1>7, <1>8, <1>9, <1>10, <1>11 DEF IInv

\* The answer of a found conversation is built while its row is locked.
LEMMA BuildResponseKeeps ==
  ASSUME IInv, NEW r \in Requests, BuildResponse(r)
  PROVE  IInv'
<1>1. TypeOK'
  BY DEF IInv, TypeOK, BuildResponse, Goto, tables, PCs
<1>2. ParticipantsExist' /\ DuplicatesComeFromRaces' /\ TwoParties'
  BY DEF IInv, ParticipantsExist, DuplicatesComeFromRaces, TwoParties,
    BuildResponse, tables
<1>3. FoundAnswerNamesPartner'
  <2> SUFFICES ASSUME NEW q \in Requests, pc'[q] = "foundAnswer"
               PROVE  answer'[q] = {other'[q]}
    BY DEF FoundAnswerNamesPartner
  <2>1. CASE q # r
    BY <2>1 DEF IInv, TypeOK, FoundAnswerNamesPartner, BuildResponse, Goto
  <2>2. CASE q = r
    <3>1. pc[r] = "found"
      BY <2>2 DEF IInv, TypeOK, BuildResponse, Goto
    <3>2. other[r] \in Users /\ other[r] # actor[r] /\ <<conv[r], other[r]>> \in participants
      BY <3>1 DEF IInv, TypeOK, FoundHasPartner
    <3>3. \A u \in Users : <<conv[r], u>> \in participants => u \in {actor[r], other[r]}
      BY <3>1 DEF IInv, FoundHasPartner, Pair
    <3>4. answer'[r] = {u \in Users : u # actor[r] /\ <<conv[r], u>> \in participants}
      BY DEF IInv, TypeOK, BuildResponse
    <3>5. answer'[r] = {other[r]}
      BY <3>2, <3>3, <3>4
    <3> QED
      BY <2>2, <3>5 DEF BuildResponse
  <2> QED
    BY <2>1, <2>2
<1>4. PendingIsFresh'
  BY DEF IInv, TypeOK, PendingIsFresh, BuildResponse, Goto, tables
<1>5. SeenIsOfThePair'
  BY DEF IInv, TypeOK, SeenIsOfThePair, BuildResponse, Goto, tables, Pair
<1>6. FoundHasPartner'
  BY DEF IInv, TypeOK, FoundHasPartner, BuildResponse, Goto, tables, Pair
<1>7. LocksExclude'
  BY DEF IInv, TypeOK, LocksExclude, BuildResponse, Goto, tables
<1>8. HoldsSeen'
  BY DEF IInv, TypeOK, HoldsSeen, BuildResponse, Goto, tables
<1>9. CommitHasUsers'
  BY DEF IInv, TypeOK, CommitHasUsers, Pair, BuildResponse, Goto, tables
<1> QED
  BY <1>1, <1>2, <1>3, <1>4, <1>5, <1>6, <1>7, <1>8, <1>9 DEF IInv

\* A deletion starts: it locks nothing yet.
LEMMA BeginDeleteKeeps ==
  ASSUME IInv, NEW r \in Requests, NEW u \in Users, BeginDelete(r, u)
  PROVE  IInv'
<1>1. TypeOK'
  BY DEF IInv, TypeOK, BeginDelete, Goto, tables, RowsOf, PCs
<1>2. ParticipantsExist' /\ DuplicatesComeFromRaces' /\ TwoParties'
  BY DEF IInv, ParticipantsExist, DuplicatesComeFromRaces, TwoParties,
    BeginDelete, tables
<1>3. FoundAnswerNamesPartner'
  BY DEF IInv, TypeOK, FoundAnswerNamesPartner, BeginDelete, Goto
<1>4. PendingIsFresh'
  BY DEF IInv, TypeOK, PendingIsFresh, BeginDelete, Goto, tables, RowsOf
<1>5. SeenIsOfThePair'
  BY DEF IInv, TypeOK, SeenIsOfThePair, BeginDelete, Goto, tables, RowsOf, Pair
<1>6. FoundHasPartner'
  BY DEF IInv, TypeOK, FoundHasPartner, BeginDelete, Goto, tables, RowsOf, Pair
<1>7. LocksExclude'
  BY DEF IInv, TypeOK, LocksExclude, BeginDelete, Goto, tables, RowsOf
<1>8. HoldsSeen'
  BY DEF IInv, TypeOK, HoldsSeen, BeginDelete, Goto, tables
<1>9. CommitHasUsers'
  BY DEF IInv, TypeOK, CommitHasUsers, Pair, BeginDelete, Goto, tables
<1> QED
  BY <1>1, <1>2, <1>3, <1>4, <1>5, <1>6, <1>7, <1>8, <1>9 DEF IInv

\* The DELETE on participants takes no row that a found conversation locks.
LEMMA DeleteParticipantsKeeps ==
  ASSUME IInv, NEW r \in Requests, DeleteParticipants(r)
  PROVE  IInv'
<1>1. TypeOK'
  BY DEF IInv, TypeOK, DeleteParticipants, Goto, tables, PCs
<1>2. ParticipantsExist' /\ DuplicatesComeFromRaces' /\ TwoParties'
  BY DEF IInv, ParticipantsExist, DuplicatesComeFromRaces, TwoParties,
    DeleteParticipants, tables
<1>3. FoundAnswerNamesPartner'
  BY DEF IInv, TypeOK, FoundAnswerNamesPartner, DeleteParticipants, Goto
<1>4. PendingIsFresh'
  BY DEF IInv, TypeOK, PendingIsFresh, DeleteParticipants, Goto, tables
<1>5. SeenIsOfThePair'
  BY DEF IInv, TypeOK, SeenIsOfThePair, DeleteParticipants, Goto, tables, Pair
<1>6. FoundHasPartner'
  BY DEF IInv, TypeOK, FoundHasPartner, DeleteParticipants, Goto, tables, Pair
<1>7. LocksExclude'
  BY DEF IInv, TypeOK, LocksExclude, DeleteParticipants
<1>8. HoldsSeen'
  BY DEF IInv, TypeOK, HoldsSeen, DeleteParticipants, Goto, tables
<1>9. CommitHasUsers'
  BY DEF IInv, TypeOK, CommitHasUsers, Pair, DeleteParticipants, Goto, tables
<1> QED
  BY <1>1, <1>2, <1>3, <1>4, <1>5, <1>6, <1>7, <1>8, <1>9 DEF IInv

\* The lock of the row of a user, which no conversation about to be committed has.
LEMMA LockUserKeeps ==
  ASSUME IInv, NEW r \in Requests, LockUser(r)
  PROVE  IInv'
<1>1. TypeOK' /\ HoldsSeen' /\ LocksExclude'
  BY DEF IInv, TypeOK, HoldsSeen, LocksExclude, LockUser, Goto, tables, locals, PCs
<1>2. ParticipantsExist' /\ DuplicatesComeFromRaces' /\ TwoParties'
  BY DEF IInv, ParticipantsExist, DuplicatesComeFromRaces, TwoParties, LockUser, tables
<1>3. FoundAnswerNamesPartner' /\ PendingIsFresh'
  BY DEF IInv, TypeOK, FoundAnswerNamesPartner, PendingIsFresh, LockUser, Goto, tables, locals
<1>4. SeenIsOfThePair' /\ FoundHasPartner'
  BY DEF IInv, TypeOK, SeenIsOfThePair, FoundHasPartner, Pair, LockUser, Goto, tables, locals
<1>5. CommitHasUsers'
  BY DEF IInv, TypeOK, CommitHasUsers, Pair, LockUser, UserRowFree, Goto, tables, locals
<1> QED
  BY <1>1, <1>2, <1>3, <1>4, <1>5 DEF IInv

\* A DELETE on users that comes through leaves no participant of its user.
LEMMA NothingWanted ==
  ASSUME NEW r \in Requests, pc[r] = "deleteUser", Wanted(r) = {}
  PROVE  RowsOf(actor[r]) \subseteq held[r]
  BY DEF Wanted

\* The commit of a deletion: only rows that nobody else locks go with the user.
LEMMA DeleteUserKeeps ==
  ASSUME IInv, NEW r \in Requests, DeleteUser(r)
  PROVE  IInv'
<1>1. TypeOK'
  <2>1. \A q \in Requests \ {r} : held[q] \subseteq participants \ held[r]
    BY DEF IInv, TypeOK, LocksExclude
  <2>2. held' \in [Requests -> SUBSET participants']
    BY <2>1 DEF IInv, TypeOK, DeleteUser
  <2> QED
    BY <2>2 DEF IInv, TypeOK, DeleteUser, Goto, PCs
<1>2. ParticipantsExist'
  BY NothingWanted DEF IInv, TypeOK, ParticipantsExist, DeleteUser, RowsOf
<1>3. DuplicatesComeFromRaces'
  BY DEF IInv, TypeOK, DuplicatesComeFromRaces, DeleteUser, Goto, tables, locals,
    RowsOf
<1>4. FoundAnswerNamesPartner'
  BY DEF IInv, TypeOK, FoundAnswerNamesPartner, DeleteUser, Goto, locals
<1>5. TwoParties'
  BY DEF IInv, TypeOK, TwoParties, DeleteUser, Goto, tables, locals, RowsOf
<1>6. PendingIsFresh'
  BY DEF IInv, TypeOK, PendingIsFresh, DeleteUser, Goto, tables, locals, RowsOf
<1>7. SeenIsOfThePair'
  BY DEF IInv, TypeOK, SeenIsOfThePair, DeleteUser, Goto, tables, locals, RowsOf,
    Pair
<1>8. FoundHasPartner'
  BY DEF IInv, TypeOK, FoundHasPartner, DeleteUser, Goto, tables, locals, RowsOf,
    Pair, LocksExclude, HoldsSeen
<1>9. LocksExclude'
  BY DEF IInv, TypeOK, LocksExclude, DeleteUser, Goto, tables, locals, RowsOf
<1>10. HoldsSeen'
  BY DEF IInv, TypeOK, HoldsSeen, DeleteUser, Goto
<1>11. CommitHasUsers'
  BY DEF IInv, TypeOK, CommitHasUsers, Pair, DeleteUser, Goto
<1> QED
  BY <1>1, <1>2, <1>3, <1>4, <1>5, <1>6, <1>7, <1>8, <1>9, <1>10, <1>11 DEF IInv

\* The end of a request, and the crash of its worker.
LEMMA ResetKeeps ==
  ASSUME IInv, NEW r \in Requests, Reset(r)
  PROVE  IInv'
<1>1. TypeOK'
  BY DEF IInv, TypeOK, Reset, Goto, tables, PCs
<1>2. ParticipantsExist' /\ DuplicatesComeFromRaces' /\ TwoParties'
  BY DEF IInv, ParticipantsExist, DuplicatesComeFromRaces, TwoParties, Reset, tables
<1>3. FoundAnswerNamesPartner'
  BY DEF IInv, TypeOK, FoundAnswerNamesPartner, Reset, Goto
<1>4. PendingIsFresh'
  BY DEF IInv, TypeOK, PendingIsFresh, Reset, Goto, tables
<1>5. SeenIsOfThePair'
  BY DEF IInv, TypeOK, SeenIsOfThePair, Reset, Goto, tables, Pair
<1>6. FoundHasPartner'
  BY DEF IInv, TypeOK, FoundHasPartner, Reset, Goto, tables, Pair
<1>7. LocksExclude'
  BY DEF IInv, TypeOK, LocksExclude, Reset, Goto, tables
<1>8. HoldsSeen'
  BY DEF IInv, TypeOK, HoldsSeen, Reset, Goto, tables
<1>9. CommitHasUsers'
  BY DEF IInv, TypeOK, CommitHasUsers, Pair, Reset, Goto, tables
<1> QED
  BY <1>1, <1>2, <1>3, <1>4, <1>5, <1>6, <1>7, <1>8, <1>9 DEF IInv

\* The invariant holds in every reachable state, and TypeOK with it.
THEOREM Invariance == Spec => []IInv
<1>1. Init => IInv
  BY SentinelsAssumption DEF Init, IInv, TypeOK, ParticipantsExist,
    DuplicatesComeFromRaces, FoundAnswerNamesPartner, TwoParties, PendingIsFresh,
    SeenIsOfThePair, FoundHasPartner, LocksExclude, HoldsSeen, CommitHasUsers, PCs
<1>2. IInv /\ [Next]_vars => IInv'
  <2> SUFFICES ASSUME IInv, [Next]_vars
               PROVE  IInv'
    OBVIOUS
  <2>1. CASE UNCHANGED vars
    <3> USE <2>1 DEF IInv, vars, tables, locals
    <3>1. TypeOK' /\ ParticipantsExist' /\ DuplicatesComeFromRaces' /\ TwoParties'
      BY DEF TypeOK, ParticipantsExist, DuplicatesComeFromRaces, TwoParties
    <3>2. FoundAnswerNamesPartner' /\ LocksExclude' /\ PendingIsFresh'
      BY DEF FoundAnswerNamesPartner, LocksExclude, PendingIsFresh
    <3>3. SeenIsOfThePair' /\ FoundHasPartner' /\ HoldsSeen' /\ CommitHasUsers'
      BY DEF SeenIsOfThePair, FoundHasPartner, HoldsSeen, CommitHasUsers, Pair
    <3> QED
      BY <3>1, <3>2, <3>3
  <2>2. CASE Next
    <3>1. PICK r \in Requests :
            \/ \E a, b \in Users : BeginCreate(r, a, b)
            \/ \E u \in Users : BeginDelete(r, u)
            \/ Step(r)
            \/ RefuseDelete(r) \/ BreakDeadlock(r)
            \/ Crash(r)
      BY <2>2 DEF Next
    <3>2. CASE \E a, b \in Users : BeginCreate(r, a, b)
      BY <3>2, BeginCreateKeeps
    <3>3. CASE \E u \in Users : BeginDelete(r, u)
      BY <3>3, BeginDeleteKeeps
    <3>4. CASE Crash(r)
      BY <3>4, ResetKeeps DEF Crash
    <3>5. CASE Step(r)
      BY <3>5, LockRowKeeps, FlushKeeps, FindExistingKeeps, InsertConversationKeeps, BuildResponseKeeps,
        DeleteParticipantsKeeps, LockUserKeeps, DeleteUserKeeps, ResetKeeps DEF Step, Finish
    <3>6. CASE RefuseDelete(r) \/ BreakDeadlock(r)
      BY <3>6, AbortKeeps DEF RefuseDelete, BreakDeadlock, Aborts
    <3> QED
      BY <3>1, <3>2, <3>3, <3>4, <3>5, <3>6
  <2> QED
    BY <2>1, <2>2
<1> QED
  BY <1>1, <1>2, PTL DEF Spec

\* Type correctness, for any numbers of users, conversations and requests.
THEOREM TypeCorrect == Spec => []TypeOK
<1>1. IInv => TypeOK
  BY DEF IInv
<1> QED
  BY <1>1, Invariance, PTL

\* However deletions of accounts and creations of conversations interleave,
\* no participant row outlives its user.
THEOREM ParticipantsAlwaysExist == Spec => []ParticipantsExist
<1>1. IInv => ParticipantsExist
  BY DEF IInv
<1> QED
  BY <1>1, Invariance, PTL

\* A request never inserts a second conversation for a pair that shared one
\* when it began: duplicates come from concurrent requests, so a pair has at
\* most as many conversations as there are concurrent requests.
THEOREM DuplicatesOnlyFromRaces == Spec => []DuplicatesComeFromRaces
<1>1. IInv => DuplicatesComeFromRaces
  BY DEF IInv
<1> QED
  BY <1>1, Invariance, PTL

\* The row lock of SELECT ... FOR UPDATE keeps the partner in the
\* conversation until the answer is built.
THEOREM LockKeepsPartner == Spec => []FoundAnswerNamesPartner
<1>1. IInv => FoundAnswerNamesPartner
  BY DEF IInv
<1> QED
  BY <1>1, Invariance, PTL

-----------------------------------------------------------------------------
(***************************************************************************)
(* Refinement.  Two more facts about requests are needed: those about to   *)
(* insert have nothing left of what they saw, and a DELETE has seen rows   *)
(* of its user only.                                                       *)
(***************************************************************************)

WhoAsks ==
  \A r \in Requests : Asking(r) => actor[r] \in Users /\ other[r] \in Users

NothingLeft ==
  \A r \in Requests : pc[r] \in {"insert", "commit"} =>
    \A p \in seen[r] : p[2] = other[r] /\ p \notin participants

DeletesOwn ==
  \A r \in Requests :
    /\ pc[r] = "deleteParticipants" => \A p \in seen[r] : p[2] = actor[r]
    /\ pc[r] \in {"lockUser", "deleteUser"} => \A p \in held[r] : p[2] = actor[r]

\* What a step leaves of the other requests.
OthersStay(r) ==
  \A q \in Requests \ {r} :
    /\ pc'[q] = pc[q] /\ actor'[q] = actor[q] /\ other'[q] = other[q]
    /\ conv'[q] = conv[q] /\ seen'[q] = seen[q] /\ held'[q] = held[q]
    /\ answer'[q] = answer[q]

\* A step of a request.
Moves(r) ==
  \/ \E a, b \in Users : BeginCreate(r, a, b)
  \/ \E u \in Users : BeginDelete(r, u)
  \/ Step(r)
  \/ Aborts(r) /\ pc[r] # "idle"
  \/ Crash(r)

LEMMA NextMoves ==
  ASSUME Next
  PROVE  \E r \in Requests : Moves(r)
<1>1. ASSUME NEW r \in Requests, RefuseDelete(r)
      PROVE  Moves(r)
  BY <1>1 DEF RefuseDelete, Moves, Aborts
<1>2. ASSUME NEW r \in Requests, BreakDeadlock(r)
      PROVE  Moves(r)
  <2>1. Wanted(r) # {} \/ pc[r] = "lockUser"
    BY <1>2 DEF BreakDeadlock, Deadlocked, Wants
  <2>2. pc[r] # "idle"
    BY <2>1 DEF Wanted
  <2> QED
    BY <1>2, <2>2 DEF BreakDeadlock, Moves, Aborts
<1> QED
  BY <1>1, <1>2 DEF Next, Moves

LEMMA OneSteps ==
  ASSUME IInv, NEW r \in Requests, Moves(r)
  PROVE  OthersStay(r)
<1>1. ASSUME NEW a \in Users, NEW b \in Users, BeginCreate(r, a, b)
      PROVE  OthersStay(r)
  BY <1>1 DEF BeginCreate, Goto, OthersStay, IInv, TypeOK
<1>2. ASSUME NEW u \in Users, BeginDelete(r, u)
      PROVE  OthersStay(r)
  BY <1>2 DEF BeginDelete, Goto, OthersStay, IInv, TypeOK
<1>3. CASE FindExisting(r) \/ InsertConversation(r)
  BY <1>3 DEF FindExisting, InsertConversation, Goto, OthersStay, IInv, TypeOK
<1>4. CASE BuildResponse(r) \/ DeleteParticipants(r) \/ DeleteUser(r)
  BY <1>4 DEF BuildResponse, DeleteParticipants, DeleteUser, Goto, OthersStay, IInv, TypeOK, locals
<1>5. CASE Finish(r) \/ Crash(r) \/ Aborts(r)
  BY <1>5 DEF Finish, Crash, Aborts, Reset, Goto, OthersStay, IInv, TypeOK
<1>6. CASE LockRow(r) \/ Flush(r) \/ LockUser(r)
  BY <1>6 DEF LockRow, Flush, LockUser, Goto, OthersStay, IInv, TypeOK, locals
<1> QED
  BY <1>1, <1>2, <1>3, <1>4, <1>5, <1>6 DEF Step, Moves

\* New rows of participants are of a conversation that is new.
LEMMA RowsAreNew ==
  ASSUME IInv, NEW r \in Requests, Moves(r)
  PROVE  \A p \in participants' \ participants : p[1] \in Convs \ conversations
<1>1. ASSUME InsertConversation(r)
      PROVE  \A p \in participants' \ participants : p[1] \in Convs \ conversations
  BY <1>1 DEF InsertConversation, tables
<1>2. ASSUME ~ InsertConversation(r)
      PROVE  participants' \subseteq participants
  BY <1>2 DEF Moves, BeginCreate, BeginDelete, Step, LockRow, FindExisting, Flush,
    BuildResponse, DeleteParticipants, LockUser, DeleteUser, Aborts, Finish, Crash, Reset,
    tables
<1> QED
  BY <1>1, <1>2

LEMMA RequestsStay ==
  ASSUME IInv, IInv', [Next]_vars, WhoAsks, NothingLeft, DeletesOwn
  PROVE  WhoAsks' /\ NothingLeft' /\ DeletesOwn'
<1>1. CASE UNCHANGED vars
  BY <1>1 DEF vars, tables, locals, WhoAsks, Asking, NothingLeft, DeletesOwn
<1>2. ASSUME NEW r \in Requests, Moves(r)
      PROVE  WhoAsks' /\ NothingLeft' /\ DeletesOwn'
  <2>1. OthersStay(r)
    BY <1>2, OneSteps
  <2>2. \A p \in participants' \ participants : p[1] \in Convs \ conversations
    BY <1>2, RowsAreNew
  <2>3. \A q \in Requests : \A p \in seen[q] : p[1] \in conversations
    BY DEF IInv, TypeOK
  <2>4. Asking(r)' => actor'[r] \in Users /\ other'[r] \in Users
    <3>1. CASE \E a, b \in Users : BeginCreate(r, a, b)
      BY <3>1 DEF BeginCreate, IInv, TypeOK
    <3>2. CASE \/ LockRow(r) /\ pc[r] = "existing"
               \/ FindExisting(r) \/ Flush(r) \/ InsertConversation(r) \/ BuildResponse(r)
      <4>1. Asking(r) /\ actor'[r] = actor[r] /\ other'[r] = other[r]
        BY <3>2 DEF Asking, LockRow, FindExisting, Flush, InsertConversation, BuildResponse,
          locals
      <4> QED
        BY <4>1 DEF WhoAsks
    <3>3. CASE \/ \E u \in Users : BeginDelete(r, u)
               \/ LockRow(r) /\ pc[r] = "deleteParticipants"
               \/ DeleteParticipants(r) \/ LockUser(r) \/ DeleteUser(r)
               \/ Aborts(r) \/ Finish(r) \/ Crash(r)
      BY <3>3 DEF Asking, BeginDelete, LockRow, DeleteParticipants, LockUser, DeleteUser,
        Aborts, Finish, Crash, Reset, Goto, IInv, TypeOK
    <3>4. LockRow(r) => pc[r] \in {"existing", "deleteParticipants"}
      BY DEF LockRow
    <3> QED
      BY <1>2, <3>1, <3>2, <3>3, <3>4 DEF Step, Moves
  <2>5. pc'[r] \in {"insert", "commit"}
          => \A p \in seen'[r] : p[2] = other'[r] /\ p \notin participants'
    <3>1. pc'[r] \in {"insert", "commit"} => FindExisting(r) \/ Flush(r)
      BY <1>2 DEF Moves, BeginCreate, BeginDelete, Step, LockRow, InsertConversation,
        BuildResponse, DeleteParticipants, LockUser, DeleteUser, Aborts, Finish, Crash, Reset,
        Goto, IInv, TypeOK
    <3>2. ASSUME FindExisting(r), pc'[r] \in {"insert", "commit"}
          PROVE  \A p \in seen'[r] : p[2] = other'[r] /\ p \notin participants'
      <4>1. /\ pc[r] = "existing" /\ Wanted(r) = {} /\ {row[1] : row \in held[r]} = {}
            /\ participants' = participants /\ seen' = seen /\ other' = other
        BY <3>2 DEF FindExisting, Goto, tables, IInv, TypeOK
      <4>2. seen[r] \cap participants = {}
        BY <4>1 DEF Wanted
      <4> QED
        BY <4>1, <4>2 DEF IInv, SeenIsOfThePair
    <3>3. ASSUME Flush(r)
          PROVE  \A p \in seen'[r] : p[2] = other'[r] /\ p \notin participants'
      BY <3>3 DEF Flush, NothingLeft, tables, locals
    <3> QED
      BY <3>1, <3>2, <3>3
  <2>6. /\ pc'[r] = "deleteParticipants" => \A p \in seen'[r] : p[2] = actor'[r]
        /\ pc'[r] \in {"lockUser", "deleteUser"} => \A p \in held'[r] : p[2] = actor'[r]
    <3>1. ASSUME NEW u \in Users, BeginDelete(r, u)
          PROVE  pc'[r] = "deleteParticipants" /\ \A p \in seen'[r] : p[2] = actor'[r]
      BY <3>1 DEF BeginDelete, Goto, RowsOf, IInv, TypeOK
    <3>2. ASSUME DeleteParticipants(r)
          PROVE  pc'[r] = "lockUser" /\ \A p \in held'[r] : p[2] = actor'[r]
      BY <3>2 DEF DeleteParticipants, Goto, DeletesOwn, HoldsSeen, IInv, TypeOK
    <3>3. CASE LockRow(r)
      BY <3>3 DEF LockRow, DeletesOwn, IInv, TypeOK
    <3>4. CASE LockUser(r)
      BY <3>4 DEF LockUser, DeletesOwn, Goto, locals, IInv, TypeOK
    <3>5. CASE /\ \A u \in Users : ~ BeginDelete(r, u)
               /\ ~ DeleteParticipants(r) /\ ~ LockRow(r) /\ ~ LockUser(r)
      BY <1>2, <3>5 DEF Moves, BeginCreate, Step, FindExisting, Flush, InsertConversation,
        BuildResponse, DeleteUser, Aborts, Finish, Crash, Reset, Goto, IInv, TypeOK
    <3> QED
      BY <3>1, <3>2, <3>3, <3>4, <3>5
  <2>7. WhoAsks'
    BY <2>1, <2>4 DEF WhoAsks, Asking, OthersStay
  <2>8. NothingLeft'
    BY <2>1, <2>2, <2>3, <2>5 DEF NothingLeft, OthersStay
  <2>9. DeletesOwn'
    BY <2>1, <2>6 DEF DeletesOwn, OthersStay
  <2> QED
    BY <2>7, <2>8, <2>9
<1>3. ASSUME Next
      PROVE  \E r \in Requests : Moves(r)
  BY <1>3, NextMoves
<1> QED
  BY <1>1, <1>2, <1>3

\* What the promise knows of a request, and of a conversation.
Asker(r) == IF Asking(r) THEN actor[r] ELSE NoUser
Partner(r) == IF Asking(r) THEN other[r] ELSE NoUser
Saw(r) ==
  IF pc[r] \in {"existing", "insert", "commit"} THEN {p[1] : p \in seen[r]} ELSE {}
Got(r) ==
  IF pc[r] \in {"found", "created", "foundAnswer", "createdAnswer"} THEN conv[r] ELSE NoConv
Answer(r) == IF pc[r] \in {"foundAnswer", "createdAnswer"} THEN answer[r] ELSE {}
Existed(r) == pc[r] \in {"found", "foundAnswer"}
MembersOf(c) == {u \in Users : <<c, u>> \in participants}

LEMMA OthersMap ==
  ASSUME NEW r \in Requests, OthersStay(r)
  PROVE  /\ [q \in Requests |-> Asker(q)]' = [[q \in Requests |-> Asker(q)] EXCEPT ![r] = Asker(r)']
         /\ [q \in Requests |-> Partner(q)]'
              = [[q \in Requests |-> Partner(q)] EXCEPT ![r] = Partner(r)']
         /\ [q \in Requests |-> Saw(q)]' = [[q \in Requests |-> Saw(q)] EXCEPT ![r] = Saw(r)']
         /\ [q \in Requests |-> Got(q)]' = [[q \in Requests |-> Got(q)] EXCEPT ![r] = Got(r)']
         /\ [q \in Requests |-> Answer(q)]'
              = [[q \in Requests |-> Answer(q)] EXCEPT ![r] = Answer(r)']
         /\ {q \in Requests : Existed(q)}'
              = IF Existed(r)' THEN {q \in Requests : Existed(q)} \cup {r}
                               ELSE {q \in Requests : Existed(q)} \ {r}
<1>1. \A q \in Requests \ {r} : Asker(q)' = Asker(q) /\ Partner(q)' = Partner(q)
  BY DEF OthersStay, Asker, Partner, Asking
<1>2. \A q \in Requests \ {r} : Saw(q)' = Saw(q) /\ Got(q)' = Got(q)
  BY DEF OthersStay, Saw, Got
<1>3. \A q \in Requests \ {r} : Answer(q)' = Answer(q) /\ (Existed(q)' <=> Existed(q))
  BY DEF OthersStay, Answer, Existed
<1>4. [q \in Requests |-> Asker(q)]' = [[q \in Requests |-> Asker(q)] EXCEPT ![r] = Asker(r)']
  BY <1>1
<1>5. [q \in Requests |-> Partner(q)]'
        = [[q \in Requests |-> Partner(q)] EXCEPT ![r] = Partner(r)']
  BY <1>1
<1>6. [q \in Requests |-> Saw(q)]' = [[q \in Requests |-> Saw(q)] EXCEPT ![r] = Saw(r)']
  BY <1>2
<1>7. [q \in Requests |-> Got(q)]' = [[q \in Requests |-> Got(q)] EXCEPT ![r] = Got(r)']
  BY <1>2
<1>8. [q \in Requests |-> Answer(q)]'
        = [[q \in Requests |-> Answer(q)] EXCEPT ![r] = Answer(r)']
  BY <1>3
<1>9. {q \in Requests : Existed(q)}'
        = IF Existed(r)' THEN {q \in Requests : Existed(q)} \cup {r}
                         ELSE {q \in Requests : Existed(q)} \ {r}
  BY <1>3
<1> QED
  BY <1>4, <1>5, <1>6, <1>7, <1>8, <1>9

\* What does not change of one request does not change of any.
LEMMA UnmovedMap ==
  ASSUME NEW r \in Requests, OthersStay(r)
  PROVE  /\ Asker(r)' = Asker(r) =>
              [q \in Requests |-> Asker(q)]' = [q \in Requests |-> Asker(q)]
         /\ Partner(r)' = Partner(r) =>
              [q \in Requests |-> Partner(q)]' = [q \in Requests |-> Partner(q)]
         /\ Saw(r)' = Saw(r) => [q \in Requests |-> Saw(q)]' = [q \in Requests |-> Saw(q)]
         /\ Got(r)' = Got(r) => [q \in Requests |-> Got(q)]' = [q \in Requests |-> Got(q)]
         /\ Answer(r)' = Answer(r) =>
              [q \in Requests |-> Answer(q)]' = [q \in Requests |-> Answer(q)]
         /\ (Existed(r)' <=> Existed(r)) =>
              {q \in Requests : Existed(q)}' = {q \in Requests : Existed(q)}
<1>1. \A q \in Requests \ {r} : Asker(q)' = Asker(q) /\ Partner(q)' = Partner(q)
  BY DEF OthersStay, Asker, Partner, Asking
<1>2. \A q \in Requests \ {r} : Saw(q)' = Saw(q) /\ Got(q)' = Got(q)
  BY DEF OthersStay, Saw, Got
<1>3. \A q \in Requests \ {r} : Answer(q)' = Answer(q) /\ (Existed(q)' <=> Existed(q))
  BY DEF OthersStay, Answer, Existed
<1>4. Asker(r)' = Asker(r) => [q \in Requests |-> Asker(q)]' = [q \in Requests |-> Asker(q)]
  BY <1>1
<1>5. Partner(r)' = Partner(r) =>
        [q \in Requests |-> Partner(q)]' = [q \in Requests |-> Partner(q)]
  BY <1>1
<1>6. Saw(r)' = Saw(r) => [q \in Requests |-> Saw(q)]' = [q \in Requests |-> Saw(q)]
  BY <1>2
<1>7. Got(r)' = Got(r) => [q \in Requests |-> Got(q)]' = [q \in Requests |-> Got(q)]
  BY <1>2
<1>8. Answer(r)' = Answer(r) =>
        [q \in Requests |-> Answer(q)]' = [q \in Requests |-> Answer(q)]
  BY <1>3
<1>9. (Existed(r)' <=> Existed(r)) =>
        {q \in Requests : Existed(q)}' = {q \in Requests : Existed(q)}
  BY <1>3
<1> QED
  BY <1>4, <1>5, <1>6, <1>7, <1>8, <1>9

\* A request that stays as the promise knows it.
LEMMA SameMaps ==
  ASSUME NEW r \in Requests, OthersStay(r), UNCHANGED <<users, conversations, participants>>,
         Asker(r)' = Asker(r), Partner(r)' = Partner(r), Saw(r)' = Saw(r), Got(r)' = Got(r),
         Answer(r)' = Answer(r), Existed(r)' <=> Existed(r)
  PROVE  UNCHANGED Promise!vars
<1>1. /\ [q \in Requests |-> Asker(q)]' = [q \in Requests |-> Asker(q)]
      /\ [q \in Requests |-> Partner(q)]' = [q \in Requests |-> Partner(q)]
  BY UnmovedMap
<1>2. /\ [q \in Requests |-> Saw(q)]' = [q \in Requests |-> Saw(q)]
      /\ [q \in Requests |-> Got(q)]' = [q \in Requests |-> Got(q)]
  BY UnmovedMap
<1>3. /\ [q \in Requests |-> Answer(q)]' = [q \in Requests |-> Answer(q)]
      /\ {q \in Requests : Existed(q)}' = {q \in Requests : Existed(q)}
  BY UnmovedMap
<1> QED
  BY <1>1, <1>2, <1>3 DEF Promise!vars, Asker, Partner, Saw, Got, Answer, Existed

\* A request that asks for nothing any more.
LEMMA LeaveMaps ==
  ASSUME NEW r \in Requests, OthersStay(r), UNCHANGED <<users, conversations, participants>>,
         pc'[r] \in {"idle", "failed", "deleteParticipants", "lockUser", "deleteUser", "deleted"}
  PROVE  Promise!Next
<1>1. /\ Asker(r)' = NoUser /\ Partner(r)' = NoUser /\ Saw(r)' = {} /\ Got(r)' = NoConv
      /\ Answer(r)' = {} /\ ~ Existed(r)'
  BY DEF Asker, Partner, Saw, Got, Answer, Existed, Asking
<1>2. /\ [q \in Requests |-> Asker(q)]' = [[q \in Requests |-> Asker(q)] EXCEPT ![r] = NoUser]
      /\ [q \in Requests |-> Partner(q)]'
           = [[q \in Requests |-> Partner(q)] EXCEPT ![r] = NoUser]
  BY <1>1, OthersMap
<1>3. /\ [q \in Requests |-> Saw(q)]' = [[q \in Requests |-> Saw(q)] EXCEPT ![r] = {}]
      /\ [q \in Requests |-> Got(q)]' = [[q \in Requests |-> Got(q)] EXCEPT ![r] = NoConv]
      /\ [q \in Requests |-> Answer(q)]' = [[q \in Requests |-> Answer(q)] EXCEPT ![r] = {}]
  BY <1>1, OthersMap
<1>4. {q \in Requests : Existed(q)}' = {q \in Requests : Existed(q)} \ {r}
  BY <1>1, OthersMap
<1>5. Promise!Leave(r)
  BY <1>2, <1>3, <1>4 DEF Promise!Leave, Asker, Partner, Saw, Got, Answer, Existed
<1> QED
  BY <1>5 DEF Promise!Next

LEMMA BeginCreateMaps ==
  ASSUME IInv, NEW r \in Requests, NEW a \in Users, NEW b \in Users, BeginCreate(r, a, b)
  PROVE  Promise!Next
<1>1. /\ OthersStay(r) /\ UNCHANGED <<users, conversations, participants>>
      /\ pc[r] = "idle" /\ pc'[r] = "existing"
      /\ actor'[r] = a /\ other'[r] = b /\ seen'[r] = {<<c, b>> : c \in Shared({a, b})}
  BY OneSteps DEF Moves, BeginCreate, Goto, tables, IInv, TypeOK
<1>2. {p[1] : p \in {<<c, b>> : c \in Shared({a, b})}}
        = {c \in conversations : {a, b} \subseteq MembersOf(c)}
  <2>1. {p[1] : p \in {<<c, b>> : c \in Shared({a, b})}} = Shared({a, b})
    <3> DEFINE rows == {<<c, b>> : c \in Shared({a, b})}
    <3>1. \A c \in Shared({a, b}) : <<c, b>> \in rows /\ <<c, b>>[1] = c
      OBVIOUS
    <3>2. \A p \in rows : p[1] \in Shared({a, b})
      OBVIOUS
    <3> HIDE DEF rows
    <3>3. \A c \in Shared({a, b}) : \E p \in rows : c = p[1]
      BY <3>1
    <3>4. {p[1] : p \in rows} = Shared({a, b})
      BY <3>2, <3>3
    <3> QED
      BY <3>4 DEF rows
  <2>2. Shared({a, b}) = {c \in conversations : {a, b} \subseteq MembersOf(c)}
    BY DEF Shared, MembersOf
  <2> QED
    BY <2>1, <2>2
<1>3. {c \in conversations : {a, b} \subseteq MembersOf(c)}
        = {c \in conversations : {a, b} \subseteq [d \in Convs |-> MembersOf(d)][c]}
  BY DEF IInv, TypeOK
<1>4. /\ Asker(r) = NoUser /\ Asker(r)' = a /\ Partner(r)' = b
      /\ Saw(r)' = {c \in conversations : {a, b} \subseteq [d \in Convs |-> MembersOf(d)][c]}
      /\ Got(r) = NoConv /\ Got(r)' = NoConv
      /\ Answer(r) = {} /\ Answer(r)' = {} /\ ~ Existed(r) /\ ~ Existed(r)'
  BY <1>1, <1>2, <1>3 DEF Asker, Partner, Saw, Got, Answer, Existed, Asking
<1>5. /\ [q \in Requests |-> Got(q)]' = [q \in Requests |-> Got(q)]
      /\ [q \in Requests |-> Answer(q)]' = [q \in Requests |-> Answer(q)]
      /\ {q \in Requests : Existed(q)}' = {q \in Requests : Existed(q)}
  BY <1>1, <1>4, UnmovedMap
<1>6. {a, b} \subseteq users /\ a # b
  BY DEF BeginCreate
<1>7. Promise!Ask(r, a, b)
  <2>1. [q \in Requests |-> Asker(q)]' = [[q \in Requests |-> Asker(q)] EXCEPT ![r] = a]
    BY <1>1, <1>4, OthersMap
  <2>2. [q \in Requests |-> Partner(q)]' = [[q \in Requests |-> Partner(q)] EXCEPT ![r] = b]
    BY <1>1, <1>4, OthersMap
  <2>3. [q \in Requests |-> Saw(q)]' = [[q \in Requests |-> Saw(q)] EXCEPT ![r] =
          {c \in conversations : {a, b} \subseteq [d \in Convs |-> MembersOf(d)][c]}]
    BY <1>1, <1>4, OthersMap
  <2> QED
    BY <1>1, <1>4, <1>5, <1>6, <2>1, <2>2, <2>3
       DEF Promise!Ask, Asker, Partner, Saw, Got, Answer, Existed, MembersOf
<1> QED
  BY <1>7 DEF Promise!Next

\* What a request saw and its partner is still in are the rows that its SELECT
\* finds.
LEMMA StillThereMaps ==
  ASSUME IInv, WhoAsks, NEW r \in Requests, pc[r] = "existing"
  PROVE  Promise!StillThere(r) = {p[1] : p \in seen[r] \cap participants}
<1>1. \A p \in seen[r] : /\ p[1] \in Convs /\ p[2] = other[r] /\ p = <<p[1], other[r]>>
  BY DEF IInv, TypeOK, SeenIsOfThePair
<1>2. other[r] \in Users
  BY DEF WhoAsks, Asking
<1>3. \A p \in seen[r] : other[r] \in MembersOf(p[1]) <=> p \in participants
  BY <1>1, <1>2 DEF MembersOf
<1>4. \A c \in {p[1] : p \in seen[r]} :
        other[r] \in [d \in Convs |-> MembersOf(d)][c] <=> other[r] \in MembersOf(c)
  BY <1>1
<1>5. Promise!StillThere(r) = {c \in {p[1] : p \in seen[r]} : other[r] \in MembersOf(c)}
  BY <1>4 DEF Promise!StillThere, Asking, MembersOf
<1>6. \A c \in {p[1] : p \in seen[r]} :
        other[r] \in MembersOf(c) <=> \E p \in seen[r] \cap participants : c = p[1]
  BY <1>1, <1>3
<1> QED
  BY <1>5, <1>6

\* A request gets a conversation.
LEMMA GetMaps ==
  ASSUME IInv, WhoAsks, NEW r \in Requests, NEW c \in Convs, OthersStay(r),
         pc[r] \in {"existing", "insert", "commit"}, pc'[r] \in {"found", "created"},
         actor'[r] = actor[r], other'[r] = other[r], conv'[r] = c, UNCHANGED users
  PROVE  /\ Promise!Get(r, c)
         /\ {q \in Requests : Existed(q)}'
              = IF pc'[r] = "found" THEN {q \in Requests : Existed(q)} \cup {r}
                                    ELSE {q \in Requests : Existed(q)}
<1>1. /\ Asker(r) \in Users /\ Asker(r)' = Asker(r) /\ Partner(r)' = Partner(r)
      /\ Saw(r)' = {} /\ Got(r) = NoConv /\ Got(r)' = c /\ Answer(r) = {} /\ Answer(r)' = {}
      /\ ~ Existed(r) /\ (Existed(r)' <=> pc'[r] = "found")
  BY DEF WhoAsks, Asking, Asker, Partner, Saw, Got, Answer, Existed
<1>2. /\ [q \in Requests |-> Asker(q)]' = [q \in Requests |-> Asker(q)]
      /\ [q \in Requests |-> Partner(q)]' = [q \in Requests |-> Partner(q)]
      /\ [q \in Requests |-> Answer(q)]' = [q \in Requests |-> Answer(q)]
  BY <1>1, UnmovedMap
<1>3. /\ [q \in Requests |-> Saw(q)]' = [[q \in Requests |-> Saw(q)] EXCEPT ![r] = {}]
      /\ [q \in Requests |-> Got(q)]' = [[q \in Requests |-> Got(q)] EXCEPT ![r] = c]
  BY <1>1, OthersMap
<1>4. {q \in Requests : Existed(q)}'
        = IF pc'[r] = "found" THEN {q \in Requests : Existed(q)} \cup {r}
                              ELSE {q \in Requests : Existed(q)}
  BY <1>1, OthersMap
<1>5. Promise!Get(r, c)
  BY <1>1, <1>2, <1>3, SentinelsAssumption
     DEF Promise!Get, Asker, Partner, Saw, Got, Answer
<1> QED
  BY <1>4, <1>5

LEMMA FindExistingMaps ==
  ASSUME IInv, WhoAsks, NothingLeft, NEW r \in Requests, FindExisting(r)
  PROVE  Promise!Next \/ UNCHANGED Promise!vars
<1> DEFINE found == {p[1] : p \in held[r]}
<1>0. pc[r] = "existing" /\ held[r] = seen[r] \cap participants
  BY DEF IInv, TypeOK, FindExisting, Wanted, HoldsSeen
<1>1. /\ pc[r] = "existing" /\ OthersStay(r) /\ UNCHANGED <<users, conversations, participants>>
      /\ actor'[r] = actor[r] /\ other'[r] = other[r] /\ seen'[r] = seen[r]
  BY OneSteps DEF Moves, FindExisting, Step, tables
<1>2. \/ pc'[r] = "insert"
      \/ \E c \in found : found = {c} /\ conv'[r] = c /\ pc'[r] = "found"
      \/ pc'[r] = "failed"
  BY DEF FindExisting, Goto, IInv, TypeOK
<1>3. CASE pc'[r] = "insert"
  <2>1. /\ Asker(r)' = Asker(r) /\ Partner(r)' = Partner(r) /\ Saw(r)' = Saw(r)
        /\ Got(r)' = Got(r) /\ Answer(r)' = Answer(r) /\ (Existed(r)' <=> Existed(r))
    BY <1>1, <1>3 DEF Asker, Partner, Saw, Got, Answer, Existed, Asking
  <2> QED
    BY <1>1, <2>1, SameMaps
<1>4. ASSUME NEW c, c \in found, found = {c}, conv'[r] = c, pc'[r] = "found"
      PROVE  Promise!Next
  <2>1. c \in Convs
    BY <1>0, <1>4 DEF IInv, TypeOK
  <2>2. Promise!StillThere(r) = {c}
    BY <1>0, <1>1, <1>4, StillThereMaps
  <2>3. /\ Promise!Get(r, c)
        /\ {q \in Requests : Existed(q)}' = {q \in Requests : Existed(q)} \cup {r}
    BY <1>1, <1>4, <2>1, GetMaps
  <2>4. Promise!Find(r, c)
    BY <1>1, <2>2, <2>3 DEF Promise!Find, Existed
  <2> QED
    BY <2>1, <2>4 DEF Promise!Next
<1>5. CASE pc'[r] = "failed"
  BY <1>1, <1>5, LeaveMaps
<1> QED
  BY <1>2, <1>3, <1>4, <1>5

LEMMA InsertConversationMaps ==
  ASSUME IInv, WhoAsks, NothingLeft, NEW r \in Requests, InsertConversation(r)
  PROVE  Promise!Next
<1>1. /\ pc[r] = "commit" /\ OthersStay(r)
      /\ actor'[r] = actor[r] /\ other'[r] = other[r]
  BY OneSteps DEF Moves, InsertConversation, Step
<1>3. Pair(r) \subseteq users
  BY <1>1 DEF IInv, CommitHasUsers
<1>4. Promise!Next
  <2>1. PICK c \in Convs \ conversations :
          /\ conversations' = conversations \cup {c}
          /\ participants' = participants \cup {<<c, u>> : u \in Pair(r)}
          /\ conv'[r] = c /\ pc'[r] = "created" /\ UNCHANGED users
    BY DEF InsertConversation, Goto, IInv, TypeOK
  <2>2. /\ Promise!Get(r, c)
        /\ {q \in Requests : Existed(q)}' = {q \in Requests : Existed(q)}
    BY <1>1, <2>1, GetMaps
  <2>3. Pair(r) \subseteq Users /\ participants \subseteq conversations \X Users
    BY <1>3 DEF IInv, TypeOK
  <2>4. MembersOf(c)' = Pair(r)
    BY <2>1, <2>3 DEF MembersOf
  <2>5. \A d \in Convs \ {c} : MembersOf(d)' = MembersOf(d)
    BY <2>1 DEF MembersOf
  <2>6. [d \in Convs |-> MembersOf(d)]' = [[d \in Convs |-> MembersOf(d)] EXCEPT ![c] = Pair(r)]
    BY <2>4, <2>5
  <2>7. Promise!StillThere(r) = {}
    <3>1. /\ seen[r] \subseteq conversations \X Users /\ conversations \subseteq Convs
          /\ \A p \in seen[r] : p[2] = other[r] /\ p \notin participants
      BY <1>1 DEF NothingLeft, IInv, TypeOK
    <3>2. PICK b : b = other[r]
      OBVIOUS
    <3>3. ASSUME NEW p \in seen[r]
          PROVE  b \notin [d \in Convs |-> MembersOf(d)][p[1]]
      <4>1. p = <<p[1], b>> /\ p[1] \in Convs
        BY <3>1, <3>2
      <4>2. <<p[1], b>> \notin participants
        BY <3>1, <4>1
      <4> QED
        BY <4>1, <4>2 DEF MembersOf
    <3>4. Promise!StillThere(r)
            = {d \in {p[1] : p \in seen[r]} : b \in [e \in Convs |-> MembersOf(e)][d]}
      BY <1>1, <3>2 DEF Promise!StillThere, Asking, MembersOf
    <3> QED
      BY <3>3, <3>4
  <2>8. Promise!Make(r, c)
    BY <1>1, <1>3, <2>1, <2>2, <2>6, <2>7
       DEF Promise!Make, Pair, Asking, Existed, MembersOf
  <2> QED
    BY <2>8 DEF Promise!Next
<1> QED
  BY <1>4

LEMMA BuildResponseMaps ==
  ASSUME IInv, NEW r \in Requests, BuildResponse(r)
  PROVE  Promise!Next \/ UNCHANGED Promise!vars
<1>1. /\ pc[r] \in {"found", "created"} /\ OthersStay(r)
      /\ pc'[r] = IF pc[r] = "found" THEN "foundAnswer" ELSE "createdAnswer"
      /\ answer'[r] = {u \in Users : u # actor[r] /\ <<conv[r], u>> \in participants}
      /\ actor'[r] = actor[r] /\ other'[r] = other[r] /\ conv'[r] = conv[r]
      /\ UNCHANGED <<users, conversations, participants>>
  BY OneSteps DEF Moves, BuildResponse, Step, Goto, tables, IInv, TypeOK
<1>2. /\ Asker(r)' = Asker(r) /\ Partner(r)' = Partner(r) /\ Saw(r)' = Saw(r)
      /\ Got(r)' = Got(r) /\ (Existed(r)' <=> Existed(r))
  BY <1>1 DEF Asker, Partner, Saw, Got, Existed, Asking
<1>3. /\ [q \in Requests |-> Asker(q)]' = [q \in Requests |-> Asker(q)]
      /\ [q \in Requests |-> Partner(q)]' = [q \in Requests |-> Partner(q)]
      /\ [q \in Requests |-> Saw(q)]' = [q \in Requests |-> Saw(q)]
      /\ [q \in Requests |-> Got(q)]' = [q \in Requests |-> Got(q)]
      /\ {q \in Requests : Existed(q)}' = {q \in Requests : Existed(q)}
  <2>1. /\ [q \in Requests |-> Asker(q)]' = [q \in Requests |-> Asker(q)]
        /\ [q \in Requests |-> Partner(q)]' = [q \in Requests |-> Partner(q)]
    BY <1>1, <1>2, UnmovedMap
  <2>2. /\ [q \in Requests |-> Saw(q)]' = [q \in Requests |-> Saw(q)]
        /\ [q \in Requests |-> Got(q)]' = [q \in Requests |-> Got(q)]
    BY <1>1, <1>2, UnmovedMap
  <2>3. {q \in Requests : Existed(q)}' = {q \in Requests : Existed(q)}
    BY <1>1, <1>2, UnmovedMap
  <2> QED
    BY <2>1, <2>2, <2>3
<1>4. Answer(r)' = {u \in Users : u # actor[r] /\ <<conv[r], u>> \in participants}
  BY <1>1 DEF Answer
<1>5. CASE conv[r] \in Convs
  <2>1. Answer(r)' = [c \in Convs |-> MembersOf(c)][Got(r)] \ {Asker(r)} /\ Got(r) # NoConv
    BY <1>1, <1>4, <1>5, SentinelsAssumption DEF MembersOf, Got, Asker, Asking
  <2>2. [q \in Requests |-> Answer(q)]' = [[q \in Requests |-> Answer(q)] EXCEPT ![r] =
          [c \in Convs |-> MembersOf(c)][Got(r)] \ {Asker(r)}]
    BY <1>1, <2>1, OthersMap
  <2>3. [q \in Requests |-> Got(q)][r] = Got(r) /\ [q \in Requests |-> Asker(q)][r] = Asker(r)
    OBVIOUS
  <2>4. /\ [q \in Requests |-> Got(q)][r] # NoConv
        /\ [q \in Requests |-> Answer(q)]' = [[q \in Requests |-> Answer(q)] EXCEPT ![r] =
             [c \in Convs |-> MembersOf(c)][[q \in Requests |-> Got(q)][r]]
               \ {[q \in Requests |-> Asker(q)][r]}]
    BY <2>1, <2>2, <2>3
  <2>5. [c \in Convs |-> MembersOf(c)]' = [c \in Convs |-> MembersOf(c)]
    BY <1>1 DEF MembersOf
  <2>6. Promise!Tell(r)
    BY <1>1, <1>3, <2>4, <2>5, Zenon
       DEF Promise!Tell, Asker, Partner, Saw, Got, Answer, Existed, MembersOf
  <2> QED
    BY <2>6 DEF Promise!Next
<1>6. CASE conv[r] = NoConv
  <2>1. Answer(r)' = Answer(r)
    BY <1>1, <1>4, <1>6, SentinelsAssumption DEF Answer, IInv, TypeOK
  <2> QED
    BY <1>1, <1>2, <2>1, SameMaps
<1> QED
  BY <1>5, <1>6 DEF IInv, TypeOK

\* A deletion that comes through has found every row of its user, and none of
\* them locked by a request that answers with it.
LEMMA DeleteUserMaps ==
  ASSUME IInv, WhoAsks, DeletesOwn, NEW r \in Requests, DeleteUser(r)
  PROVE  Promise!Next \/ UNCHANGED Promise!vars
<1>1. /\ pc[r] = "deleteUser" /\ OthersStay(r)
      /\ UNCHANGED <<actor, other, conv, seen, answer>>
  BY OneSteps DEF Moves, DeleteUser, Step
<1>2. CASE pc'[r] = "failed" /\ UNCHANGED <<users, conversations, participants>>
  BY <1>1, <1>2, LeaveMaps
<1>3. CASE /\ RowsOf(actor[r]) \subseteq held[r]
           /\ users' = users \ {actor[r]} /\ participants' = participants \ held[r]
           /\ pc'[r] = "deleted" /\ conversations' = conversations
  <2>1. CASE actor[r] \notin Users
    <3>1. \A p \in participants : p[2] \in Users
      BY DEF IInv, TypeOK
    <3>2. \A p \in held[r] : p[2] = actor[r]
      BY <1>1 DEF DeletesOwn
    <3>3. participants' = participants /\ users' = users
      BY <1>3, <2>1, <3>1, <3>2 DEF IInv, TypeOK
    <3> QED
      BY <1>1, <1>3, <3>3, LeaveMaps
  <2>2. ASSUME NEW u \in Users, u = actor[r]
        PROVE  Promise!Next
    <3>1. \A p \in participants : p \in held[r] <=> p[2] = u
      BY <1>1, <1>3, <2>2 DEF DeletesOwn, RowsOf
    <3>2. \A c \in Convs : MembersOf(c)' = MembersOf(c) \ {u}
      BY <1>3, <3>1 DEF MembersOf
    <3>3. [c \in Convs |-> MembersOf(c)]'
            = [c \in Convs |-> [d \in Convs |-> MembersOf(d)][c] \ {u}]
      BY <3>2
    <3>4. \A q \in Requests : Existed(q) => Partner(q) # u
      <4> SUFFICES ASSUME NEW q \in Requests, Existed(q), other[q] = u
                   PROVE  FALSE
        BY DEF Existed, Partner, Asking
      <4>1. <<conv[q], u>> \in participants
        BY DEF IInv, FoundHasPartner, Existed
      <4>2. <<conv[q], u>> \in held[r] /\ <<conv[q], u>> \in held[q] /\ q # r
        BY <1>1, <3>1, <4>1 DEF IInv, HoldsSeen, Existed
      <4> QED
        BY <4>2 DEF IInv, LocksExclude
    <3>5. \A q \in {q \in Requests : Existed(q)} : [s \in Requests |-> Partner(s)][q] # u
      BY <3>4
    <3>6. /\ Asker(r)' = Asker(r) /\ Partner(r)' = Partner(r) /\ Saw(r)' = Saw(r)
          /\ Got(r)' = Got(r) /\ Answer(r)' = Answer(r) /\ (Existed(r)' <=> Existed(r))
      BY <1>1, <1>3 DEF Asker, Partner, Saw, Got, Answer, Existed, Asking
    <3>7. /\ [q \in Requests |-> Asker(q)]' = [q \in Requests |-> Asker(q)]
          /\ [q \in Requests |-> Partner(q)]' = [q \in Requests |-> Partner(q)]
      BY <1>1, <3>6, UnmovedMap
    <3>8. /\ [q \in Requests |-> Saw(q)]' = [q \in Requests |-> Saw(q)]
          /\ [q \in Requests |-> Got(q)]' = [q \in Requests |-> Got(q)]
      BY <1>1, <3>6, UnmovedMap
    <3>9. /\ [q \in Requests |-> Answer(q)]' = [q \in Requests |-> Answer(q)]
          /\ {q \in Requests : Existed(q)}' = {q \in Requests : Existed(q)}
      BY <1>1, <3>6, UnmovedMap
    <3>10. Promise!Close(u)
      BY <1>3, <2>2, <3>3, <3>5, <3>7, <3>8, <3>9
         DEF Promise!Close, Asker, Partner, Saw, Got, Answer, Existed, MembersOf
    <3> QED
      BY <3>10 DEF Promise!Next
  <2> QED
    BY <2>1, <2>2
<1> QED
  BY <1>1, <1>2, <1>3, NothingWanted DEF DeleteUser, Goto, IInv, TypeOK

\* Locks do not show, and the promise does not tell a flush from the insert.
LEMMA HiddenMaps ==
  ASSUME IInv, NEW r \in Requests, LockRow(r) \/ Flush(r)
  PROVE  Promise!Next \/ UNCHANGED Promise!vars
<1>1. /\ OthersStay(r) /\ UNCHANGED <<users, conversations, participants>>
      /\ actor'[r] = actor[r] /\ other'[r] = other[r] /\ seen'[r] = seen[r]
  BY OneSteps DEF Moves, Step, LockRow, Flush, tables, locals
<1>2. CASE pc'[r] = "failed"
  BY <1>1, <1>2, LeaveMaps
<1>3. CASE pc'[r] = pc[r] /\ pc[r] \in {"existing", "deleteParticipants"}
  <2>1. /\ Asker(r)' = Asker(r) /\ Partner(r)' = Partner(r) /\ Saw(r)' = Saw(r)
        /\ Got(r)' = Got(r) /\ Answer(r)' = Answer(r) /\ (Existed(r)' <=> Existed(r))
    BY <1>1, <1>3 DEF Asker, Partner, Saw, Got, Answer, Existed, Asking
  <2> QED
    BY <1>1, <2>1, SameMaps
<1>4. CASE pc[r] = "insert" /\ pc'[r] = "commit"
  <2>1. /\ Asker(r)' = Asker(r) /\ Partner(r)' = Partner(r) /\ Saw(r)' = Saw(r)
        /\ Got(r)' = Got(r) /\ Answer(r)' = Answer(r) /\ (Existed(r)' <=> Existed(r))
    BY <1>1, <1>4 DEF Asker, Partner, Saw, Got, Answer, Existed, Asking
  <2> QED
    BY <1>1, <2>1, SameMaps
<1> QED
  BY <1>2, <1>3, <1>4 DEF LockRow, Flush, Goto, IInv, TypeOK

\* Conversations implements Directory: each step of a request is one of the
\* promise, or does not show.
THEOREM Refinement == Spec => ImplementsDirectory
<1>1. Init => Promise!Init
  <2> SUFFICES ASSUME Init
               PROVE  Promise!Init
    OBVIOUS
  <2>1. /\ \A r \in Requests : /\ Asker(r) = NoUser /\ Partner(r) = NoUser /\ Saw(r) = {}
                               /\ Got(r) = NoConv /\ Answer(r) = {} /\ ~ Existed(r)
        /\ \A c \in Convs : MembersOf(c) = {}
    BY DEF Init, Asker, Partner, Saw, Got, Answer, Existed, MembersOf, Asking
  <2> QED
    BY <2>1 DEF Init, Promise!Init, Asker, Partner, Saw, Got, Answer, Existed, MembersOf
<1>2. Init => WhoAsks /\ NothingLeft /\ DeletesOwn
  BY DEF Init, WhoAsks, NothingLeft, DeletesOwn, Asking
<1>3. IInv /\ IInv' /\ [Next]_vars /\ (WhoAsks /\ NothingLeft /\ DeletesOwn)
        => (WhoAsks /\ NothingLeft /\ DeletesOwn)'
  BY RequestsStay
<1>4. IInv /\ (WhoAsks /\ NothingLeft /\ DeletesOwn) /\ [Next]_vars
        => [Promise!Next]_(Promise!vars)
  <2>1. ASSUME UNCHANGED vars
        PROVE  UNCHANGED Promise!vars
    BY <2>1 DEF vars, tables, locals, Promise!vars, Asking
  <2>2. ASSUME IInv, NEW r \in Requests, NEW u \in Users, BeginDelete(r, u)
        PROVE  Promise!Next
    BY <2>2, OneSteps, LeaveMaps DEF Moves, BeginDelete, Goto, tables, IInv, TypeOK
  <2>3. ASSUME IInv, NEW r \in Requests, DeleteParticipants(r) \/ LockUser(r)
        PROVE  Promise!Next
    BY <2>3, OneSteps, LeaveMaps DEF Moves, DeleteParticipants, LockUser, Step, Goto, tables,
      IInv, TypeOK
  <2>4. ASSUME IInv, NEW r \in Requests, Finish(r) \/ Crash(r)
        PROVE  Promise!Next
    BY <2>4, OneSteps, LeaveMaps DEF Moves, Finish, Crash, Reset, Step, Goto, tables, IInv, TypeOK
  <2>5. ASSUME IInv, NEW r \in Requests, Aborts(r), pc[r] # "idle"
        PROVE  Promise!Next
    BY <2>5, OneSteps, LeaveMaps DEF Moves, Aborts, Goto, tables, IInv, TypeOK
  <2>6. ASSUME Next
        PROVE  \E r \in Requests : Moves(r)
    BY <2>6, NextMoves
  <2> QED
    BY <2>5, <2>6, HiddenMaps, <2>1, <2>2, <2>3, <2>4, BeginCreateMaps, FindExistingMaps, InsertConversationMaps,
       BuildResponseMaps, DeleteUserMaps DEF Moves, Step
<1> QED
  BY <1>1, <1>2, <1>3, <1>4, Invariance, PTL DEF Spec, ImplementsDirectory, Promise!Spec

=============================================================================
