-------------------------- MODULE MessagingProofs --------------------------
(***************************************************************************)
(* Safety of messaging, proved for any numbers of users, conversations,    *)
(* messages, keys and requests.                                            *)
(***************************************************************************)
EXTENDS Messaging, TLAPS

\* A message has an author who has an account and is a member, though the
\* check of membership and the insert are apart and accounts are deleted.
AuthorsStayMembers ==
  \A m \in messages : IsParticipant(m.sender, m.conv)

\* A text comes to a conversation from the author who typed it there, or from
\* another message that the forwarder may and can read.
ForwardsWereReadable ==
  \A m \in messages : m.text # m.id =>
    \E n \in messages :
      n # m /\ HasKey(n) /\ n.text = m.text /\ IsParticipant(m.sender, n.conv)

\* Two conversations never have the same key.
KeysDiffer ==
  \A c, d \in Convs : c # d /\ keyOf[c] = keyOf[d] => keyOf[c] = NoKey

\* A request has no key, and has answered nothing, before it has fetched one.
NothingYet ==
  \A r \in Requests :
    pc[r] \in {"idle", "member", "key", "insertKey", "delete"} =>
      key[r] = NoKey /\ shown[r] = {} /\ quoted[r] = {}

\* Where a request that handles messages stands, and what it carries there.
Progress ==
  \A r \in Requests :
    /\ pc[r] \in {"member", "key", "insertKey", "reply", "commit", "rows", "preview"} =>
         kind[r] \in {"send", "forward", "read", "list"} /\ conv[r] \in Convs
    /\ pc[r] \in {"reply", "commit", "rows", "preview"} => key[r] # NoKey
    /\ pc[r] = "member" => kind[r] # "list"
    /\ pc[r] \in {"key", "insertKey", "reply", "commit"} =>
         /\ actor[r] \in Users \cap Members[conv[r]]
         /\ kind[r] = "forward" =>
              \E n \in messages :
                HasKey(n) /\ n.text = text[r] /\ actor[r] \in Members[n.conv]
    /\ pc[r] = "commit" /\ kind[r] = "send" /\ ref[r] # NoMsg =>
         \E n \in messages : n.id = ref[r]

\* A key in use is that of the conversation, or new and not committed; then
\* the conversation has none yet.
KeysInUse ==
  \A r \in Requests :
    /\ inserted[r] => key[r] # NoKey
    /\ key[r] # NoKey =>
         /\ conv[r] \in Convs
         /\ Unwraps(key[r])
         /\ ~ inserted[r] => keyOf[conv[r]] = key[r]
         /\ inserted[r] => keyOf[conv[r]] = NoKey /\ \A c \in Convs : keyOf[c] # key[r]

\* The unique index: one uncommitted key for a conversation at a time, and
\* generated keys differ.
InsertsExclude ==
  \A r, q \in Requests :
    r # q /\ inserted[r] /\ inserted[q] => conv[r] # conv[q] /\ key[r] # key[q]

IInv ==
  /\ TypeOK
  /\ KeysDiffer
  /\ NothingYet
  /\ Progress
  /\ KeysInUse
  /\ InsertsExclude
  /\ EveryMessageReadable
  /\ ReadersSeePlaintext
  /\ PreviewTextsStayInConversation
  /\ AuthorsStayMembers
  /\ ForwardsWereReadable

\* The parts of a row, old or new.
LEMMA RowParts ==
  ASSUME NEW m \in Row
  PROVE  /\ m.id \in Msgs /\ m.conv \in Convs /\ m.sender \in Users
         /\ m.text \in Msgs /\ m.key \in Keys \cup {NoKey}
         /\ m.replyTo \in Msgs \cup {NoMsg}
  BY OldMsgsAssumption, KeysAssumption DEF Row, OldRow, NewRow

\* What the key of a request makes of a message of its conversation: the text,
\* if a key for it is stored and can be unwrapped; a key that is not committed
\* opens nothing.
LEMMA KeyOpens ==
  ASSUME IInv, NEW r \in Requests, key[r] # NoKey, NEW m \in In(conv[r])
  PROVE  Decrypt(m, key[r]) = Body(m)
<1>1. m \in messages /\ m.conv = conv[r]
  BY DEF In
<1>2. m.key # NoKey => keyOf[conv[r]] = m.key
  BY <1>1 DEF IInv, EveryMessageReadable
<1>3. conv[r] \in Convs /\ Unwraps(key[r])
  BY DEF IInv, KeysInUse
<1>4. CASE inserted[r]
  <2>1. keyOf[conv[r]] = NoKey
    BY <1>4 DEF IInv, KeysInUse
  <2> QED
    BY <1>2, <2>1 DEF Decrypt, Body, HasKey
<1>5. CASE ~ inserted[r]
  <2>1. keyOf[conv[r]] = key[r]
    BY <1>5 DEF IInv, KeysInUse
  <2> QED
    BY <1>2, <1>3, <2>1 DEF Decrypt, Body, HasKey
<1> QED
  BY <1>4, <1>5

\* A preview has the text of a message only if that is of the conversation.
LEMMA PreviewStays ==
  ASSUME IInv, NEW r \in Requests, key[r] # NoKey, NEW m \in messages
  PROVE  Decrypt(m, key[r]) = Encrypted
           \/ (m.conv = conv[r] /\ Decrypt(m, key[r]) = m.text)
<1>1. CASE m.key # key[r]
  BY <1>1 DEF Decrypt
<1>2. CASE m.key = key[r]
  <2>1. m.conv \in Convs /\ keyOf[m.conv] = key[r]
    BY <1>2, RowParts DEF IInv, TypeOK, EveryMessageReadable
  <2>2. ~ inserted[r] /\ conv[r] \in Convs /\ keyOf[conv[r]] = key[r]
    BY <2>1 DEF IInv, KeysInUse
  <2>3. m.conv = conv[r]
    BY <2>1, <2>2 DEF IInv, KeysDiffer
  <2> QED
    BY <1>2, <2>3 DEF Decrypt
<1> QED
  BY <1>1, <1>2

\* What comes after the key depends on the kind of request.
LEMMA AfterKeyValue ==
  ASSUME NEW r \in Requests
  PROVE  /\ AfterKey(r) \in {"rows", "preview", "reply", "commit", "failed"}
         /\ AfterKey(r) = "rows" => kind[r] = "read"
         /\ AfterKey(r) = "commit" /\ kind[r] = "send" => ref[r] = NoMsg
  BY DEF AfterKey

\* A request that fails changes nothing but where it stands.
LEMMA FailKeeps ==
  ASSUME IInv, NEW r \in Requests, Fail(r)
  PROVE  IInv'
<1>1. TypeOK'
  BY DEF IInv, TypeOK, Fail, Goto, PCs, tables, locals
<1>2. KeysDiffer' /\ EveryMessageReadable' /\ AuthorsStayMembers' /\ ForwardsWereReadable'
  BY DEF IInv, KeysDiffer, EveryMessageReadable, AuthorsStayMembers,
    ForwardsWereReadable, IsParticipant, tables, Fail
<1>3. NothingYet'
  BY DEF IInv, TypeOK, NothingYet, Fail, Goto, tables, locals
<1>4. Progress'
  BY DEF IInv, TypeOK, Progress, Fail, Goto, tables, locals
<1>5. KeysInUse'
  BY DEF IInv, TypeOK, KeysInUse, Fail, Goto, tables, locals
<1>6. InsertsExclude'
  BY DEF IInv, TypeOK, InsertsExclude, Fail, Goto, tables, locals
<1>7. ReadersSeePlaintext'
  BY DEF IInv, TypeOK, ReadersSeePlaintext, Fail, Goto, tables, locals
<1>8. PreviewTextsStayInConversation'
  BY DEF IInv, TypeOK, PreviewTextsStayInConversation, Fail, Goto, tables, locals, In
<1> QED
  BY <1>1, <1>2, <1>3, <1>4, <1>5, <1>6, <1>7, <1>8 DEF IInv

\* A request starts with nothing fetched.
LEMMA BeginKeeps ==
  ASSUME IInv, NEW r \in Requests, NEW k \in {"send", "forward", "read", "list", "delete"},
         NEW u \in Users, NEW c \in Convs \cup {NoConv}, NEW m \in Msgs \cup {NoMsg},
         k # "delete" => c \in Convs,
         k = "list" => IsParticipant(u, c),
         Begin(r, k, u, c, m)
  PROVE  IInv'
<1>1. TypeOK'
  BY DEF IInv, TypeOK, Begin, Goto, PCs, tables
<1>2. KeysDiffer' /\ EveryMessageReadable' /\ AuthorsStayMembers' /\ ForwardsWereReadable'
  BY DEF IInv, KeysDiffer, EveryMessageReadable, AuthorsStayMembers,
    ForwardsWereReadable, IsParticipant, tables, Begin
<1>3. NothingYet'
  BY DEF IInv, TypeOK, NothingYet, Begin, Goto, tables
<1>4. Progress'
  BY DEF IInv, TypeOK, Progress, Begin, Goto, tables, IsParticipant
<1>5. KeysInUse'
  BY DEF IInv, TypeOK, KeysInUse, Begin, Goto, tables, NothingYet
<1>6. InsertsExclude'
  BY DEF IInv, TypeOK, InsertsExclude, Begin, Goto, tables, NothingYet, KeysInUse
<1>7. ReadersSeePlaintext'
  BY DEF IInv, TypeOK, ReadersSeePlaintext, Begin, Goto, tables
<1>8. PreviewTextsStayInConversation'
  BY DEF IInv, TypeOK, PreviewTextsStayInConversation, Begin, Goto, tables,
    NothingYet, In
<1> QED
  BY <1>1, <1>2, <1>3, <1>4, <1>5, <1>6, <1>7, <1>8 DEF IInv

\* The check of membership, and the decryption of what is forwarded.
LEMMA CheckMembershipKeeps ==
  ASSUME IInv, NEW r \in Requests, CheckMembership(r)
  PROVE  IInv'
<1>0. CASE Fail(r)
  BY <1>0, FailKeeps
<1> SUFFICES ASSUME ~ Fail(r)
             PROVE  IInv'
  BY <1>0
<1>1. TypeOK'
  BY RowParts DEF IInv, TypeOK, CheckMembership, Goto, PCs, tables, locals
<1>2. KeysDiffer' /\ EveryMessageReadable' /\ AuthorsStayMembers' /\ ForwardsWereReadable'
  BY DEF IInv, KeysDiffer, EveryMessageReadable, AuthorsStayMembers,
    ForwardsWereReadable, IsParticipant, tables, CheckMembership
<1>3. NothingYet'
  BY DEF IInv, TypeOK, NothingYet, CheckMembership, Goto, tables, locals
<1>4. Progress'
  BY DEF IInv, TypeOK, Progress, CheckMembership, Goto, tables, locals, CanTake,
    IsParticipant
<1>5. KeysInUse'
  BY DEF IInv, TypeOK, KeysInUse, CheckMembership, Goto, tables, locals
<1>6. InsertsExclude'
  BY DEF IInv, TypeOK, InsertsExclude, CheckMembership, Goto, tables, locals
<1>7. ReadersSeePlaintext'
  BY DEF IInv, TypeOK, ReadersSeePlaintext, CheckMembership, Goto, tables, locals
<1>8. PreviewTextsStayInConversation'
  BY DEF IInv, TypeOK, PreviewTextsStayInConversation, CheckMembership, Goto, tables,
    locals, In
<1> QED
  BY <1>1, <1>2, <1>3, <1>4, <1>5, <1>6, <1>7, <1>8 DEF IInv

\* The key fetched is that of the conversation.  Under one that nothing unwraps
\* a list answers the placeholder, and has no other message to answer it for.
LEMMA FetchKeyKeeps ==
  ASSUME IInv, NEW r \in Requests, FetchKey(r)
  PROVE  IInv'
<1>1. CASE keyOf[conv[r]] # NoKey /\ ~ Unwraps(keyOf[conv[r]]) /\ kind[r] # "list"
  <2>1. Fail(r)
    BY <1>1 DEF Fail, FetchKey, RejectKey, tables, locals
  <2> QED
    BY <2>1, FailKeeps
<1>4. CASE keyOf[conv[r]] # NoKey /\ ~ Unwraps(keyOf[conv[r]]) /\ kind[r] = "list"
  <2> DEFINE last == {n \in In(conv[r]) : n.id = ref[r]}
  <2>0. /\ Goto(r, "done")
        /\ shown' = [shown EXCEPT ![r] = {Item(m, Encrypted) : m \in last}]
        /\ UNCHANGED <<tables, kind, actor, conv, ref, key, inserted, text, quoted>>
    BY <1>4 DEF FetchKey, RejectKey
  <2>1. \A m \in last :
          m \in messages /\ Item(m, Encrypted) = Item(m, Body(m))
            /\ Item(m, Encrypted) \in [id : Msgs, body : Msgs \cup {Encrypted}]
    <3> SUFFICES ASSUME NEW m \in last
                 PROVE  m \in messages /\ Body(m) = Encrypted /\ m.id \in Msgs
      BY DEF Item
    <3>1. m \in messages /\ m.conv = conv[r]
      BY DEF In
    <3>2. m.key # NoKey => keyOf[conv[r]] = m.key
      BY <3>1 DEF IInv, EveryMessageReadable
    <3> QED
      BY <1>4, <3>1, <3>2, RowParts DEF Body, HasKey, IInv, TypeOK
  <2> HIDE DEF last
  <2>2. TypeOK'
    BY <2>0, <2>1 DEF IInv, TypeOK, Goto, PCs, tables
  <2>3. KeysDiffer' /\ EveryMessageReadable' /\ AuthorsStayMembers' /\ ForwardsWereReadable'
    BY <2>0 DEF IInv, KeysDiffer, EveryMessageReadable, AuthorsStayMembers,
      ForwardsWereReadable, IsParticipant, tables
  <2>4. NothingYet'
    BY <2>0 DEF IInv, TypeOK, NothingYet, Goto, tables
  <2>5. Progress'
    BY <2>0 DEF IInv, TypeOK, Progress, Goto, tables
  <2>6. KeysInUse' /\ InsertsExclude'
    BY <2>0 DEF IInv, KeysInUse, InsertsExclude, tables
  <2>7. ReadersSeePlaintext'
    BY <2>0, <2>1 DEF IInv, TypeOK, ReadersSeePlaintext, tables
  <2>8. PreviewTextsStayInConversation'
    BY <2>0 DEF IInv, PreviewTextsStayInConversation, tables
  <2> QED
    BY <2>2, <2>3, <2>4, <2>5, <2>6, <2>7, <2>8 DEF IInv
<1>2. CASE keyOf[conv[r]] # NoKey /\ Unwraps(keyOf[conv[r]])
  <2> DEFINE k == keyOf[conv[r]]
  <2>0. pc[r] = "key" /\ conv[r] \in Convs /\ k \in Keys /\ k # NoKey
    BY <1>2, SentinelsAssumption DEF IInv, TypeOK, Progress, FetchKey
  <2>00. /\ key' = [key EXCEPT ![r] = k]
         /\ Goto(r, AfterKey(r))
         /\ UNCHANGED <<tables, kind, actor, conv, ref, inserted, text, shown, quoted>>
    BY <1>2 DEF FetchKey
  <2>1. TypeOK'
    BY <2>0, <2>00, AfterKeyValue DEF IInv, TypeOK, Goto, PCs, tables
  <2>2. KeysDiffer' /\ EveryMessageReadable' /\ AuthorsStayMembers' /\ ForwardsWereReadable'
    BY <2>00 DEF IInv, KeysDiffer, EveryMessageReadable, AuthorsStayMembers,
      ForwardsWereReadable, IsParticipant, tables
  <2>3. NothingYet'
    BY <2>00, <2>0, AfterKeyValue DEF IInv, TypeOK, NothingYet, Goto, tables
  <2>4. Progress'
    BY <2>00, <2>0, AfterKeyValue DEF IInv, TypeOK, Progress, Goto, tables
  <2>5. KeysInUse'
    BY <1>2, <2>00, <2>0 DEF IInv, TypeOK, KeysInUse, tables, NothingYet
  <2>6. InsertsExclude'
    BY <2>00, <2>0 DEF IInv, TypeOK, InsertsExclude, tables, NothingYet, KeysInUse
  <2>7. ReadersSeePlaintext' /\ PreviewTextsStayInConversation'
    BY <2>00 DEF IInv, ReadersSeePlaintext, PreviewTextsStayInConversation, tables, In
  <2> QED
    BY <2>1, <2>2, <2>3, <2>4, <2>5, <2>6, <2>7 DEF IInv
<1>3. CASE keyOf[conv[r]] = NoKey
  <2>0. /\ pc[r] = "key"
        /\ Goto(r, "insertKey")
        /\ UNCHANGED <<tables, locals>>
    BY <1>3 DEF FetchKey, locals
  <2>1. TypeOK'
    BY <2>0 DEF IInv, TypeOK, Goto, PCs, tables, locals
  <2>2. KeysDiffer' /\ EveryMessageReadable' /\ AuthorsStayMembers' /\ ForwardsWereReadable'
    BY <2>0 DEF IInv, KeysDiffer, EveryMessageReadable, AuthorsStayMembers,
      ForwardsWereReadable, IsParticipant, tables
  <2>3. NothingYet'
    BY <2>0 DEF IInv, TypeOK, NothingYet, Goto, locals
  <2>4. Progress'
    BY <2>0 DEF IInv, TypeOK, Progress, Goto, tables, locals
  <2>5. KeysInUse' /\ InsertsExclude'
    BY <2>0 DEF IInv, KeysInUse, InsertsExclude, tables, locals
  <2>6. ReadersSeePlaintext' /\ PreviewTextsStayInConversation'
    BY <2>0 DEF IInv, ReadersSeePlaintext, PreviewTextsStayInConversation, tables,
      locals, In
  <2> QED
    BY <2>1, <2>2, <2>3, <2>4, <2>5, <2>6 DEF IInv
<1> QED
  BY <1>1, <1>2, <1>3, <1>4

\* A new key is inserted only for a conversation that has none, committed or not.
LEMMA InsertKeyKeeps ==
  ASSUME IInv, NEW r \in Requests, InsertKey(r)
  PROVE  IInv'
<1>0. CASE Fail(r)
  BY <1>0, FailKeeps
<1> SUFFICES ASSUME ~ Fail(r)
             PROVE  IInv'
  BY <1>0
<1>1. TypeOK'
  <2> PICK k \in FreshKeys :
         /\ key' = [key EXCEPT ![r] = k]
         /\ inserted' = [inserted EXCEPT ![r] = TRUE]
         /\ Goto(r, AfterKey(r))
         /\ UNCHANGED <<tables, kind, actor, conv, ref, text, shown, quoted>>
    BY DEF InsertKey
  <2>1. k \in Keys
    BY DEF FreshKeys
  <2>2. pc' \in [Requests -> PCs]
    BY AfterKeyValue DEF IInv, TypeOK, Goto, PCs
  <2> QED
    BY <2>1, <2>2 DEF IInv, TypeOK, tables
<1>2. KeysDiffer' /\ EveryMessageReadable' /\ AuthorsStayMembers' /\ ForwardsWereReadable'
  BY DEF IInv, KeysDiffer, EveryMessageReadable, AuthorsStayMembers,
    ForwardsWereReadable, IsParticipant, tables, InsertKey, AfterKey
<1>3. NothingYet'
  BY DEF IInv, TypeOK, NothingYet, InsertKey, AfterKey, Goto, tables
<1>4. Progress'
  <2> PICK k \in FreshKeys :
         /\ key' = [key EXCEPT ![r] = k]
         /\ Goto(r, AfterKey(r))
         /\ UNCHANGED <<tables, kind, actor, conv, ref, text>>
    BY DEF InsertKey
  <2>1. k # NoKey
    BY SentinelsAssumption DEF FreshKeys
  <2>2. pc[r] = "insertKey"
    BY DEF InsertKey
  <2> QED
    BY <2>1, <2>2, AfterKeyValue DEF IInv, TypeOK, Progress, Goto, tables
<1>5. KeysInUse'
  <2> PICK k \in FreshKeys :
         /\ key' = [key EXCEPT ![r] = k]
         /\ inserted' = [inserted EXCEPT ![r] = TRUE]
         /\ UNCHANGED <<tables, conv>>
    BY DEF InsertKey
  <2>1. k \in Keys /\ Unwraps(k) /\ \A c \in Convs : keyOf[c] # k
    BY DEF FreshKeys, Unwraps, Masters
  <2>2. pc[r] = "insertKey" /\ keyOf[conv[r]] = NoKey /\ conv[r] \in Convs
    BY DEF IInv, Progress, InsertKey
  <2> QED
    BY <2>1, <2>2, SentinelsAssumption DEF IInv, TypeOK, KeysInUse, tables
<1>6. InsertsExclude'
  BY DEF IInv, TypeOK, InsertsExclude, InsertKey, AfterKey, Goto, tables,
    FreshKeys, InsertPending, NothingYet, KeysInUse
<1>7. ReadersSeePlaintext'
  BY DEF IInv, TypeOK, ReadersSeePlaintext, InsertKey, AfterKey, Goto, tables
<1>8. PreviewTextsStayInConversation'
  BY DEF IInv, TypeOK, PreviewTextsStayInConversation, InsertKey, AfterKey, Goto,
    tables, In
<1> QED
  BY <1>1, <1>2, <1>3, <1>4, <1>5, <1>6, <1>7, <1>8 DEF IInv

\* A preview of a reply is what the key at hand opens.
LEMMA LookUpReplyKeeps ==
  ASSUME IInv, NEW r \in Requests, LookUpReply(r)
  PROVE  IInv'
<1>1. TypeOK'
  <2>1. \A m \in messages :
          Item(m, Decrypt(m, key[r])) \in [id : Msgs, body : Msgs \cup {Encrypted}]
    BY RowParts DEF IInv, TypeOK, Decrypt, Item
  <2> QED
    BY <2>1 DEF IInv, TypeOK, LookUpReply, Goto, PCs, tables
<1>2. KeysDiffer' /\ EveryMessageReadable' /\ AuthorsStayMembers' /\ ForwardsWereReadable'
  BY DEF IInv, KeysDiffer, EveryMessageReadable, AuthorsStayMembers,
    ForwardsWereReadable, IsParticipant, tables, LookUpReply
<1>3. NothingYet'
  BY DEF IInv, TypeOK, NothingYet, LookUpReply, Goto, tables
<1>4. Progress'
  BY DEF IInv, TypeOK, Progress, LookUpReply, Goto, tables
<1>5. KeysInUse'
  BY DEF IInv, TypeOK, KeysInUse, LookUpReply, Goto, tables
<1>6. InsertsExclude'
  BY DEF IInv, TypeOK, InsertsExclude, LookUpReply, Goto, tables
<1>7. ReadersSeePlaintext'
  BY DEF IInv, TypeOK, ReadersSeePlaintext, LookUpReply, Goto, tables
<1>8. PreviewTextsStayInConversation'
  <2>1. key[r] # NoKey
    BY DEF IInv, Progress, LookUpReply
  <2>2. \A m \in messages :
          Decrypt(m, key[r]) = Encrypted
            \/ (m.conv = conv[r] /\ Decrypt(m, key[r]) = m.text)
    BY <2>1, PreviewStays
  <2>3. /\ UNCHANGED <<messages, conv>>
        /\ quoted' = [quoted EXCEPT ![r] =
             {Item(m, Decrypt(m, key[r])) : m \in {n \in messages : n.id = ref[r]}}]
    BY DEF LookUpReply, tables
  <2> QED
    BY <2>2, <2>3 DEF IInv, TypeOK, PreviewTextsStayInConversation, Item
<1> QED
  BY <1>1, <1>2, <1>3, <1>4, <1>5, <1>6, <1>7, <1>8 DEF IInv

\* The commit of a message: it is encrypted with the key its conversation now has.
LEMMA InsertKeeps ==
  ASSUME IInv, NEW r \in Requests, NEW i \in Msgs \ OldMsgs, NEW said, NEW replyTo \in Msgs \cup {NoMsg},
         pc[r] = "commit", actor[r] \in users,
         said = i \/ (said = text[r] /\ kind[r] = "forward"),
         Insert(r, i, said, replyTo)
  PROVE  IInv'
<1> DEFINE m0 == [id |-> i, conv |-> conv[r], sender |-> actor[r], text |-> said,
                  key |-> key[r], replyTo |-> replyTo]
<1>0. /\ key[r] \in Keys /\ conv[r] \in Convs /\ said \in Msgs
      /\ actor[r] \in Users /\ HasKey(m0)
  <2>1. key[r] \in Keys /\ key[r] # NoKey
    BY DEF IInv, TypeOK, Progress
  <2>2. conv[r] \in Convs /\ actor[r] \in Users
    BY DEF IInv, Progress
  <2>3. said \in Msgs
    BY RowParts DEF IInv, TypeOK, Progress
  <2>4. Unwraps(key[r])
    BY <2>1 DEF IInv, KeysInUse
  <2> QED
    BY <2>1, <2>2, <2>3, <2>4 DEF HasKey
<1>00. m0 \in Row
  BY <1>0 DEF Row, NewRow
<1>000. messages' = messages \cup {m0}
  BY DEF Insert
<1>1. TypeOK'
  <2>1. keyOf' \in [Convs -> Keys \cup {NoKey}]
    BY <1>0 DEF IInv, TypeOK, Insert
  <2>2. shown' \in [Requests -> SUBSET [id : Msgs, body : Msgs \cup {Encrypted}]]
    BY <1>0 DEF IInv, TypeOK, Insert
  <2>3. messages' \subseteq Row
    BY <1>00, <1>000 DEF IInv, TypeOK
  <2>4. pc' \in [Requests -> PCs] /\ inserted' \in [Requests -> BOOLEAN]
    BY DEF IInv, TypeOK, Insert, Goto, PCs
  <2>5. UNCHANGED <<users, kind, actor, conv, ref, key, text, quoted>>
    BY DEF Insert
  <2> QED
    BY <2>1, <2>2, <2>3, <2>4, <2>5 DEF IInv, TypeOK
<1>2. KeysDiffer'
  BY DEF IInv, TypeOK, KeysDiffer, Insert, Goto, KeysInUse
<1>3. NothingYet'
  BY DEF IInv, TypeOK, NothingYet, Insert, Goto
<1>4. Progress'
  BY DEF IInv, TypeOK, Progress, Insert, Goto
<1>5. KeysInUse'
  BY DEF IInv, TypeOK, KeysInUse, Insert, Goto, InsertsExclude, Progress
<1>6. InsertsExclude'
  BY DEF IInv, TypeOK, InsertsExclude, Insert, Goto
<1>7. EveryMessageReadable'
  <2>1. key[r] # NoKey /\ conv[r] \in Convs
    BY DEF IInv, Progress
  <2>2. keyOf'[conv[r]] = key[r]
    BY <2>1 DEF IInv, TypeOK, KeysInUse, Insert
  <2>3. \A c \in Convs : keyOf[c] # NoKey => keyOf'[c] = keyOf[c]
    BY <2>1 DEF IInv, TypeOK, KeysInUse, Insert
  <2>4. Unwraps(key[r])
    BY <2>1 DEF IInv, KeysInUse
  <2>5. \A m \in messages : m.conv \in Convs
    BY RowParts DEF IInv, TypeOK
  <2> QED
    BY <1>0, <1>000, <2>2, <2>3, <2>5 DEF IInv, EveryMessageReadable, HasKey
<1>8. ReadersSeePlaintext'
  <2>1. [id |-> i, body |-> said] = Item(m0, Body(m0))
    BY <1>0 DEF Item, Body
  <2>2. shown' = [shown EXCEPT ![r] = {Item(m0, Body(m0))}]
    BY <2>1 DEF Insert
  <2> HIDE DEF m0
  <2> QED
    BY <1>000, <2>2 DEF IInv, TypeOK, ReadersSeePlaintext
<1>9. PreviewTextsStayInConversation'
  BY <1>000 DEF IInv, TypeOK, PreviewTextsStayInConversation, Insert
<1>10. AuthorsStayMembers'
  BY DEF IInv, TypeOK, AuthorsStayMembers, Insert, Goto, Progress, IsParticipant
<1>11. ForwardsWereReadable'
  BY DEF IInv, TypeOK, ForwardsWereReadable, Insert, Goto, Progress,
    IsParticipant, AuthorsStayMembers
<1> QED
  BY <1>1, <1>2, <1>3, <1>4, <1>5, <1>6, <1>7, <1>8, <1>9, <1>10, <1>11 DEF IInv

\* A reader's key opens every row of the conversation.
LEMMA ReadRowsKeeps ==
  ASSUME IInv, NEW r \in Requests, ReadRows(r)
  PROVE  IInv'
<1>0. \A m \in messages :
        Item(m, Decrypt(m, key[r])) \in [id : Msgs, body : Msgs \cup {Encrypted}]
  BY RowParts DEF IInv, TypeOK, Decrypt, Item
<1>1. TypeOK'
  BY <1>0 DEF IInv, TypeOK, ReadRows, Goto, PCs, tables, In
<1>2. KeysDiffer' /\ EveryMessageReadable' /\ AuthorsStayMembers' /\ ForwardsWereReadable'
  BY DEF IInv, KeysDiffer, EveryMessageReadable, AuthorsStayMembers,
    ForwardsWereReadable, IsParticipant, tables, ReadRows
<1>3. NothingYet'
  BY DEF IInv, TypeOK, NothingYet, ReadRows, Goto, tables
<1>4. Progress'
  BY DEF IInv, TypeOK, Progress, ReadRows, Goto, tables
<1>5. KeysInUse'
  BY DEF IInv, TypeOK, KeysInUse, ReadRows, Goto, tables
<1>6. InsertsExclude'
  BY DEF IInv, TypeOK, InsertsExclude, ReadRows, Goto, tables
<1>7. ReadersSeePlaintext'
  <2>1. key[r] # NoKey
    BY DEF IInv, Progress, ReadRows
  <2>2. \A m \in In(conv[r]) :
          m \in messages /\ Item(m, Decrypt(m, key[r])) = Item(m, Body(m))
    BY <2>1, KeyOpens DEF In
  <2>3. shown' = [shown EXCEPT ![r] = {Item(m, Decrypt(m, key[r])) : m \in In(conv[r])}]
    BY DEF ReadRows
  <2>4. UNCHANGED messages
    BY DEF ReadRows, tables
  <2> QED
    BY <2>2, <2>3, <2>4 DEF IInv, TypeOK, ReadersSeePlaintext
<1>8. PreviewTextsStayInConversation'
  <2> DEFINE replied == {m \in messages : \E n \in In(conv[r]) : n.replyTo = m.id}
  <2>1. key[r] # NoKey
    BY DEF IInv, Progress, ReadRows
  <2>2. \A m \in replied :
          m \in messages
            /\ (Decrypt(m, key[r]) = Encrypted
                  \/ (m.conv = conv[r] /\ Decrypt(m, key[r]) = m.text))
    BY <2>1, PreviewStays
  <2>3. /\ UNCHANGED <<messages, conv>>
        /\ quoted' = [quoted EXCEPT ![r] = {Item(m, Decrypt(m, key[r])) : m \in replied}]
    BY DEF ReadRows, tables
  <2> HIDE DEF replied
  <2> QED
    BY <2>2, <2>3 DEF IInv, TypeOK, PreviewTextsStayInConversation, Item
<1> QED
  BY <1>1, <1>2, <1>3, <1>4, <1>5, <1>6, <1>7, <1>8 DEF IInv

\* The key fetched for a list opens the last message of the conversation.
LEMMA ShowPreviewKeeps ==
  ASSUME IInv, NEW r \in Requests, ShowPreview(r)
  PROVE  IInv'
<1>0. \A m \in messages :
        Item(m, Decrypt(m, key[r])) \in [id : Msgs, body : Msgs \cup {Encrypted}]
  BY RowParts DEF IInv, TypeOK, Decrypt, Item
<1>1. TypeOK'
  BY <1>0 DEF IInv, TypeOK, ShowPreview, Goto, PCs, tables, In
<1>2. KeysDiffer' /\ EveryMessageReadable' /\ AuthorsStayMembers' /\ ForwardsWereReadable'
  BY DEF IInv, KeysDiffer, EveryMessageReadable, AuthorsStayMembers,
    ForwardsWereReadable, IsParticipant, tables, ShowPreview
<1>3. NothingYet'
  BY DEF IInv, TypeOK, NothingYet, ShowPreview, Goto, tables
<1>4. Progress'
  BY DEF IInv, TypeOK, Progress, ShowPreview, Goto, tables
<1>5. KeysInUse'
  BY DEF IInv, TypeOK, KeysInUse, ShowPreview, Goto, tables
<1>6. InsertsExclude'
  BY DEF IInv, TypeOK, InsertsExclude, ShowPreview, Goto, tables
<1>7. ReadersSeePlaintext'
  <2>1. key[r] # NoKey
    BY DEF IInv, Progress, ShowPreview
  <2> DEFINE last == {n \in In(conv[r]) : n.id = ref[r]}
  <2>2. \A m \in last :
          m \in messages /\ Item(m, Decrypt(m, key[r])) = Item(m, Body(m))
    BY <2>1, KeyOpens DEF In
  <2>3. shown' = [shown EXCEPT ![r] = {Item(m, Decrypt(m, key[r])) : m \in last}]
    BY DEF ShowPreview
  <2> HIDE DEF last
  <2>4. UNCHANGED messages
    BY DEF ShowPreview, tables
  <2> QED
    BY <2>2, <2>3, <2>4 DEF IInv, TypeOK, ReadersSeePlaintext
<1>8. PreviewTextsStayInConversation'
  BY DEF IInv, TypeOK, PreviewTextsStayInConversation, ShowPreview, Goto, tables, In
<1> QED
  BY <1>1, <1>2, <1>3, <1>4, <1>5, <1>6, <1>7, <1>8 DEF IInv

\* An account is deleted only if it has no message.
LEMMA DeleteAccountKeeps ==
  ASSUME IInv, NEW r \in Requests, DeleteAccount(r)
  PROVE  IInv'
<1>0. CASE Fail(r)
  BY <1>0, FailKeeps
<1> SUFFICES ASSUME ~ Fail(r)
             PROVE  IInv'
  BY <1>0
<1>1. TypeOK'
  BY DEF IInv, TypeOK, DeleteAccount, HasSent, Goto, PCs, tables, locals
<1>2. KeysDiffer'
  BY DEF IInv, TypeOK, KeysDiffer, DeleteAccount, HasSent, Goto, locals
<1>3. NothingYet'
  BY DEF IInv, TypeOK, NothingYet, DeleteAccount, HasSent, Goto, locals
<1>4. Progress'
  BY DEF IInv, TypeOK, Progress, DeleteAccount, HasSent, Goto, locals
<1>5. KeysInUse'
  BY DEF IInv, TypeOK, KeysInUse, DeleteAccount, HasSent, Goto, locals
<1>6. InsertsExclude'
  BY DEF IInv, TypeOK, InsertsExclude, DeleteAccount, HasSent, Goto, locals
<1>7. EveryMessageReadable'
  BY DEF IInv, TypeOK, EveryMessageReadable, DeleteAccount, HasSent, Goto, locals
<1>8. ReadersSeePlaintext'
  BY DEF IInv, TypeOK, ReadersSeePlaintext, DeleteAccount, HasSent, Goto, locals
<1>9. PreviewTextsStayInConversation'
  BY DEF IInv, TypeOK, PreviewTextsStayInConversation, DeleteAccount, HasSent, Goto,
    locals, In
<1>10. AuthorsStayMembers'
  BY DEF IInv, TypeOK, AuthorsStayMembers, DeleteAccount, HasSent, Goto, locals,
    IsParticipant
<1>11. ForwardsWereReadable'
  BY DEF IInv, TypeOK, ForwardsWereReadable, DeleteAccount, HasSent, Goto, locals,
    IsParticipant
<1> QED
  BY <1>1, <1>2, <1>3, <1>4, <1>5, <1>6, <1>7, <1>8, <1>9, <1>10, <1>11 DEF IInv

\* The end of a request, and the crash of its worker.
LEMMA ResetKeeps ==
  ASSUME IInv, NEW r \in Requests, Reset(r)
  PROVE  IInv'
<1>1. TypeOK'
  BY DEF IInv, TypeOK, Reset, Goto, PCs, tables
<1>2. KeysDiffer' /\ EveryMessageReadable' /\ AuthorsStayMembers' /\ ForwardsWereReadable'
  BY DEF IInv, KeysDiffer, EveryMessageReadable, AuthorsStayMembers,
    ForwardsWereReadable, IsParticipant, tables, Reset
<1>3. NothingYet'
  BY DEF IInv, TypeOK, NothingYet, Reset, Goto, tables
<1>4. Progress'
  BY DEF IInv, TypeOK, Progress, Reset, Goto, tables
<1>5. KeysInUse'
  BY DEF IInv, TypeOK, KeysInUse, Reset, Goto, tables
<1>6. InsertsExclude'
  BY DEF IInv, TypeOK, InsertsExclude, Reset, Goto, tables
<1>7. ReadersSeePlaintext'
  BY DEF IInv, TypeOK, ReadersSeePlaintext, Reset, Goto, tables
<1>8. PreviewTextsStayInConversation'
  BY DEF IInv, TypeOK, PreviewTextsStayInConversation, Reset, Goto, tables, In
<1> QED
  BY <1>1, <1>2, <1>3, <1>4, <1>5, <1>6, <1>7, <1>8 DEF IInv

\* The invariant holds in every reachable state.
THEOREM Invariance == Spec => []IInv
<1>1. Init => IInv
  <2> SUFFICES ASSUME Init
               PROVE  IInv
    OBVIOUS
  <2>1. \A m \in messages :
          /\ m \in OldRow /\ m.id \in OldMsgs /\ m.text = m.id
          /\ m.sender \in Users \cap Members[m.conv]
          /\ m.key # NoKey => keyOf[m.conv] = m.key
    BY DEF Init, LeftBehind, OldRow
  <2>2. TypeOK
    BY <2>1, KeysAssumption DEF Init, TypeOK, Row, PCs
  <2>3. KeysDiffer /\ NothingYet /\ Progress
    BY SentinelsAssumption DEF Init, KeysDiffer, NothingYet, Progress
  <2>4. KeysInUse /\ InsertsExclude
    BY DEF Init, KeysInUse, InsertsExclude
  <2>5. EveryMessageReadable /\ AuthorsStayMembers /\ ForwardsWereReadable
    BY <2>1 DEF Init, EveryMessageReadable, AuthorsStayMembers, ForwardsWereReadable,
      IsParticipant
  <2>6. ReadersSeePlaintext /\ PreviewTextsStayInConversation
    BY DEF Init, ReadersSeePlaintext, PreviewTextsStayInConversation
  <2> QED
    BY <2>2, <2>3, <2>4, <2>5, <2>6 DEF IInv
<1>2. IInv /\ [Next]_vars => IInv'
  <2> SUFFICES ASSUME IInv, [Next]_vars
               PROVE  IInv'
    OBVIOUS
  <2>1. CASE UNCHANGED vars
    <3> USE <2>1 DEF IInv, vars, tables, locals
    <3>1. TypeOK' /\ NothingYet' /\ Progress'
      BY DEF TypeOK, NothingYet, Progress
    <3>2. KeysDiffer' /\ KeysInUse' /\ InsertsExclude' /\ EveryMessageReadable'
      BY DEF KeysDiffer, KeysInUse, InsertsExclude, EveryMessageReadable
    <3>3. ReadersSeePlaintext' /\ PreviewTextsStayInConversation'
      BY DEF ReadersSeePlaintext, PreviewTextsStayInConversation, In
    <3>4. AuthorsStayMembers' /\ ForwardsWereReadable'
      BY DEF AuthorsStayMembers, ForwardsWereReadable, IsParticipant
    <3> QED
      BY <3>1, <3>2, <3>3, <3>4
  <2>2. CASE Next
    <3>1. PICK r \in Requests :
            \/ \E u \in Users, c \in Convs :
                 \/ \E m \in Msgs \cup {NoMsg} : BeginSend(r, u, c, m)
                 \/ \E m \in Msgs : BeginForward(r, u, c, m)
                 \/ BeginRead(r, u, c)
                 \/ BeginList(r, u, c)
            \/ \E u \in Users : BeginDelete(r, u)
            \/ Step(r)
            \/ Crash(r)
      BY <2>2 DEF Next
    <3>2. CASE \E u \in Users, c \in Convs :
                 \/ \E m \in Msgs \cup {NoMsg} : BeginSend(r, u, c, m)
                 \/ \E m \in Msgs : BeginForward(r, u, c, m)
                 \/ BeginRead(r, u, c)
                 \/ BeginList(r, u, c)
      <4>1. PICK u \in Users, c \in Convs :
              \/ \E m \in Msgs \cup {NoMsg} : BeginSend(r, u, c, m)
              \/ \E m \in Msgs : BeginForward(r, u, c, m)
              \/ BeginRead(r, u, c)
              \/ BeginList(r, u, c)
        BY <3>2
      <4>2. CASE BeginList(r, u, c)
        <5>1. PICK m \in messages : m.conv = c /\ Begin(r, "list", u, c, m.id)
          BY <4>2 DEF BeginList, In
        <5>2. PICK i \in Msgs : i = m.id
          BY <5>1, RowParts DEF IInv, TypeOK
        <5>3. IsParticipant(u, c)
          BY <4>2 DEF BeginList
        <5> QED
          BY <5>1, <5>2, <5>3, BeginKeeps
      <4> QED
        BY <4>1, <4>2, BeginKeeps DEF BeginSend, BeginForward, BeginRead
    <3>3. CASE \E u \in Users : BeginDelete(r, u)
      BY <3>3, BeginKeeps DEF BeginDelete
    <3>4. CASE Crash(r)
      BY <3>4, ResetKeeps DEF Crash
    <3>5. CASE CommitSend(r)
      <4>1. CASE Fail(r)
        BY <4>1, FailKeeps
      <4>2. CASE AuthorExists(r) /\ \E i \in Msgs \ OldMsgs : Insert(r, i, i, ref[r])
        <5>1. PICK i \in Msgs \ OldMsgs : Insert(r, i, i, ref[r])
          BY <4>2
        <5>2. PICK t \in Msgs \cup {NoMsg} : t = ref[r]
          BY DEF IInv, TypeOK
        <5>3. pc[r] = "commit" /\ actor[r] \in users
          BY <3>5, <4>2 DEF CommitSend, AuthorExists
        <5>4. Insert(r, i, i, t)
          BY <5>1, <5>2
        <5> QED
          BY <5>3, <5>4, InsertKeeps
      <4> QED
        BY <3>5, <4>1, <4>2 DEF CommitSend
    <3>6. CASE CommitForward(r)
      <4>1. CASE Fail(r)
        BY <4>1, FailKeeps
      <4>2. CASE AuthorExists(r) /\ \E i \in Msgs \ OldMsgs : Insert(r, i, text[r], NoMsg)
        <5>1. PICK i \in Msgs \ OldMsgs : Insert(r, i, text[r], NoMsg)
          BY <4>2
        <5>2. PICK said \in Msgs \cup {NoMsg} : said = text[r]
          BY DEF IInv, TypeOK
        <5>3. pc[r] = "commit" /\ actor[r] \in users /\ kind[r] = "forward"
          BY <3>6, <4>2 DEF CommitForward, AuthorExists
        <5>4. Insert(r, i, said, NoMsg)
          BY <5>1, <5>2
        <5> QED
          BY <5>2, <5>3, <5>4, InsertKeeps
      <4> QED
        BY <3>6, <4>1, <4>2 DEF CommitForward
    <3>7. CASE Step(r) /\ ~ CommitSend(r) /\ ~ CommitForward(r)
      BY <3>7, CheckMembershipKeeps, FetchKeyKeeps, InsertKeyKeeps,
        LookUpReplyKeeps,
        ReadRowsKeeps, ShowPreviewKeeps, DeleteAccountKeeps, ResetKeeps DEF Step, Finish
    <3> QED
      BY <3>1, <3>2, <3>3, <3>4, <3>5, <3>6, <3>7
  <2> QED
    BY <2>1, <2>2
<1> QED
  BY <1>1, <1>2, PTL DEF Spec

\* Type correctness, for any numbers of requests, messages and keys.
THEOREM TypeCorrect == Spec => []TypeOK
<1>1. IInv => TypeOK
  BY DEF IInv
<1> QED
  BY <1>1, Invariance, PTL

\* A message that has a key can be decrypted with the one its conversation has,
\* however the creations of keys, their rollbacks and the sends interleave, and
\* every message written since the start has one that can be unwrapped.
THEOREM MessagesStayReadable == Spec => []EveryMessageReadable
<1>1. IInv => EveryMessageReadable
  BY DEF IInv
<1> QED
  BY <1>1, Invariance, PTL

\* get_messages and list_conversations show the placeholder for a message whose
\* key is lost or never was, and the text of every other.
THEOREM PlaceholderOnlyWithoutKey == Spec => []ReadersSeePlaintext
<1>1. IInv => ReadersSeePlaintext
  BY DEF IInv
<1> QED
  BY <1>1, Invariance, PTL

\* No preview of a reply shows the text of another conversation.
THEOREM PreviewTextsNeverLeave == Spec => []PreviewTextsStayInConversation
<1>1. IInv => PreviewTextsStayInConversation
  BY DEF IInv
<1> QED
  BY <1>1, Invariance, PTL

\* Authors have accounts and are members, forever.
THEOREM AuthorsAreMembers == Spec => []AuthorsStayMembers
<1>1. IInv => AuthorsStayMembers
  BY DEF IInv
<1> QED
  BY <1>1, Invariance, PTL

\* What is forwarded was there for the forwarder to read.
THEOREM ForwardsAreReadable == Spec => []ForwardsWereReadable
<1>1. IInv => ForwardsWereReadable
  BY DEF IInv
<1> QED
  BY <1>1, Invariance, PTL

-----------------------------------------------------------------------------
(***************************************************************************)
(* Refinement.  As no message loses its key, the log that module ChatLog   *)
(* is given is made of the rows, each with what there is to be read of it. *)
(***************************************************************************)

\* What the log has of a row.
Entry(m) ==
  [id |-> m.id, conv |-> m.conv, sender |-> m.sender, text |-> Body(m),
   replyTo |-> m.replyTo]

\* What can be read with the stored keys is what there is to be read.
LEMMA LogIsRows ==
  ASSUME EveryMessageReadable
  PROVE  ReadableLog = {Entry(m) : m \in messages}
<1>1. \A m \in messages : Legible(m) = Body(m)
  BY DEF EveryMessageReadable, Legible, Decrypt, Body, HasKey
<1> QED
  BY <1>1 DEF ReadableLog, Entry

\* The commit of a message adds its entry to the log.
LEMMA InsertAdds ==
  ASSUME IInv, IInv', NEW r \in Requests, NEW i \in Msgs \ OldMsgs, NEW said \in Msgs \cup {NoMsg},
         NEW replyTo \in Msgs \cup {NoMsg}, pc[r] = "commit", actor[r] \in users,
         Insert(r, i, said, replyTo)
  PROVE  Log!Add(actor[r], conv[r], i, said, replyTo)
<1> DEFINE e == [id |-> i, conv |-> conv[r], sender |-> actor[r], text |-> said,
                 replyTo |-> replyTo]
<1> DEFINE m == [id |-> i, conv |-> conv[r], sender |-> actor[r], text |-> said,
                 key |-> key[r], replyTo |-> replyTo]
<1>1. ReadableLog = {Entry(n) : n \in messages}
  BY LogIsRows DEF IInv
<1>2. ReadableLog' = {Entry(n) : n \in messages'}
  <2>1. \A n \in messages' : Legible(n)' = Body(n)
    BY DEF IInv, EveryMessageReadable, Legible, Decrypt, Body, HasKey
  <2> QED
    BY <2>1 DEF ReadableLog, Entry
<1>3. messages' = messages \cup {m}
  BY DEF Insert
<1>4. Entry(m) = e
  <2>1. key[r] # NoKey /\ Unwraps(key[r])
    BY DEF IInv, Progress, KeysInUse
  <2> QED
    BY <2>1 DEF Entry, Body, HasKey
<1>5. ReadableLog' = ReadableLog \cup {e}
  BY <1>1, <1>2, <1>3, <1>4
<1>6. \A n \in ReadableLog : n.id # i
  BY <1>1 DEF Insert, Entry
<1>7. actor[r] \in users \cap Members[conv[r]]
  BY DEF IInv, Progress
<1>8. UNCHANGED users
  BY DEF Insert
<1> QED
  BY <1>5, <1>6, <1>7, <1>8 DEF Log!Add, Log!Ids

\* Messaging implements the log: every step of it is a step of the log or
\* leaves the log as it is.
THEOREM Refinement == Spec => ImplementsChatLog
<1>1. Init /\ IInv => Log!Init
  <2> SUFFICES ASSUME Init, IInv
               PROVE  Log!Init
    OBVIOUS
  <2>1. ReadableLog = {Entry(m) : m \in messages}
    BY LogIsRows DEF IInv
  <2>2. \A m \in messages :
          /\ m.id \in OldMsgs /\ m.text = m.id /\ m.conv \in Convs
          /\ m.sender \in Members[m.conv]
          /\ m.replyTo # NoMsg => \E n \in messages : n.id = m.replyTo
    BY DEF Init, LeftBehind, OldRow
  <2>3. \A m, n \in messages : m.id = n.id => m = n
    BY DEF Init
  <2>4. \A m \in messages : Entry(m).id = m.id /\ Entry(m).conv = m.conv
          /\ Entry(m).sender = m.sender /\ Entry(m).replyTo = m.replyTo
          /\ Entry(m).text \in {m.text, Encrypted}
    BY DEF Entry, Body
  <2>5. \A e, f \in ReadableLog : e.id = f.id => e = f
    BY <2>1, <2>3, <2>4
  <2>6. \A e \in ReadableLog :
          /\ e.id \in OldMsgs /\ e.conv \in Convs /\ e.sender \in Members[e.conv]
          /\ e.text \in {e.id, Encrypted}
          /\ e.replyTo \in Log!Ids \cup {NoMsg}
    <3> SUFFICES ASSUME NEW m \in messages
                 PROVE  /\ Entry(m).id \in OldMsgs /\ Entry(m).conv \in Convs
                        /\ Entry(m).sender \in Members[Entry(m).conv]
                        /\ Entry(m).text \in {Entry(m).id, Encrypted}
                        /\ Entry(m).replyTo \in Log!Ids \cup {NoMsg}
      BY <2>1
    <3>1. m.replyTo # NoMsg => m.replyTo \in Log!Ids
      <4> SUFFICES ASSUME NEW n \in messages, n.id = m.replyTo
                   PROVE  m.replyTo \in Log!Ids
        BY <2>2
      <4>1. Entry(n) \in ReadableLog /\ Entry(n).id = m.replyTo
        BY <2>1, <2>4
      <4> QED
        BY <4>1 DEF Log!Ids
    <3> QED
      BY <2>2, <2>4, <3>1
  <2>7. users = Users
    BY DEF Init
  <2> QED
    BY <2>5, <2>6, <2>7 DEF Log!Init
<1>2. IInv /\ IInv' /\ [Next]_vars => [Log!Next]_(Log!vars)
  <2> SUFFICES ASSUME IInv, IInv', [Next]_vars
               PROVE  [Log!Next]_(Log!vars)
    OBVIOUS
  <2>1. ASSUME UNCHANGED <<users, messages>>
        PROVE  UNCHANGED Log!vars
    <3>1. ReadableLog = {Entry(n) : n \in messages}
      BY LogIsRows DEF IInv
    <3>2. \A n \in messages' : Legible(n)' = Body(n)
      BY DEF IInv, EveryMessageReadable, Legible, Decrypt, Body, HasKey
    <3>3. ReadableLog' = {Entry(n) : n \in messages'}
      BY <3>2 DEF ReadableLog, Entry
    <3> QED
      BY <2>1, <3>1, <3>3 DEF Log!vars
  <2>2. ASSUME NEW r \in Requests, CommitSend(r), ~ Fail(r)
        PROVE  Log!Next
    <3>1. PICK i \in Msgs \ OldMsgs : Insert(r, i, i, ref[r])
      BY <2>2 DEF CommitSend
    <3>2. PICK t \in Msgs \cup {NoMsg} : t = ref[r]
      BY DEF IInv, TypeOK
    <3>3. pc[r] = "commit" /\ kind[r] = "send" /\ actor[r] \in users
      BY <2>2 DEF CommitSend, AuthorExists
    <3>4. PICK u \in Users, c \in Convs : u = actor[r] /\ c = conv[r]
      BY <3>3 DEF IInv, TypeOK, Progress
    <3>5. Log!Add(u, c, i, i, t)
      BY <3>1, <3>2, <3>3, <3>4, InsertAdds
    <3>6. t \in Log!Ids \cup {NoMsg}
      <4>1. t # NoMsg => \E n \in messages : n.id = t
        BY <3>2, <3>3 DEF IInv, Progress
      <4>2. ReadableLog = {Entry(n) : n \in messages}
        BY LogIsRows DEF IInv
      <4>3. CASE t # NoMsg
        <5>1. PICK n \in messages : n.id = t
          BY <4>1, <4>3
        <5>2. Entry(n) \in ReadableLog /\ Entry(n).id = t
          BY <4>2, <5>1 DEF Entry
        <5> QED
          BY <5>2 DEF Log!Ids
      <4> QED
        BY <4>3
    <3>7. Log!Post(u, c, i, t)
      BY <3>5, <3>6 DEF Log!Post
    <3> QED
      BY <3>7 DEF Log!Next
  <2>3. ASSUME NEW r \in Requests, CommitForward(r), ~ Fail(r)
        PROVE  Log!Next
    <3>1. PICK i \in Msgs \ OldMsgs : Insert(r, i, text[r], NoMsg)
      BY <2>3 DEF CommitForward
    <3>2. PICK said \in Msgs \cup {NoMsg} : said = text[r]
      BY DEF IInv, TypeOK
    <3>3. pc[r] = "commit" /\ kind[r] = "forward" /\ actor[r] \in users
      BY <2>3 DEF CommitForward, AuthorExists
    <3>4. PICK u \in Users, c \in Convs : u = actor[r] /\ c = conv[r]
      BY <3>3 DEF IInv, TypeOK, Progress
    <3>5. Log!Add(u, c, i, said, NoMsg)
      BY <3>1, <3>2, <3>3, <3>4, InsertAdds
    <3>6. PICK n \in messages : HasKey(n) /\ n.text = said /\ u \in Members[n.conv]
      BY <3>2, <3>3, <3>4 DEF IInv, Progress
    <3>7. PICK d \in Convs : d = n.conv
      BY RowParts DEF IInv, TypeOK
    <3>8. said \in Log!Texts(d)
      <4>1. Entry(n) \in ReadableLog
        BY LogIsRows DEF IInv
      <4>2. Entry(n).conv = d /\ Entry(n).text = said
        BY <3>6, <3>7 DEF Entry, Body
      <4>3. said # Encrypted
        BY <3>6, RowParts, SentinelsAssumption DEF IInv, TypeOK
      <4> QED
        BY <4>1, <4>2, <4>3 DEF Log!Texts
    <3>9. Log!Forward(u, d, c, i)
      BY <3>5, <3>6, <3>7, <3>8 DEF Log!Forward
    <3> QED
      BY <3>9 DEF Log!Next
  <2>4. ASSUME NEW r \in Requests, DeleteAccount(r), ~ Fail(r), actor[r] \in Users
        PROVE  Log!Next
    <3>1. PICK u \in Users : u = actor[r]
      BY <2>4
    <3>2. users' = users \ {u} /\ UNCHANGED <<messages, keyOf>>
      BY <2>4, <3>1 DEF DeleteAccount
    <3>3. \A n \in messages : n.sender # u
      BY <2>4, <3>1 DEF DeleteAccount, HasSent
    <3>4. \A n \in ReadableLog : n.sender # u
      BY <3>3, LogIsRows DEF IInv, Entry
    <3>5. UNCHANGED ReadableLog
      BY <3>2 DEF ReadableLog, Legible, Decrypt
    <3>6. Log!CloseAccount(u)
      BY <3>2, <3>4, <3>5 DEF Log!CloseAccount
    <3> QED
      BY <3>6 DEF Log!Next
  <2>5. ASSUME NEW r \in Requests, DeleteAccount(r), actor[r] \notin Users
        PROVE  UNCHANGED <<users, messages>>
    <3>1. actor[r] \notin users
      BY <2>5 DEF IInv, TypeOK
    <3>2. users \ {actor[r]} = users
      BY <3>1
    <3> QED
      BY <2>5, <3>2 DEF DeleteAccount, Fail, tables
  <2>6. CASE UNCHANGED vars
    BY <2>1, <2>6 DEF vars, tables
  <2>7. CASE Next
    <3>1. PICK r \in Requests :
            \/ CommitSend(r) \/ CommitForward(r) \/ DeleteAccount(r)
            \/ UNCHANGED <<users, messages>>
      BY <2>7 DEF Next, Step, BeginSend, BeginForward, BeginRead, BeginList,
        BeginDelete, Begin,
        CheckMembership, FetchKey, RejectKey, InsertKey, LookUpReply, ReadRows, ShowPreview,
        Finish, Crash, Reset,
        Fail, tables
    <3>2. Fail(r) => UNCHANGED <<users, messages>>
      BY DEF Fail, tables
    <3> QED
      BY <2>1, <2>2, <2>3, <2>4, <2>5, <3>1, <3>2
  <2> QED
    BY <2>6, <2>7
<1> QED
  BY <1>1, <1>2, Invariance, PTL DEF Spec, ImplementsChatLog, Log!Spec


-----------------------------------------------------------------------------

\* What is written stays as it is: a message is neither changed nor taken back,
\* and the key of a conversation that has one is never replaced, whoever has
\* made another for it in the meantime.
WrittenStays ==
  [][/\ messages \subseteq messages'
     /\ \A c \in Convs : keyOf[c] # NoKey => keyOf'[c] = keyOf[c]]_vars

\* get_or_create_conversation_key and the commits of its callers: the only step
\* that stores a key is the commit of a request whose insert of it kept all
\* others from inserting one for the conversation, which has none until then.
THEOREM NothingWrittenIsLost == Spec => WrittenStays
<1> DEFINE Kept == /\ messages \subseteq messages'
                   /\ \A c \in Convs : keyOf[c] # NoKey => keyOf'[c] = keyOf[c]
<1>1. IInv /\ [Next]_vars => [Kept]_vars
  <2> SUFFICES ASSUME IInv, Next
               PROVE  Kept
    OBVIOUS
  <2>1. ASSUME NEW r \in Requests, NEW i \in Msgs, NEW said, NEW replyTo,
               pc[r] = "commit", Insert(r, i, said, replyTo)
        PROVE  Kept
    <3>1. key[r] # NoKey /\ conv[r] \in Convs /\ (inserted[r] => keyOf[conv[r]] = NoKey)
      BY <2>1 DEF IInv, Progress, KeysInUse
    <3>2. /\ messages \subseteq messages'
          /\ keyOf' = [keyOf EXCEPT ![conv[r]] = IF inserted[r] THEN key[r] ELSE @]
      BY <2>1 DEF Insert
    <3>3. ASSUME NEW c \in Convs, keyOf[c] # NoKey
          PROVE  keyOf'[c] = keyOf[c]
      BY <3>1, <3>2, <3>3 DEF IInv, TypeOK
    <3> QED
      BY <3>2, <3>3
  <2>2. ASSUME UNCHANGED <<keyOf, messages>>
        PROVE  Kept
    BY <2>2
  <2>3. PICK r \in Requests :
          CommitSend(r) \/ CommitForward(r) \/ UNCHANGED <<keyOf, messages>>
    BY DEF Next, Step, BeginSend, BeginForward, BeginRead, BeginList, BeginDelete, Begin,
      CheckMembership, FetchKey, RejectKey, InsertKey, LookUpReply, ReadRows, ShowPreview,
      DeleteAccount, Finish, Crash, Reset, Fail, tables
  <2>4. CASE CommitSend(r) \/ CommitForward(r)
    <3>1. Fail(r) => UNCHANGED <<keyOf, messages>>
      BY DEF Fail, tables
    <3> QED
      BY <2>1, <2>2, <2>4, <3>1 DEF CommitSend, CommitForward
  <2> QED
    BY <2>2, <2>3, <2>4
<1> QED
  BY <1>1, Invariance, PTL DEF Spec, WrittenStays

=============================================================================
