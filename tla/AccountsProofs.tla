--------------------------- MODULE AccountsProofs ---------------------------
(***************************************************************************)
(* Accounts implements ColumnStore, and never opens more connections than  *)
(* its pool has, for any users, requests, values and size of the pool.     *)
(***************************************************************************)
EXTENDS Accounts, FiniteSetTheorems, TLAPS

\* A request that has begun is of a user, and sets what its kind sets.
Begun(r) ==
  pc[r] # "idle" =>
    /\ actor[r] \in Users /\ kind[r] \in Kinds
    /\ kind[r] = "login" => DOMAIN body[r] = {"login"}
    /\ kind[r] = "verify" => DOMAIN body[r] = {"active"} /\ body[r]["active"] = 1
    /\ kind[r] = "change" => DOMAIN body[r] = {"password"}
    /\ kind[r] = "update" => DOMAIN body[r] \subseteq Profile
    /\ kind[r] \in {"me", "lookup", "upload", "delete"} => DOMAIN body[r] = {}

\* A request is where its kind goes.
OnItsWay(r) ==
  /\ pc[r] = "reread" => kind[r] \in {"lookup", "change"}
  /\ pc[r] = "commit" => kind[r] \in {"login", "verify", "update", "change"}
  /\ pc[r] = "upload" => kind[r] = "upload"
  /\ pc[r] = "delete" => kind[r] = "delete"
  /\ pc[r] = "read" => kind[r] \in {"me", "lookup", "upload"}
  /\ pc[r] = "answered" => kind[r] \in {"login", "verify", "update", "change", "delete"}

\* The object in its session has the columns it uses; what it writes, or has
\* written, it was admitted to with the values in that object.
Knows(r) ==
  /\ pc[r] \notin {"idle", "connect", "failed"} => DOMAIN read[r] = Uses(kind[r])
  /\ pc[r] \in {"commit", "answered"} =>
       /\ kind[r] = "login" => read[r]["password"] = given[r] /\ read[r]["active"] = 1
       /\ kind[r] = "change" => read[r]["password"] = given[r]

IInv ==
  /\ TypeOK
  /\ IsFiniteSet(Connected)
  /\ \A r \in Requests : Begun(r) /\ OnItsWay(r) /\ Knows(r)

\* What the state is about is in the types again, one by one.
LEMMA Types ==
  ASSUME IInv, NEW r \in Requests
  PROVE  /\ pc[r] \in PCs /\ kind[r] \in Kinds \cup {"none"}
         /\ actor[r] \in Users \cup {NoUser} /\ given[r] \in Values
         /\ body[r] \in PartialRows /\ read[r] \in PartialRows
         /\ DOMAIN pc = Requests /\ DOMAIN kind = Requests /\ DOMAIN actor = Requests
         /\ DOMAIN body = Requests /\ DOMAIN given = Requests /\ DOMAIN read = Requests
         /\ Begun(r) /\ OnItsWay(r) /\ Knows(r)
  BY DEF IInv, TypeOK

\* Functions from some columns to values.
LEMMA PartialRow ==
  ASSUME NEW f
  PROVE  /\ f \in PartialRows => /\ DOMAIN f \subseteq Columns
                                /\ f = [c \in DOMAIN f |-> f[c]]
                                /\ \A c \in DOMAIN f : f[c] \in Values
         /\ /\ DOMAIN f \subseteq Columns
            /\ f = [c \in DOMAIN f |-> f[c]]
            /\ \A c \in DOMAIN f : f[c] \in Values
            => f \in PartialRows
<1>1. ASSUME f \in PartialRows
      PROVE  /\ DOMAIN f \subseteq Columns
             /\ f = [c \in DOMAIN f |-> f[c]]
             /\ \A c \in DOMAIN f : f[c] \in Values
  <2>1. PICK C \in SUBSET Columns : f \in [C -> Values]
    BY <1>1 DEF PartialRows
  <2> QED
    BY <2>1
<1>2. ASSUME DOMAIN f \subseteq Columns,
             f = [c \in DOMAIN f |-> f[c]],
             \A c \in DOMAIN f : f[c] \in Values
      PROVE  f \in PartialRows
  <2>1. f \in [DOMAIN f -> Values]
    BY <1>2
  <2> QED
    BY <1>2, <2>1 DEF PartialRows
<1> QED
  BY <1>1, <1>2

\* The literal ones.
LEMMA Literals ==
  /\ Nothing \in PartialRows /\ DOMAIN Nothing = {}
  /\ \A c \in Columns : \A v \in Values :
       Set(c, v) \in PartialRows /\ DOMAIN Set(c, v) = {c} /\ Set(c, v)[c] = v
  /\ \A C \in SUBSET Profile : \A b \in [C -> Values] :
       b \in PartialRows /\ DOMAIN b = C
  /\ \A k \in Kinds : Uses(k) \subseteq Columns
<1>1. Nothing \in PartialRows /\ DOMAIN Nothing = {}
  BY PartialRow DEF Nothing
<1>2. ASSUME NEW c \in Columns, NEW v \in Values
      PROVE  Set(c, v) \in PartialRows /\ DOMAIN Set(c, v) = {c} /\ Set(c, v)[c] = v
  BY PartialRow DEF Set
<1>3. ASSUME NEW C \in SUBSET Profile, NEW b \in [C -> Values]
      PROVE  b \in PartialRows /\ DOMAIN b = C
  BY PartialRow DEF Columns
<1>4. \A k \in Kinds : Uses(k) \subseteq Columns
  BY DEF Kinds, Uses, Columns, Profile
<1> QED
  BY <1>1, <1>2, <1>3, <1>4

\* Only requests that read for the first time add to the connections.
LEMMA FewerConnected ==
  ASSUME IInv, pool' = pool, Connected' \subseteq Connected
  PROVE  IsFiniteSet(Connected)' /\ Cardinality(Connected)' <= pool'
<1>1. IsFiniteSet(Connected') /\ Cardinality(Connected') <= Cardinality(Connected)
  BY FS_Subset DEF IInv
<1>2. Cardinality(Connected) \in Nat /\ Cardinality(Connected') \in Nat
  BY <1>1, FS_CardinalityType DEF IInv
<1>3. pool \in Nat /\ Cardinality(Connected) <= pool
  BY AccountsAssumption DEF IInv, TypeOK
<1> QED
  BY <1>1, <1>2, <1>3

LEMMA OneMoreConnected ==
  ASSUME IInv, pool' = pool, Cardinality(Connected) < pool,
         NEW r \in Requests, Connected' \subseteq Connected \cup {r}
  PROVE  IsFiniteSet(Connected)' /\ Cardinality(Connected)' <= pool'
<1>1. /\ IsFiniteSet(Connected \cup {r})
      /\ Cardinality(Connected \cup {r}) <= Cardinality(Connected) + 1
  BY FS_AddElement, FS_CardinalityType DEF IInv
<1>2. /\ IsFiniteSet(Connected')
      /\ Cardinality(Connected') <= Cardinality(Connected \cup {r})
  BY <1>1, FS_Subset
<1>3. /\ Cardinality(Connected) \in Nat /\ Cardinality(Connected') \in Nat
      /\ Cardinality(Connected \cup {r}) \in Nat /\ pool \in Nat
  BY <1>1, <1>2, FS_CardinalityType, AccountsAssumption DEF IInv, TypeOK
<1> QED
  BY <1>1, <1>2, <1>3

\* What a step leaves of the other requests.
OthersStay(r) ==
  \A q \in Requests \ {r} :
    /\ pc'[q] = pc[q] /\ kind'[q] = kind[q] /\ actor'[q] = actor[q]
    /\ body'[q] = body[q] /\ given'[q] = given[q] /\ read'[q] = read[q]

\* A step keeps the invariant if it does for the request it is of.
LEMMA OthersKeep ==
  ASSUME IInv, NEW r \in Requests, OthersStay(r), TypeOK', IsFiniteSet(Connected)',
         Begun(r)' /\ OnItsWay(r)' /\ Knows(r)'
  PROVE  IInv'
<1> SUFFICES ASSUME NEW q \in Requests \ {r}
             PROVE  Begun(q)' /\ OnItsWay(q)' /\ Knows(q)'
  BY DEF IInv
<1>1. Begun(q) /\ OnItsWay(q) /\ Knows(q)
  BY DEF IInv
<1>2. /\ pc'[q] = pc[q] /\ kind'[q] = kind[q] /\ actor'[q] = actor[q]
      /\ body'[q] = body[q] /\ given'[q] = given[q] /\ read'[q] = read[q]
  BY DEF OthersStay
<1>3. Begun(q)'
  BY <1>1, <1>2 DEF Begun
<1>4. OnItsWay(q)'
  BY <1>1, <1>2 DEF OnItsWay
<1>5. Knows(q)'
  BY <1>1, <1>2 DEF Knows
<1> QED
  BY <1>3, <1>4, <1>5

\* A request comes, with what its kind sets.
LEMMA BeginKeeps ==
  ASSUME IInv, NEW r \in Requests, NEW u \in Users,
         \/ BeginLogin(r, u) \/ BeginVerify(r, u) \/ BeginUpdate(r, u)
         \/ BeginChange(r, u) \/ BeginOther(r, u)
  PROVE  IInv'
<1>1. PICK k \in Kinds, b \in PartialRows, p \in Values :
        /\ Begin(r, k, u, b, p)
        /\ k = "login" => DOMAIN b = {"login"}
        /\ k = "verify" => DOMAIN b = {"active"} /\ b["active"] = 1
        /\ k = "change" => DOMAIN b = {"password"}
        /\ k = "update" => DOMAIN b \subseteq Profile
        /\ k \in {"me", "lookup", "upload", "delete"} => DOMAIN b = {}
  <2>1. {"login", "active", "password"} \subseteq Columns /\ {0, 1} \subseteq Values
    BY AccountsAssumption DEF Columns
  <2>2. CASE BeginLogin(r, u)
    BY <2>1, <2>2, Literals DEF BeginLogin, Kinds
  <2>3. CASE BeginVerify(r, u)
    BY <2>1, <2>3, Literals DEF BeginVerify, Kinds
  <2>4. CASE BeginUpdate(r, u)
    BY <2>1, <2>4, Literals DEF BeginUpdate, Kinds
  <2>5. CASE BeginChange(r, u)
    BY <2>1, <2>5, Literals DEF BeginChange, Kinds
  <2>6. CASE BeginOther(r, u)
    BY <2>1, <2>6, Literals DEF BeginOther, Kinds
  <2> QED
    BY <2>2, <2>3, <2>4, <2>5, <2>6
<1>2. /\ pc[r] = "idle" /\ pc' = [pc EXCEPT ![r] = "connect"]
      /\ kind' = [kind EXCEPT ![r] = k] /\ actor' = [actor EXCEPT ![r] = u]
      /\ body' = [body EXCEPT ![r] = b] /\ given' = [given EXCEPT ![r] = p]
      /\ UNCHANGED <<users, row, signedIn, pool, read>>
  BY <1>1 DEF Begin, Goto, tables
<1>3. OthersStay(r)
  BY <1>2, Types DEF OthersStay
<1>4. Connected' \subseteq Connected
  BY <1>2, Types DEF Connected
<1>5. TypeOK' /\ IsFiniteSet(Connected)'
  <2>1. IsFiniteSet(Connected)' /\ Cardinality(Connected)' <= pool'
    BY <1>2, <1>4, FewerConnected
  <2> QED
    BY <1>1, <1>2, <2>1 DEF IInv, TypeOK, PCs
<1>6. Begun(r)' /\ OnItsWay(r)' /\ Knows(r)'
  <2>1. pc'[r] = "connect" /\ kind'[r] = k /\ actor'[r] = u /\ body'[r] = b
    BY <1>2, Types
  <2> QED
    BY <1>1, <2>1 DEF Begun, OnItsWay, Knows
<1> QED
  BY <1>3, <1>5, <1>6, OthersKeep

\* A request goes on without touching its locals, to where it may be.
LEMMA AdvanceKeeps ==
  ASSUME IInv, NEW r \in Requests, NEW l \in PCs, pc' = [pc EXCEPT ![r] = l],
         UNCHANGED <<locals, pool, signedIn>>,
         users' \subseteq Users, row' \in [Users -> [Columns -> Values]],
         r \in Connected \/ Cardinality(Connected) < pool,
         Begun(r)' /\ OnItsWay(r)' /\ Knows(r)'
  PROVE  IInv'
<1>1. OthersStay(r)
  BY Types DEF OthersStay, locals
<1>2. IsFiniteSet(Connected)' /\ Cardinality(Connected)' <= pool'
  <2>1. Connected' \subseteq Connected \cup {r}
    BY Types DEF Connected
  <2>2. CASE r \in Connected
    BY <2>1, <2>2, FewerConnected DEF locals
  <2>3. CASE Cardinality(Connected) < pool
    BY <2>1, <2>3, OneMoreConnected
  <2> QED
    BY <2>2, <2>3
<1>3. TypeOK'
  BY <1>2 DEF IInv, TypeOK, locals
<1> QED
  BY <1>1, <1>2, <1>3, OthersKeep

\* The first statement: the object has the columns as they are.
LEMMA ConnectKeeps ==
  ASSUME IInv, NEW r \in Requests, Connect(r)
  PROVE  IInv'
<1>0. pc[r] = "connect" /\ Cardinality(Connected) < pool
  BY DEF Connect
<1>1. CASE /\ actor[r] \in users /\ Admitted(r)
           /\ read' = [read EXCEPT ![r] = [c \in Uses(kind[r]) |-> row[actor[r]][c]]]
           /\ Goto(r, AfterRead(r))
           /\ UNCHANGED <<tables, signedIn, pool, kind, actor, body, given>>
  <2>1. kind[r] \in Kinds /\ actor[r] \in Users
    BY <1>0, Types DEF Begun
  <2>2. AfterRead(r) \in PCs \ {"idle", "connect", "failed", "answered"}
    BY <2>1 DEF AfterRead, Kinds, PCs
  <2>3. /\ pc' = [pc EXCEPT ![r] = AfterRead(r)] /\ pc'[r] = AfterRead(r)
        /\ read'[r] = [c \in Uses(kind[r]) |-> row[actor[r]][c]]
        /\ UNCHANGED <<users, row, signedIn, pool, kind, actor, body, given>>
    BY <1>1, Types DEF Goto, tables
  <2>4. read'[r] \in PartialRows
    <3>1. Uses(kind[r]) \subseteq Columns
      BY <2>1, Literals
    <3>2. \A c \in Columns : row[actor[r]][c] \in Values
      BY <2>1 DEF IInv, TypeOK
    <3>3. DOMAIN read'[r] = Uses(kind[r])
          /\ \A c \in Uses(kind[r]) : read'[r][c] = row[actor[r]][c]
      BY <2>3
    <3>4. read'[r] = [c \in DOMAIN read'[r] |-> read'[r][c]]
      BY <2>3
    <3> QED
      BY <3>1, <3>2, <3>3, <3>4, PartialRow
  <2>5. IsFiniteSet(Connected)' /\ Cardinality(Connected)' <= pool'
    <3>1. Connected' \subseteq Connected \cup {r}
      BY <2>3, Types DEF Connected
    <3> QED
      BY <1>0, <2>3, <3>1, OneMoreConnected
  <2>6. TypeOK'
    <3>1. pc' \in [Requests -> PCs]
      BY <2>2, <2>3 DEF IInv, TypeOK
    <3>2. read' \in [Requests -> PartialRows]
      BY <1>1, <2>3, <2>4 DEF IInv, TypeOK
    <3> QED
      BY <2>3, <2>5, <3>1, <3>2 DEF IInv, TypeOK
  <2>7. OthersStay(r)
    BY <1>1, <2>3, Types DEF OthersStay
  <2>8. Begun(r)'
    BY <1>0, <2>2, <2>3, Types DEF Begun
  <2>9. OnItsWay(r)'
    <3>1. /\ AfterRead(r) = "reread" => kind[r] \in {"lookup", "change"}
          /\ AfterRead(r) = "commit" => kind[r] \in {"login", "verify", "update"}
          /\ AfterRead(r) = "read" => kind[r] = "me"
          /\ AfterRead(r) = "upload" => kind[r] = "upload"
          /\ AfterRead(r) = "delete" => kind[r] = "delete"
      BY <2>1 DEF AfterRead, Kinds
    <3> QED
      BY <2>2, <2>3, <3>1 DEF OnItsWay
  <2>10. Knows(r)'
    <3>1. DOMAIN read'[r] = Uses(kind[r])
      BY <2>3
    <3>2. AfterRead(r) = "commit" => kind[r] # "change"
      BY <2>1 DEF AfterRead, Kinds
    <3>3. kind[r] = "login" =>
            read'[r]["password"] = given[r] /\ read'[r]["active"] = 1
      BY <1>1, <2>3 DEF Admitted, Uses
    <3> QED
      BY <2>2, <2>3, <3>1, <3>2, <3>3 DEF Knows
  <2> QED
    BY <2>5, <2>6, <2>7, <2>8, <2>9, <2>10, OthersKeep
<1>2. CASE Fail(r)
  <2>1. Begun(r)' /\ OnItsWay(r)' /\ Knows(r)'
    <3>1. pc'[r] = "failed" /\ UNCHANGED locals
      BY <1>2, Types DEF Fail, Goto
    <3> QED
      BY <1>0, <3>1, Types DEF Begun, OnItsWay, Knows, locals
  <2> QED
    BY <1>0, <1>2, <2>1, AdvanceKeeps DEF Fail, Goto, PCs, tables, IInv, TypeOK
<1> QED
  BY <1>1, <1>2 DEF Connect

\* A request that has a connection fails.
LEMMA FailKeeps ==
  ASSUME IInv, NEW r \in Requests, r \in Connected, Fail(r)
  PROVE  IInv'
<1>1. pc'[r] = "failed" /\ pc[r] # "idle" /\ UNCHANGED <<locals, tables, signedIn, pool>>
      /\ pc' = [pc EXCEPT ![r] = "failed"]
  BY Types DEF Fail, Goto, Connected
<1>2. Begun(r)' /\ OnItsWay(r)' /\ Knows(r)'
  BY <1>1, Types DEF Begun, OnItsWay, Knows, locals
<1> QED
  BY <1>1, <1>2, AdvanceKeeps DEF PCs, tables, IInv, TypeOK

\* The second SELECT, and the comparison of the current password.
LEMMA RereadKeeps ==
  ASSUME IInv, NEW r \in Requests, Reread(r)
  PROVE  IInv'
<1>0. pc[r] = "reread" /\ r \in Connected
  BY DEF Reread, Connected
<1>1. CASE Fail(r)
  BY <1>0, <1>1, FailKeeps
<1>2. CASE kind[r] = "lookup" /\ Advance(r, "read")
  <2>1. pc'[r] = "read" /\ UNCHANGED locals
    BY <1>2, Types DEF Advance, Goto
  <2>2. Begun(r)' /\ OnItsWay(r)' /\ Knows(r)'
    BY <1>0, <1>2, <2>1, Types DEF Begun, OnItsWay, Knows, locals
  <2> QED
    BY <1>0, <1>2, <2>2, AdvanceKeeps DEF Advance, Goto, PCs, tables, IInv, TypeOK
<1>3. CASE kind[r] = "change" /\ given[r] = read[r]["password"] /\ Advance(r, "commit")
  <2>1. pc'[r] = "commit" /\ UNCHANGED locals
    BY <1>3, Types DEF Advance, Goto
  <2>2. Begun(r)' /\ OnItsWay(r)' /\ Knows(r)'
    BY <1>0, <1>3, <2>1, Types DEF Begun, OnItsWay, Knows, locals
  <2> QED
    BY <1>0, <1>3, <2>2, AdvanceKeeps DEF Advance, Goto, PCs, tables, IInv, TypeOK
<1> QED
  BY <1>1, <1>2, <1>3 DEF Reread

\* What a commit writes is of the right type.
LEMMA CommitTypes ==
  ASSUME IInv, NEW r \in Requests, pc[r] = "commit"
  PROVE  /\ actor[r] \in Users
         /\ Dirty(r) \subseteq DOMAIN body[r] /\ Dirty(r) \subseteq Columns
         /\ [row EXCEPT ![actor[r]] =
               [c \in Columns |-> IF c \in Dirty(r) THEN body[r][c] ELSE @[c]]]
              \in [Users -> [Columns -> Values]]
<1>1. actor[r] \in Users /\ body[r] \in PartialRows
  BY Types DEF Begun
<1>2. /\ DOMAIN body[r] \subseteq Columns
      /\ \A c \in DOMAIN body[r] : body[r][c] \in Values
  BY <1>1, PartialRow
<1>3. Dirty(r) \subseteq DOMAIN body[r]
  BY DEF Dirty
<1>4. row \in [Users -> [Columns -> Values]]
  BY DEF IInv, TypeOK
<1> DEFINE new == [c \in Columns |-> IF c \in Dirty(r) THEN body[r][c] ELSE row[actor[r]][c]]
<1>5. new \in [Columns -> Values]
  BY <1>1, <1>2, <1>3, <1>4
<1> QED
  BY <1>1, <1>2, <1>3, <1>4, <1>5

LEMMA CommitKeeps ==
  ASSUME IInv, NEW r \in Requests, Commit(r)
  PROVE  IInv'
<1>0. pc[r] = "commit" /\ r \in Connected
  BY DEF Commit, Connected
<1>1. CASE Fail(r)
  BY <1>0, <1>1, FailKeeps
<1>2. CASE /\ row' = [row EXCEPT ![actor[r]] =
                       [c \in Columns |-> IF c \in Dirty(r) THEN body[r][c] ELSE @[c]]]
           /\ Goto(r, "answered")
           /\ UNCHANGED <<users, signedIn, pool, locals>>
  <2>1. row' \in [Users -> [Columns -> Values]]
    BY <1>0, <1>2, CommitTypes
  <2>2. pc'[r] = "answered" /\ UNCHANGED locals
    BY <1>2, Types DEF Goto
  <2>3. Begun(r)' /\ OnItsWay(r)' /\ Knows(r)'
    BY <1>0, <2>2, Types DEF Begun, OnItsWay, Knows, locals
  <2> QED
    BY <1>0, <1>2, <2>1, <2>3, AdvanceKeeps DEF Goto, PCs, IInv, TypeOK
<1> QED
  BY <1>1, <1>2 DEF Commit

LEMMA UploadKeeps ==
  ASSUME IInv, NEW r \in Requests, Upload(r)
  PROVE  IInv'
<1>0. pc[r] = "upload" /\ r \in Connected
  BY DEF Upload, Connected
<1>1. CASE Fail(r)
  BY <1>0, <1>1, FailKeeps
<1>2. CASE Advance(r, "read")
  <2>1. pc'[r] = "read" /\ UNCHANGED locals
    BY <1>2, Types DEF Advance, Goto
  <2>2. Begun(r)' /\ OnItsWay(r)' /\ Knows(r)'
    BY <1>0, <2>1, Types DEF Begun, OnItsWay, Knows, locals
  <2> QED
    BY <1>0, <1>2, <2>2, AdvanceKeeps DEF Advance, Goto, PCs, tables, IInv, TypeOK
<1> QED
  BY <1>1, <1>2 DEF Upload

LEMMA DeleteKeeps ==
  ASSUME IInv, NEW r \in Requests, DeleteAccount(r)
  PROVE  IInv'
<1>0. pc[r] = "delete" /\ r \in Connected
  BY DEF DeleteAccount, Connected
<1>1. CASE Fail(r)
  BY <1>0, <1>1, FailKeeps
<1>2. CASE /\ users' = users \ {actor[r]}
           /\ Goto(r, "answered")
           /\ UNCHANGED <<row, signedIn, pool, locals>>
  <2>1. pc'[r] = "answered" /\ UNCHANGED locals
    BY <1>2, Types DEF Goto
  <2>2. Begun(r)' /\ OnItsWay(r)' /\ Knows(r)'
    BY <1>0, <2>1, Types DEF Begun, OnItsWay, Knows, locals
  <2> QED
    BY <1>0, <1>2, <2>2, AdvanceKeeps DEF Goto, PCs, IInv, TypeOK
<1> QED
  BY <1>1, <1>2 DEF DeleteAccount

\* The end of a request, answered or not.
LEMMA ResetKeeps ==
  ASSUME IInv, NEW r \in Requests, Finish(r) \/ Crash(r) \/ TimeOut(r)
  PROVE  IInv'
<1>1. Reset(r)
  BY DEF Finish, Crash, TimeOut
<1>2. /\ pc' = [pc EXCEPT ![r] = "idle"] /\ UNCHANGED <<users, row, pool>>
      /\ kind' = [kind EXCEPT ![r] = "none"] /\ actor' = [actor EXCEPT ![r] = NoUser]
      /\ body' = [body EXCEPT ![r] = Nothing] /\ given' = [given EXCEPT ![r] = 0]
      /\ read' = [read EXCEPT ![r] = Nothing]
  BY <1>1 DEF Reset, Goto, tables
<1>3. OthersStay(r)
  BY <1>2, Types DEF OthersStay
<1>4. signedIn' \subseteq Users
  <2>1. pc[r] = "answered" => actor[r] \in Users
    BY Types DEF Begun
  <2> QED
    BY <2>1 DEF Finish, Crash, TimeOut, IInv, TypeOK
<1>5. IsFiniteSet(Connected)' /\ Cardinality(Connected)' <= pool'
  <2>1. Connected' \subseteq Connected
    BY <1>2, Types DEF Connected
  <2> QED
    BY <1>2, <2>1, FewerConnected
<1>6. TypeOK'
  BY <1>2, <1>4, <1>5, Literals, AccountsAssumption DEF IInv, TypeOK, PCs
<1>7. Begun(r)' /\ OnItsWay(r)' /\ Knows(r)'
  <2>1. pc'[r] = "idle"
    BY <1>2, Types
  <2> QED
    BY <2>1 DEF Begun, OnItsWay, Knows
<1> QED
  BY <1>3, <1>5, <1>6, <1>7, OthersKeep

LEMMA InitHolds == Init => IInv
<1> SUFFICES ASSUME Init PROVE IInv
  OBVIOUS
<1>1. Connected = {}
  BY DEF Init, Connected
<1>2. IsFiniteSet(Connected) /\ Cardinality(Connected) <= pool
  BY <1>1, FS_EmptySet, AccountsAssumption DEF Init
<1>3. TypeOK
  BY <1>2, Literals, AccountsAssumption DEF Init, TypeOK, PCs
<1>4. \A r \in Requests : Begun(r) /\ OnItsWay(r) /\ Knows(r)
  BY DEF Init, Begun, OnItsWay, Knows
<1> QED
  BY <1>2, <1>3, <1>4 DEF IInv

LEMMA StutterKeeps ==
  ASSUME IInv, UNCHANGED vars
  PROVE  IInv'
<1>1. UNCHANGED <<users, row, signedIn, pool, pc, kind, actor, body, given, read>>
  BY DEF vars, tables, locals
<1>2. Connected' = Connected
  BY <1>1 DEF Connected
<1>3. TypeOK' /\ IsFiniteSet(Connected)'
  BY <1>1, <1>2 DEF IInv, TypeOK
<1>4. \A r \in Requests : Begun(r)' /\ OnItsWay(r)' /\ Knows(r)'
  BY <1>1 DEF IInv, Begun, OnItsWay, Knows
<1> QED
  BY <1>3, <1>4 DEF IInv

\* The strengthened invariant holds in every reachable state.
THEOREM Invariance == Spec => []IInv
<1>1. IInv /\ [Next]_vars => IInv'
  <2>1. ASSUME IInv, NEW r \in Requests, Step(r)
        PROVE  IInv'
    BY <2>1, ConnectKeeps, RereadKeeps, CommitKeeps, UploadKeeps, DeleteKeeps, ResetKeeps
       DEF Step
  <2> QED
    BY <2>1, BeginKeeps, ResetKeeps, StutterKeeps DEF Next
<1> QED
  BY <1>1, InitHolds, PTL DEF Spec

\* Every variable stays in its type, and the pool never has more connections
\* than it may open.
THEOREM TypeCorrect == Spec => []TypeOK
<1>1. IInv => TypeOK
  BY DEF IInv
<1> QED
  BY <1>1, Invariance, PTL

-----------------------------------------------------------------------------

\* The request is asked and has not failed, and has been answered.
Replied(r) == Asking(r) /\ pc[r] \in {"read", "answered"}

\* A step of one request is none of another.
LEMMA OthersMap ==
  ASSUME NEW r \in Requests, OthersStay(r), NEW q \in Requests \ {r}
  PROVE  /\ Question(q)' = Question(q) /\ Saw(q)' = Saw(q) /\ Did(q)' = Did(q)
         /\ Replied(q)' <=> Replied(q)
<1>1. /\ pc'[q] = pc[q] /\ kind'[q] = kind[q] /\ actor'[q] = actor[q]
      /\ body'[q] = body[q] /\ given'[q] = given[q] /\ read'[q] = read[q]
  BY DEF OthersStay
<1>2. Asking(q)' <=> Asking(q)
  BY <1>1 DEF Asking
<1>3. Asked(q)' = Asked(q)
  BY <1>1 DEF Asked
<1>4. Expected(q)' = Expected(q)
  BY <1>1 DEF Expected
<1>5. Dirty(q)' = Dirty(q)
  BY <1>1 DEF Dirty
<1>6. HasRead(q)' <=> HasRead(q)
  BY <1>1, <1>2 DEF HasRead
<1>7. Question(q)' = Question(q)
  BY <1>1, <1>2, <1>3, <1>4 DEF Question
<1>8. Saw(q)' = Saw(q)
  BY <1>1, <1>3, <1>6 DEF Saw
<1>9. Did(q)' = Did(q)
  BY <1>1, <1>5, <1>6 DEF Did
<1> QED
  BY <1>1, <1>2, <1>7, <1>8, <1>9 DEF Replied

LEMMA OneMaps ==
  ASSUME NEW r \in Requests, OthersStay(r)
  PROVE  /\ [q \in Requests |-> Saw(q)]' = [[q \in Requests |-> Saw(q)] EXCEPT ![r] = Saw(r)']
         /\ [q \in Requests |-> Did(q)]' = [[q \in Requests |-> Did(q)] EXCEPT ![r] = Did(r)']
<1>1. \A q \in Requests \ {r} : Saw(q)' = Saw(q)
  BY OthersMap
<1>2. \A q \in Requests \ {r} : Did(q)' = Did(q)
  BY OthersMap
<1>3. [q \in Requests |-> Saw(q)]' = [[q \in Requests |-> Saw(q)] EXCEPT ![r] = Saw(r)']
  BY <1>1
<1>4. [q \in Requests |-> Did(q)]' = [[q \in Requests |-> Did(q)] EXCEPT ![r] = Did(r)']
  BY <1>2
<1> QED
  BY <1>3, <1>4

\* Whoever asks nothing any more has left.
LEMMA Leaves ==
  ASSUME IInv, NEW r \in Requests, OthersStay(r), UNCHANGED tables,
         pc'[r] \in {"idle", "failed"}
  PROVE  Store!Leave(r)
<1>1. Question(r)' = NoQuestion /\ Saw(r)' = Nothing /\ Did(r)' = {} /\ ~ Replied(r)'
  BY DEF Question, Saw, Did, Replied, HasRead, Asking
<1>2. \A q \in Requests \ {r} :
        /\ Question(q)' = Question(q) /\ Saw(q)' = Saw(q) /\ Did(q)' = Did(q)
        /\ Replied(q)' <=> Replied(q)
  BY OthersMap
<1>3. [q \in Requests |-> Question(q)]'
        = [[q \in Requests |-> Question(q)] EXCEPT ![r] = NoQuestion]
  BY <1>1, <1>2
<1>4. [q \in Requests |-> Saw(q)]' = [[q \in Requests |-> Saw(q)] EXCEPT ![r] = Nothing]
  BY <1>1, <1>2
<1>5. [q \in Requests |-> Did(q)]' = [[q \in Requests |-> Did(q)] EXCEPT ![r] = {}]
  BY <1>1, <1>2
<1>6. {q \in Requests : Asking(q) /\ pc[q] \in {"read", "answered"}}'
        = {q \in Requests : Asking(q) /\ pc[q] \in {"read", "answered"}} \ {r}
  BY <1>1, <1>2 DEF Replied
<1> QED
  BY <1>3, <1>4, <1>5, <1>6 DEF Store!Leave, Store!Nothing, Nothing, tables

\* What a request asks is a question.
LEMMA Questions ==
  ASSUME IInv, NEW r \in Requests, Asking(r)
  PROVE  /\ Question(r) = [user |-> actor[r], reads |-> Asked(r),
                           expects |-> Expected(r), writes |-> body[r]]
         /\ Question(r) \in Store!Questions /\ Question(r) # NoQuestion
<1>1. actor[r] \in Users /\ kind[r] \in Kinds /\ body[r] \in PartialRows /\ given[r] \in Values
  BY Types DEF Begun, Asking
<1>2. Asked(r) \subseteq Columns
  <2>1. Uses(kind[r]) \subseteq Columns /\ "password" \in Columns
    BY <1>1, Literals DEF Columns
  <2> QED
    BY <2>1 DEF Asked
<1>3. Expected(r) \in PartialRows
  <2>1. CASE kind[r] = "login"
    <3>1. Expected(r) = [c \in {"password", "active"} |-> IF c = "active" THEN 1 ELSE given[r]]
      BY <2>1 DEF Expected
    <3>2. {"password", "active"} \subseteq Columns /\ 1 \in Values
      BY AccountsAssumption DEF Columns
    <3> QED
      BY <1>1, <3>1, <3>2, PartialRow
  <2>2. CASE kind[r] = "change"
    <3>1. Expected(r) = Set("password", given[r]) /\ "password" \in Columns
      BY <2>2 DEF Expected, Columns
    <3> QED
      BY <1>1, <3>1, Literals
  <2>3. CASE kind[r] \notin {"login", "change"}
    BY <2>3, Literals DEF Expected
  <2> QED
    BY <2>1, <2>2, <2>3
<1>4. Question(r) = [user |-> actor[r], reads |-> Asked(r),
                     expects |-> Expected(r), writes |-> body[r]]
  BY DEF Question
<1>5. Question(r) \in Store!Questions
  BY <1>1, <1>2, <1>3, <1>4 DEF Store!Questions, Store!PartialRows, PartialRows
<1> QED
  BY <1>4, <1>5, NoQuestionAssumption

LEMMA AllQuestions ==
  IInv => \A q \in Requests : Asking(q) => Question(q) \in Store!Questions
  BY Questions

\* A request begins: it asks its question, or nothing.
LEMMA BeginMaps ==
  ASSUME IInv, IInv', NEW r \in Requests, NEW k, NEW u, NEW b, NEW p, Begin(r, k, u, b, p)
  PROVE  Store!Ask(r) \/ UNCHANGED Store!vars
<1>1. /\ pc[r] = "idle" /\ pc'[r] = "connect" /\ kind'[r] = k
      /\ UNCHANGED <<users, row>>
  BY Types DEF Begin, Goto, tables
<1>2. OthersStay(r)
  BY Types DEF Begin, Goto, OthersStay
<1>3. \A q \in Requests \ {r} :
        /\ Question(q)' = Question(q) /\ Saw(q)' = Saw(q) /\ Did(q)' = Did(q)
        /\ Replied(q)' <=> Replied(q)
  BY <1>2, OthersMap
<1>4. /\ ~ Asking(r) /\ Question(r) = NoQuestion /\ Saw(r)' = Saw(r) /\ Did(r)' = Did(r)
      /\ ~ Replied(r) /\ ~ Replied(r)'
  BY <1>1 DEF Asking, Question, Saw, Did, HasRead, Replied
<1>5. [q \in Requests |-> Saw(q)]' = [q \in Requests |-> Saw(q)]
  BY <1>3, <1>4
<1>6. [q \in Requests |-> Did(q)]' = [q \in Requests |-> Did(q)]
  BY <1>3, <1>4
<1>7. {q \in Requests : Asking(q) /\ pc[q] \in {"read", "answered"}}'
        = {q \in Requests : Asking(q) /\ pc[q] \in {"read", "answered"}}
  BY <1>3, <1>4 DEF Replied
<1>8. CASE Asking(r)'
  <2>1. Question(r)' \in Store!Questions
    <3>1. (\A q \in Requests : Asking(q) => Question(q) \in Store!Questions)'
      BY AllQuestions, PTL
    <3> QED
      BY <1>8, <3>1
  <2> QED
    BY <1>1, <1>3, <1>4, <1>5, <1>6, <1>7, <2>1 DEF Store!Ask
<1>9. CASE ~ Asking(r)'
  <2>1. Question(r)' = Question(r)
    BY <1>4, <1>9 DEF Question
  <2>2. [q \in Requests |-> Question(q)]' = [q \in Requests |-> Question(q)]
    BY <1>3, <2>1
  <2> QED
    BY <1>1, <1>5, <1>6, <1>7, <2>2 DEF Store!vars
<1> QED
  BY <1>8, <1>9

\* Commuting from one statement to the next changes no answer, question or column.
LEMMA SilentMaps ==
  ASSUME NEW r \in Requests, OthersStay(r), UNCHANGED tables,
         Question(r)' = Question(r), Saw(r)' = Saw(r), Did(r)' = Did(r),
         Replied(r)' <=> Replied(r)
  PROVE  UNCHANGED Store!vars
<1>1. \A q \in Requests :
        /\ Question(q)' = Question(q) /\ Saw(q)' = Saw(q) /\ Did(q)' = Did(q)
        /\ Replied(q)' <=> Replied(q)
  BY OthersMap
<1>2. [q \in Requests |-> Question(q)]' = [q \in Requests |-> Question(q)]
  BY <1>1
<1>3. [q \in Requests |-> Saw(q)]' = [q \in Requests |-> Saw(q)]
  BY <1>1
<1>4. [q \in Requests |-> Did(q)]' = [q \in Requests |-> Did(q)]
  BY <1>1
<1>5. {q \in Requests : Asking(q) /\ pc[q] \in {"read", "answered"}}'
        = {q \in Requests : Asking(q) /\ pc[q] \in {"read", "answered"}}
  BY <1>1 DEF Replied
<1> QED
  BY <1>2, <1>3, <1>4, <1>5 DEF Store!vars, tables

\* The request reads the columns R, and writes W, now.
Effective(r, R, W) ==
  /\ actor[r] \in users
  /\ Saw(r)' = [c \in DOMAIN Saw(r) \cup R |-> IF c \in R THEN row[actor[r]][c] ELSE Saw(r)[c]]
  /\ Did(r)' = Did(r) \cup W
  /\ row' = [row EXCEPT ![actor[r]] =
               [c \in Columns |-> IF c \in W THEN body[r][c] ELSE @[c]]]

\* A request goes on with its question, reads the columns R and writes W, or
\* does neither, and is answered when it has everything.
LEMMA WorkMaps ==
  ASSUME IInv, NEW r \in Requests, OthersStay(r), UNCHANGED users,
         Asking(r), Question(r)' = Question(r), ~ Replied(r),
         \/ row' = row /\ Saw(r)' = Saw(r) /\ Did(r)' = Did(r)
         \/ \E R \in SUBSET (Asked(r) \ DOMAIN Saw(r)) :
              \E W \in SUBSET (DOMAIN body[r] \ Did(r)) : Effective(r, R, W),
         Replied(r)' => /\ DOMAIN Saw(r)' = Asked(r)
                        /\ Did(r)' = DOMAIN body[r]
                        /\ \A c \in DOMAIN Expected(r) : Saw(r)'[c] = Expected(r)[c]
  PROVE  Store!Work(r)
<1> DEFINE asked == [q \in Requests |-> Question(q)]
           saw == [q \in Requests |-> Saw(q)]
           did == [q \in Requests |-> Did(q)]
           answered == {q \in Requests : Asking(q) /\ pc[q] \in {"read", "answered"}}
<1>1. \A q \in Requests \ {r} :
        /\ Question(q)' = Question(q) /\ Saw(q)' = Saw(q) /\ Did(q)' = Did(q)
        /\ Replied(q)' <=> Replied(q)
  BY OthersMap
<1>2. /\ asked' = asked /\ asked[r] # NoQuestion
      /\ asked[r].user = actor[r] /\ asked[r].reads = Asked(r)
      /\ asked[r].expects = Expected(r) /\ asked[r].writes = body[r]
  <2>1. asked' = asked
    BY <1>1
  <2>2. asked[r] = Question(r)
    OBVIOUS
  <2> QED
    BY <2>1, <2>2, Questions
<1>3. saw' = [saw EXCEPT ![r] = Saw(r)'] /\ saw[r] = Saw(r) /\ saw'[r] = Saw(r)'
  <2>1. saw' = [saw EXCEPT ![r] = Saw(r)']
    BY OneMaps
  <2> QED
    BY <2>1
<1>4. did' = [did EXCEPT ![r] = Did(r)'] /\ did[r] = Did(r) /\ did'[r] = Did(r)'
  <2>1. did' = [did EXCEPT ![r] = Did(r)']
    BY OneMaps
  <2> QED
    BY <2>1
<1>5. /\ r \notin answered
      /\ answered' = IF Replied(r)' THEN answered \cup {r} ELSE answered
  BY <1>1 DEF Replied
<1>6. /\ Saw(r)' = Saw(r) => saw' = saw
      /\ Did(r)' = Did(r) => did' = did
  <2>1. ASSUME Saw(r)' = Saw(r)
        PROVE  saw' = saw
    BY <1>1, <2>1
  <2>2. ASSUME Did(r)' = Did(r)
        PROVE  did' = did
    BY <1>1, <2>2
  <2> QED
    BY <2>1, <2>2
<1>7. Replied(r)' => /\ DOMAIN saw'[r] = asked'[r].reads
                     /\ did'[r] = DOMAIN asked'[r].writes
                     /\ \A c \in DOMAIN asked'[r].expects : saw'[r][c] = asked'[r].expects[c]
  BY <1>2, <1>3, <1>4
<1> HIDE DEF asked, saw, did, answered
<1>8. \/ Store!NoEffect(r)
      \/ \E R \in SUBSET (asked[r].reads \ DOMAIN saw[r]) :
           \E W \in SUBSET (DOMAIN asked[r].writes \ did[r]) : Store!Effect(r, R, W)
  <2>1. CASE row' = row /\ Saw(r)' = Saw(r) /\ Did(r)' = Did(r)
    BY <1>6, <2>1 DEF Store!NoEffect, saw, did
  <2>2. ASSUME NEW R \in SUBSET (Asked(r) \ DOMAIN Saw(r)),
               NEW W \in SUBSET (DOMAIN body[r] \ Did(r)), Effective(r, R, W)
        PROVE  Store!Effect(r, R, W)
    <3>1. saw' = [saw EXCEPT ![r] =
                    [c \in DOMAIN @ \cup R |-> IF c \in R THEN row[asked[r].user][c] ELSE @[c]]]
      BY <1>2, <1>3, <2>2 DEF Effective
    <3>2. did' = [did EXCEPT ![r] = @ \cup W]
      BY <1>4, <2>2 DEF Effective
    <3>3. row' = [row EXCEPT ![asked[r].user] =
                    [c \in Columns |-> IF c \in W THEN asked[r].writes[c] ELSE @[c]]]
      BY <1>2, <2>2 DEF Effective
    <3>4. asked[r].user \in users
      BY <1>2, <2>2 DEF Effective
    <3> QED
      BY <3>1, <3>2, <3>3, <3>4 DEF Store!Effect, asked, saw, did
  <2>3. CASE \E R \in SUBSET (Asked(r) \ DOMAIN Saw(r)) :
               \E W \in SUBSET (DOMAIN body[r] \ Did(r)) : Effective(r, R, W)
    <3>1. PICK R \in SUBSET (Asked(r) \ DOMAIN Saw(r)) :
            \E W \in SUBSET (DOMAIN body[r] \ Did(r)) : Effective(r, R, W)
      BY <2>3
    <3>2. PICK W \in SUBSET (DOMAIN body[r] \ Did(r)) : Effective(r, R, W)
      BY <3>1
    <3>3. /\ R \in SUBSET (asked[r].reads \ DOMAIN saw[r])
          /\ W \in SUBSET (DOMAIN asked[r].writes \ did[r])
      BY <1>2, <1>3, <1>4
    <3> QED
      BY <2>2, <3>2, <3>3
  <2> QED
    BY <2>1, <2>3
<1>9. UNCHANGED answered \/ (Store!Complete(r)' /\ answered' = answered \cup {r})
  BY <1>5, <1>7 DEF Store!Complete, asked, saw, did
<1> QED
  BY <1>2, <1>5, <1>8, <1>9 DEF Store!Work, asked, saw, did, answered

\* As long as a request has not failed, it asks the same question.
LEMMA SameQuestion ==
  ASSUME NEW r, Asking(r), pc'[r] \notin {"idle", "failed"}, kind'[r] = kind[r],
         actor'[r] = actor[r], body'[r] = body[r], given'[r] = given[r]
  PROVE  /\ Asking(r)' /\ Question(r)' = Question(r)
         /\ Asked(r)' = Asked(r) /\ Expected(r)' = Expected(r)
<1>1. Asking(r)'
  BY DEF Asking
<1>2. Asked(r)' = Asked(r)
  BY DEF Asked
<1>3. Expected(r)' = Expected(r)
  BY DEF Expected
<1> QED
  BY <1>1, <1>2, <1>3 DEF Question

\* The first statement reads all a request asks for.  What it sets to the
\* value read is as good as written.
LEMMA ConnectMaps ==
  ASSUME IInv, NEW r \in Requests, Connect(r)
  PROVE  Store!Work(r) \/ Store!Leave(r) \/ UNCHANGED Store!vars
<1>0. pc[r] = "connect" /\ actor[r] \in Users /\ kind[r] \in Kinds
  BY Types DEF Connect, Begun
<1>1. CASE Fail(r)
  <2>1. pc'[r] = "failed" /\ OthersStay(r) /\ UNCHANGED tables
    BY <1>1, Types DEF Fail, Goto, OthersStay, locals
  <2> QED
    BY <2>1, Leaves
<1>2. CASE /\ actor[r] \in users /\ Admitted(r)
           /\ read' = [read EXCEPT ![r] = [c \in Uses(kind[r]) |-> row[actor[r]][c]]]
           /\ Goto(r, AfterRead(r))
           /\ UNCHANGED <<tables, signedIn, pool, kind, actor, body, given>>
  <2>1. /\ AfterRead(r) \in PCs \ {"idle", "connect", "failed", "answered"}
        /\ AfterRead(r) = "read" => kind[r] = "me"
    BY <1>0 DEF AfterRead, Kinds, PCs
  <2>2. /\ pc'[r] = AfterRead(r) /\ OthersStay(r)
        /\ read'[r] = [c \in Uses(kind[r]) |-> row[actor[r]][c]]
        /\ UNCHANGED <<users, row, kind, actor, body, given, tables>>
    BY <1>2, Types DEF Goto, tables, OthersStay
  <2>3. CASE ~ Asking(r)
    <3>1. ~ Asking(r)'
      BY <1>0, <2>2, <2>3 DEF Asking
    <3>2. /\ Question(r) = NoQuestion /\ Saw(r) = Nothing /\ Did(r) = {} /\ ~ Replied(r)
      BY <2>3 DEF Question, Saw, Did, HasRead, Replied
    <3>3. /\ Question(r)' = NoQuestion /\ Saw(r)' = Nothing /\ Did(r)' = {} /\ ~ Replied(r)'
      BY <3>1 DEF Question, Saw, Did, HasRead, Replied
    <3> QED
      BY <2>2, <3>2, <3>3, SilentMaps
  <2>4. CASE Asking(r)
    <3>1. /\ Asking(r)' /\ Question(r)' = Question(r)
          /\ Asked(r)' = Asked(r) /\ Expected(r)' = Expected(r)
      BY <2>1, <2>2, <2>4, SameQuestion
    <3>2. Saw(r) = Nothing /\ Did(r) = {} /\ ~ Replied(r) /\ DOMAIN Saw(r) = {}
      BY <1>0, Literals DEF Saw, Did, HasRead, Replied
    <3>3. HasRead(r)' /\ Asked(r) \subseteq Uses(kind[r]) /\ pc'[r] # "answered"
      BY <2>1, <2>2, <3>1 DEF HasRead, Asked, Uses
    <3>4. Saw(r)' = [c \in Asked(r) |-> row[actor[r]][c]]
      <4>1. Saw(r)' = [c \in Asked(r) |-> read'[r][c]]
        BY <3>1, <3>3 DEF Saw
      <4> QED
        BY <2>2, <3>3, <4>1
    <3>5. Did(r)' = DOMAIN body[r] \ Dirty(r)'
      BY <2>2, <3>3 DEF Did
    <3>6. \A c \in Did(r)' : body[r][c] = row[actor[r]][c]
      <4>1. \A c \in Did(r)' : c \in DOMAIN read'[r] /\ body[r][c] = read'[r][c]
        BY <2>2, <3>5 DEF Dirty
      <4> QED
        BY <2>2, <4>1
    <3>7. row' = [row EXCEPT ![actor[r]] =
                    [c \in Columns |-> IF c \in Did(r)' THEN body[r][c] ELSE @[c]]]
      <4>1. row \in [Users -> [Columns -> Values]]
        BY DEF IInv, TypeOK
      <4>2. row[actor[r]] =
              [c \in Columns |-> IF c \in Did(r)' THEN body[r][c] ELSE row[actor[r]][c]]
        BY <1>0, <3>6, <4>1
      <4> QED
        BY <1>0, <2>2, <4>1, <4>2
    <3>8. Effective(r, Asked(r), Did(r)')
      <4>1. Saw(r)' = [c \in DOMAIN Saw(r) \cup Asked(r) |->
                         IF c \in Asked(r) THEN row[actor[r]][c] ELSE Saw(r)[c]]
        BY <3>2, <3>4
      <4>2. Did(r)' = Did(r) \cup Did(r)'
        BY <3>2
      <4> QED
        BY <1>2, <3>7, <4>1, <4>2 DEF Effective
    <3>9. /\ Asked(r) \in SUBSET (Asked(r) \ DOMAIN Saw(r))
          /\ Did(r)' \in SUBSET (DOMAIN body[r] \ Did(r))
      BY <3>2, <3>5
    <3>10. Replied(r)' => /\ DOMAIN Saw(r)' = Asked(r)
                          /\ Did(r)' = DOMAIN body[r]
                          /\ \A c \in DOMAIN Expected(r) : Saw(r)'[c] = Expected(r)[c]
      <4> SUFFICES ASSUME Replied(r)'
                   PROVE  /\ DOMAIN Saw(r)' = Asked(r)
                          /\ Did(r)' = DOMAIN body[r]
                          /\ \A c \in DOMAIN Expected(r) : Saw(r)'[c] = Expected(r)[c]
        OBVIOUS
      <4>1. kind[r] = "me"
        BY <2>1, <2>2 DEF Replied
      <4>2. DOMAIN body[r] = {}
        BY <1>0, <4>1, Types DEF Begun
      <4>3. Expected(r) = Nothing
        BY <4>1 DEF Expected
      <4> QED
        BY <3>4, <3>5, <4>2, <4>3, Literals
    <3> QED
      BY <2>2, <2>4, <3>1, <3>2, <3>8, <3>9, <3>10, WorkMaps
  <2> QED
    BY <2>3, <2>4
<1> QED
  BY <1>1, <1>2 DEF Connect

\* What a request in the middle has read and written.
LEMMA HasWhatItAsked ==
  ASSUME IInv, NEW r \in Requests, Asking(r), pc[r] # "connect"
  PROVE  /\ Saw(r) = [c \in Asked(r) |-> read[r][c]] /\ DOMAIN Saw(r) = Asked(r)
         /\ Asked(r) \subseteq Uses(kind[r]) /\ DOMAIN read[r] = Uses(kind[r])
         /\ pc[r] = "answered" => Did(r) = DOMAIN body[r]
         /\ pc[r] # "answered" => Did(r) = DOMAIN body[r] \ Dirty(r)
<1>1. HasRead(r) /\ DOMAIN read[r] = Uses(kind[r])
  BY Types DEF HasRead, Asking, Knows
<1>2. Asked(r) \subseteq Uses(kind[r])
  BY DEF Asked, Uses
<1>3. Saw(r) = [c \in Asked(r) |-> read[r][c]]
  BY <1>1 DEF Saw
<1> QED
  BY <1>1, <1>2, <1>3 DEF Did

\* A request that goes on without reading or writing, and one that fails.
LEMMA AdvanceMaps ==
  ASSUME IInv, NEW r \in Requests, NEW l \in {"commit", "read"}, Advance(r, l),
         pc[r] \in {"reread", "upload"},
         l = "read" /\ Asking(r) => kind[r] = "lookup"
  PROVE  Store!Work(r) \/ UNCHANGED Store!vars
<1>1. /\ pc'[r] = l /\ OthersStay(r)
      /\ UNCHANGED <<users, row, kind, actor, body, given, read, tables>>
  BY Types DEF Advance, Goto, OthersStay, locals, tables
<1>2. Dirty(r)' = Dirty(r) /\ ~ Replied(r)
  BY <1>1 DEF Dirty, Replied
<1>3. CASE ~ Asking(r)
  <2>1. ~ Asking(r)'
    BY <1>1, <1>3 DEF Asking
  <2>2. /\ Question(r) = NoQuestion /\ Saw(r) = Nothing /\ Did(r) = {} /\ ~ Replied(r)
    BY <1>3 DEF Question, Saw, Did, HasRead, Replied
  <2>3. /\ Question(r)' = NoQuestion /\ Saw(r)' = Nothing /\ Did(r)' = {} /\ ~ Replied(r)'
    BY <2>1 DEF Question, Saw, Did, HasRead, Replied
  <2> QED
    BY <1>1, <2>2, <2>3, SilentMaps
<1>4. CASE Asking(r)
  <2>1. /\ Asking(r)' /\ Question(r)' = Question(r)
        /\ Asked(r)' = Asked(r) /\ Expected(r)' = Expected(r)
    BY <1>1, <1>4, SameQuestion
  <2>2. HasRead(r) /\ HasRead(r)'
    BY <1>1, <1>4, <2>1 DEF HasRead
  <2>3. Saw(r)' = Saw(r)
    BY <1>1, <2>1, <2>2 DEF Saw
  <2>4. Did(r)' = Did(r)
    BY <1>1, <1>2, <2>2 DEF Did
  <2>5. Replied(r)' => /\ DOMAIN Saw(r)' = Asked(r)
                       /\ Did(r)' = DOMAIN body[r]
                       /\ \A c \in DOMAIN Expected(r) : Saw(r)'[c] = Expected(r)[c]
    <3> SUFFICES ASSUME Replied(r)'
                 PROVE  /\ DOMAIN Saw(r) = Asked(r)
                        /\ Did(r) = DOMAIN body[r]
                        /\ \A c \in DOMAIN Expected(r) : Saw(r)[c] = Expected(r)[c]
      BY <2>3, <2>4
    <3>1. kind[r] = "lookup"
      BY <1>1, <1>4 DEF Replied
    <3>2. DOMAIN body[r] = {} /\ Expected(r) = Nothing
      BY <3>1, Types DEF Begun, Expected
    <3> QED
      BY <1>4, <3>2, HasWhatItAsked, Literals
  <2> QED
    BY <1>1, <1>2, <1>4, <2>1, <2>3, <2>4, <2>5, WorkMaps
<1> QED
  BY <1>3, <1>4

LEMMA FailMaps ==
  ASSUME IInv, NEW r \in Requests, Fail(r)
  PROVE  Store!Leave(r)
<1>1. pc'[r] = "failed" /\ OthersStay(r) /\ UNCHANGED tables
  BY Types DEF Fail, Goto, OthersStay, locals
<1> QED
  BY <1>1, Leaves

\* The commit writes the columns that were not as they should be when read.
LEMMA CommitMaps ==
  ASSUME IInv, NEW r \in Requests, Commit(r)
  PROVE  Store!Work(r) \/ Store!Leave(r)
<1>1. CASE Fail(r)
  BY <1>1, FailMaps
<1>2. CASE /\ Dirty(r) = {} \/ actor[r] \in users
           /\ row' = [row EXCEPT ![actor[r]] =
                       [c \in Columns |-> IF c \in Dirty(r) THEN body[r][c] ELSE @[c]]]
           /\ Goto(r, "answered")
           /\ UNCHANGED <<users, signedIn, pool, locals>>
  <2>1. /\ pc[r] = "commit" /\ pc'[r] = "answered" /\ OthersStay(r)
        /\ UNCHANGED <<users, kind, actor, body, given, read>>
    BY <1>2, Types DEF Commit, Goto, OthersStay, locals
  <2>2. /\ kind[r] \in {"login", "verify", "update", "change"} /\ Asking(r) /\ ~ Replied(r)
    BY <2>1, Types DEF OnItsWay, Asking, Replied
  <2>3. /\ Asking(r)' /\ Question(r)' = Question(r)
        /\ Asked(r)' = Asked(r) /\ Expected(r)' = Expected(r)
    BY <2>1, <2>2, SameQuestion
  <2>4. HasRead(r) /\ HasRead(r)'
    BY <2>1, <2>2, <2>3 DEF HasRead
  <2>5. Saw(r)' = Saw(r)
    BY <2>1, <2>3, <2>4 DEF Saw
  <2>6. Did(r) = DOMAIN body[r] \ Dirty(r) /\ Did(r)' = DOMAIN body[r]
    BY <2>1, <2>4 DEF Did
  <2>7. Dirty(r) \subseteq DOMAIN body[r]
    BY DEF Dirty
  <2>8. \/ row' = row /\ Saw(r)' = Saw(r) /\ Did(r)' = Did(r)
        \/ \E R \in SUBSET (Asked(r) \ DOMAIN Saw(r)) :
             \E W \in SUBSET (DOMAIN body[r] \ Did(r)) : Effective(r, R, W)
    <3>1. CASE Dirty(r) = {}
      <4>1. row \in [Users -> [Columns -> Values]] /\ actor[r] \in Users
        BY <2>1, CommitTypes DEF IInv, TypeOK
      <4>2. row[actor[r]] =
              [c \in Columns |-> IF c \in Dirty(r) THEN body[r][c] ELSE row[actor[r]][c]]
        BY <3>1, <4>1
      <4>3. row' = row
        BY <1>2, <4>1, <4>2
      <4> QED
        BY <2>5, <2>6, <3>1, <4>3
    <3>2. CASE actor[r] \in users
      <4>1. Saw(r)' = [c \in DOMAIN Saw(r) \cup {} |->
                         IF c \in {} THEN row[actor[r]][c] ELSE Saw(r)[c]]
        <5>1. Saw(r) = [c \in DOMAIN Saw(r) |-> Saw(r)[c]]
          BY <2>1, <2>2, HasWhatItAsked
        <5> QED
          BY <2>5, <5>1
      <4>2. Did(r)' = Did(r) \cup Dirty(r)
        BY <2>6, <2>7
      <4>3. Effective(r, {}, Dirty(r))
        BY <1>2, <3>2, <4>1, <4>2 DEF Effective
      <4>4. Dirty(r) \in SUBSET (DOMAIN body[r] \ Did(r))
        BY <2>6, <2>7
      <4>5. {} \in SUBSET (Asked(r) \ DOMAIN Saw(r))
        OBVIOUS
      <4> QED
        BY <4>3, <4>4, <4>5
    <3> QED
      BY <1>2, <3>1, <3>2
  <2>9. /\ DOMAIN Saw(r) = Asked(r)
        /\ \A c \in DOMAIN Expected(r) : Saw(r)[c] = Expected(r)[c]
    <3>1. /\ Saw(r) = [c \in Asked(r) |-> read[r][c]] /\ DOMAIN Saw(r) = Asked(r)
      BY <2>1, <2>2, HasWhatItAsked
    <3>2. CASE kind[r] = "login"
      <4>1. Expected(r) = [c \in {"password", "active"} |-> IF c = "active" THEN 1 ELSE given[r]]
        BY <3>2 DEF Expected
      <4>2. DOMAIN body[r] = {"login"} /\ read[r]["password"] = given[r] /\ read[r]["active"] = 1
        BY <2>1, <3>2, Types DEF Begun, Knows
      <4>3. Asked(r) = {"password", "active"}
        BY <3>2, <4>2 DEF Asked, Uses
      <4> QED
        BY <3>1, <4>1, <4>2, <4>3
    <3>3. CASE kind[r] = "change"
      <4>1. Expected(r) = Set("password", given[r]) /\ Asked(r) = {"password"}
        BY <3>3 DEF Expected, Asked
      <4>2. read[r]["password"] = given[r]
        BY <2>1, <3>3, Types DEF Knows
      <4> QED
        BY <3>1, <4>1, <4>2 DEF Set
    <3>4. CASE kind[r] \in {"verify", "update"}
      <4>1. DOMAIN Expected(r) = {}
        BY <3>4, Literals DEF Expected
      <4> QED
        BY <3>1, <4>1
    <3> QED
      BY <2>2, <3>2, <3>3, <3>4
  <2> QED
    BY <2>1, <2>2, <2>3, <2>5, <2>6, <2>8, <2>9, WorkMaps
<1> QED
  BY <1>1, <1>2 DEF Commit

LEMMA InitMaps == Init => Store!Init
<1> SUFFICES ASSUME Init PROVE Store!Init
  OBVIOUS
<1>1. \A r \in Requests : /\ Question(r) = NoQuestion /\ Saw(r) = Nothing /\ Did(r) = {}
                          /\ ~ Replied(r)
  BY DEF Init, Question, Saw, Did, HasRead, Asking, Replied
<1>2. row \in [Users -> [Columns -> Values]]
  BY AccountsAssumption DEF Init
<1>3. /\ [r \in Requests |-> Question(r)] = [r \in Requests |-> NoQuestion]
      /\ [r \in Requests |-> Saw(r)] = [r \in Requests |-> Nothing]
      /\ [r \in Requests |-> Did(r)] = [r \in Requests |-> {}]
  BY <1>1
<1>4. {r \in Requests : Asking(r) /\ pc[r] \in {"read", "answered"}} = {}
  BY <1>1 DEF Replied
<1> QED
  BY <1>2, <1>3, <1>4 DEF Init, Store!Init, Store!Nothing, Nothing

\* The deletion of an account closes it; nothing was asked of its request.
LEMMA DeleteMaps ==
  ASSUME IInv, NEW r \in Requests, DeleteAccount(r)
  PROVE  Store!Leave(r) \/ \E u \in Users : Store!Close(u)
<1>1. CASE Fail(r)
  BY <1>1, FailMaps
<1>2. CASE /\ users' = users \ {actor[r]}
           /\ Goto(r, "answered")
           /\ UNCHANGED <<row, signedIn, pool, locals>>
  <2>1. /\ pc[r] = "delete" /\ pc'[r] = "answered" /\ OthersStay(r)
        /\ UNCHANGED <<kind, actor, body, given, read>>
    BY <1>2, Types DEF DeleteAccount, Goto, OthersStay, locals
  <2>2. kind[r] = "delete" /\ actor[r] \in Users
    BY <2>1, Types DEF OnItsWay, Begun
  <2>3. \A q \in Requests :
          /\ Question(q)' = Question(q) /\ Saw(q)' = Saw(q) /\ Did(q)' = Did(q)
          /\ Replied(q)' <=> Replied(q)
    <3>1. ~ Asking(r) /\ ~ Asking(r)'
      BY <2>1, <2>2 DEF Asking
    <3>2. /\ Question(r) = NoQuestion /\ Saw(r) = Nothing /\ Did(r) = {} /\ ~ Replied(r)
      BY <3>1 DEF Question, Saw, Did, HasRead, Replied
    <3>3. /\ Question(r)' = NoQuestion /\ Saw(r)' = Nothing /\ Did(r)' = {} /\ ~ Replied(r)'
      BY <3>1 DEF Question, Saw, Did, HasRead, Replied
    <3> QED
      BY <2>1, <3>2, <3>3, OthersMap
  <2>4. /\ [q \in Requests |-> Question(q)]' = [q \in Requests |-> Question(q)]
        /\ [q \in Requests |-> Saw(q)]' = [q \in Requests |-> Saw(q)]
        /\ [q \in Requests |-> Did(q)]' = [q \in Requests |-> Did(q)]
    BY <2>3
  <2>5. {q \in Requests : Asking(q) /\ pc[q] \in {"read", "answered"}}'
          = {q \in Requests : Asking(q) /\ pc[q] \in {"read", "answered"}}
    BY <2>3 DEF Replied
  <2> QED
    BY <1>2, <2>2, <2>4, <2>5 DEF Store!Close
<1> QED
  BY <1>1, <1>2 DEF DeleteAccount

\* Column by column, requests are atomic: each column in an answer was read,
\* and each one set was written, at one instant between question and answer,
\* and none by a request that did not set it.
THEOREM Refinement == Spec => ImplementsColumnStore
<1>1. IInv /\ IInv' /\ [Next]_vars => [Store!Next]_(Store!vars)
  <2>1. ASSUME IInv, NEW r \in Requests, Finish(r) \/ Crash(r) \/ TimeOut(r)
        PROVE  Store!Leave(r)
    <3>1. pc'[r] = "idle" /\ OthersStay(r) /\ UNCHANGED tables
      BY <2>1, Types DEF Finish, Crash, TimeOut, Reset, Goto, OthersStay
    <3> QED
      BY <2>1, <3>1, Leaves
  <2>2. ASSUME IInv, NEW r \in Requests, Reread(r)
        PROVE  Store!Work(r) \/ Store!Leave(r) \/ UNCHANGED Store!vars
    BY <2>2, FailMaps, AdvanceMaps DEF Reread
  <2>3. ASSUME IInv, NEW r \in Requests, Upload(r)
        PROVE  Store!Work(r) \/ Store!Leave(r) \/ UNCHANGED Store!vars
    <3>1. pc[r] = "upload" /\ ~ Asking(r)
      BY <2>3, Types DEF Upload, OnItsWay, Asking
    <3> QED
      BY <2>3, <3>1, FailMaps, AdvanceMaps DEF Upload
  <2>4. ASSUME IInv, IInv', NEW r \in Requests, NEW u \in Users,
               \/ BeginLogin(r, u) \/ BeginVerify(r, u) \/ BeginUpdate(r, u)
               \/ BeginChange(r, u) \/ BeginOther(r, u)
        PROVE  Store!Ask(r) \/ UNCHANGED Store!vars
    BY <2>4, BeginMaps DEF BeginLogin, BeginVerify, BeginUpdate, BeginChange, BeginOther
  <2>5. ASSUME UNCHANGED vars
        PROVE  UNCHANGED Store!vars
    <3>1. UNCHANGED <<users, row, signedIn, pool, pc, kind, actor, body, given, read>>
      BY <2>5 DEF vars, tables, locals
    <3>2. \A r \in Requests : OthersStay(r) /\ UNCHANGED tables
      BY <3>1 DEF OthersStay, tables
    <3> QED
      BY <3>1 DEF Store!vars, Question, Saw, Did, Asking, HasRead, Asked, Expected, Dirty
  <2>6. ASSUME IInv, IInv', Next
        PROVE  Store!Next \/ UNCHANGED Store!vars
    BY <2>1, <2>2, <2>3, <2>4, <2>6, ConnectMaps, CommitMaps, DeleteMaps DEF Next, Step, Store!Next
  <2> QED
    BY <2>5, <2>6
<1> QED
  BY <1>1, InitMaps, Invariance, PTL DEF Spec, ImplementsColumnStore, Store!Spec

-----------------------------------------------------------------------------

IsActive(u) == row[u]["active"] = 1

\* No request but verify_email writes is_active, and that only sets it: a
\* commit of any other leaves the column as it is in the table, whatever was
\* in the object that it read.
VerifiedStaysVerified == [][\A u \in Users : IsActive(u) => IsActive(u)']_vars

\* An access token is only ever sent to a user whose address is verified when
\* it is sent, and it stays so for as long as the token is used.
SignedInAreActive == \A u \in signedIn : IsActive(u)

\* login has seen the column set, and nothing has reset it since.
AdmittedAreActive ==
  \A r \in Requests :
    pc[r] \in {"commit", "answered"} /\ kind[r] = "login" => IsActive(actor[r])

LEMMA CommitKeepsActive ==
  ASSUME IInv, NEW r \in Requests, Commit(r), NEW u \in Users, IsActive(u)
  PROVE  row'[u]["active"] = 1
<1>0. pc[r] = "commit" /\ "active" \in Columns
  BY DEF Commit, Columns
<1>1. /\ kind[r] \in {"login", "verify", "update", "change"}
      /\ kind[r] = "login" => DOMAIN body[r] = {"login"}
      /\ kind[r] = "verify" => body[r]["active"] = 1
      /\ kind[r] = "change" => DOMAIN body[r] = {"password"}
      /\ kind[r] = "update" => DOMAIN body[r] \subseteq Profile
  BY <1>0 DEF IInv, Begun, OnItsWay
<1>2. "active" \in Dirty(r) => body[r]["active"] = 1
  BY <1>1 DEF Dirty, Profile
<1>3. row \in [Users -> [Columns -> Values]]
  BY DEF IInv, TypeOK
<1>4. CASE Fail(r)
  BY <1>4 DEF Fail, tables, IsActive
<1>5. CASE row' = [row EXCEPT ![actor[r]] =
                     [c \in Columns |-> IF c \in Dirty(r) THEN body[r][c] ELSE @[c]]]
  <2>1. CASE u = actor[r]
    <3>1. row'[u] = [c \in Columns |-> IF c \in Dirty(r) THEN body[r][c] ELSE row[u][c]]
      BY <1>3, <1>5, <2>1
    <3> QED
      BY <1>0, <1>2, <3>1 DEF IsActive
  <2>2. CASE u # actor[r]
    BY <1>3, <1>5, <2>2 DEF IsActive
  <2> QED
    BY <2>1, <2>2
<1> QED
  BY <1>4, <1>5 DEF Commit

\* Nothing but a commit changes a row.
LEMMA RowChangesAtCommit ==
  ASSUME [Next]_vars
  PROVE  row' = row \/ \E r \in Requests : Commit(r)
<1>1. CASE UNCHANGED vars
  BY <1>1 DEF vars, tables
<1>2. ASSUME NEW r \in Requests, NEW u \in Users,
             \/ BeginLogin(r, u) \/ BeginVerify(r, u) \/ BeginUpdate(r, u)
             \/ BeginChange(r, u) \/ BeginOther(r, u)
      PROVE  row' = row
  BY <1>2 DEF BeginLogin, BeginVerify, BeginUpdate, BeginChange, BeginOther, Begin, tables
<1>3. ASSUME NEW r \in Requests, Step(r), ~ Commit(r)
      PROVE  row' = row
  BY <1>3 DEF Step, Connect, Reread, Upload, DeleteAccount, Finish, Reset, Advance, Fail, tables
<1>4. ASSUME NEW r \in Requests, Crash(r) \/ TimeOut(r)
      PROVE  row' = row
  BY <1>4 DEF Crash, TimeOut, Reset, tables
<1> QED
  BY <1>1, <1>2, <1>3, <1>4 DEF Next

LEMMA ActiveStays ==
  IInv /\ [Next]_vars => \A u \in Users : IsActive(u) => IsActive(u)'
<1>1. ASSUME IInv, [Next]_vars, NEW u \in Users, IsActive(u)
      PROVE  row'[u]["active"] = 1
  BY <1>1, CommitKeepsActive, RowChangesAtCommit DEF IsActive
<1> QED
  BY <1>1 DEF IsActive

\* No later request takes the verification of an address back.
THEOREM NobodyIsUnverified == Spec => VerifiedStaysVerified
<1>1. IInv /\ [Next]_vars => [\A u \in Users : IsActive(u) => IsActive(u)']_vars
  BY ActiveStays
<1> QED
  BY <1>1, Invariance, PTL DEF Spec, VerifiedStaysVerified

\* A login on its way to the answer was so before, or has just been admitted.
LEMMA LoginWasAdmitted ==
  ASSUME IInv, [Next]_vars, NEW q \in Requests,
         pc'[q] \in {"commit", "answered"}, kind'[q] = "login"
  PROVE  /\ actor'[q] = actor[q]
         /\ \/ pc[q] \in {"commit", "answered"} /\ kind[q] = "login"
            \/ IsActive(actor[q])
<1> DEFINE Goal == /\ actor'[q] = actor[q]
                   /\ \/ pc[q] \in {"commit", "answered"} /\ kind[q] = "login"
                      \/ IsActive(actor[q])
<1>1. CASE UNCHANGED vars
  BY <1>1 DEF vars, locals
<1>2. ASSUME NEW r \in Requests, NEW u \in Users,
             \/ BeginLogin(r, u) \/ BeginVerify(r, u) \/ BeginUpdate(r, u)
             \/ BeginChange(r, u) \/ BeginOther(r, u)
      PROVE  Goal
  <2>1. PICK k, b, p : Begin(r, k, u, b, p)
    BY <1>2 DEF BeginLogin, BeginVerify, BeginUpdate, BeginChange, BeginOther
  <2> QED
    BY <2>1, Types DEF Begin, Goto
<1>3. ASSUME NEW r \in Requests, Connect(r)
      PROVE  Goal
  <2>1. actor' = actor /\ kind' = kind
    BY <1>3 DEF Connect, Fail, locals
  <2>2. CASE q # r
    BY <1>3, <2>1, <2>2, Types DEF Connect, Fail, Goto
  <2>3. CASE q = r
    BY <1>3, <2>1, <2>3, Types DEF Connect, Fail, Goto, Admitted, IsActive
  <2> QED
    BY <2>2, <2>3
<1>4. ASSUME NEW r \in Requests, Reread(r) \/ Commit(r) \/ Upload(r) \/ DeleteAccount(r)
      PROVE  Goal
  <2>1. actor' = actor /\ kind' = kind
    BY <1>4 DEF Reread, Commit, Upload, DeleteAccount, Advance, Fail, locals
  <2>2. CASE q # r
    BY <1>4, <2>1, <2>2, Types
       DEF Reread, Commit, Upload, DeleteAccount, Advance, Fail, Goto
  <2>3. CASE q = r
    BY <1>4, <2>1, <2>3, Types
       DEF Reread, Commit, Upload, DeleteAccount, Advance, Fail, Goto, OnItsWay
  <2> QED
    BY <2>2, <2>3
<1>5. ASSUME NEW r \in Requests, Finish(r) \/ Crash(r) \/ TimeOut(r)
      PROVE  Goal
  BY <1>5, Types DEF Finish, Crash, TimeOut, Reset, Goto
<1> QED
  BY <1>1, <1>2, <1>3, <1>4, <1>5 DEF Next, Step

LEMMA AdmittedStay ==
  IInv /\ IInv' /\ [Next]_vars /\ AdmittedAreActive => AdmittedAreActive'
<1> SUFFICES ASSUME IInv, IInv', [Next]_vars, AdmittedAreActive, NEW q \in Requests,
                    pc'[q] \in {"commit", "answered"}, kind'[q] = "login"
             PROVE  row'[actor'[q]]["active"] = 1
  BY DEF AdmittedAreActive, IsActive
<1>1. actor'[q] \in Users
  BY DEF IInv, Begun
<1>2. actor'[q] = actor[q] /\ IsActive(actor[q])
  BY LoginWasAdmitted DEF AdmittedAreActive
<1> QED
  BY <1>1, <1>2, ActiveStays DEF IsActive

\* A token leaves with the answer to a login.
LEMMA SignedInStay ==
  IInv /\ [Next]_vars /\ AdmittedAreActive /\ SignedInAreActive => SignedInAreActive'
<1> SUFFICES ASSUME IInv, [Next]_vars, AdmittedAreActive, SignedInAreActive,
                    NEW u \in signedIn'
             PROVE  row'[u]["active"] = 1
  BY DEF SignedInAreActive, IsActive
<1>1. u \in signedIn \/ \E r \in Requests : /\ pc[r] = "answered" /\ kind[r] = "login"
                                           /\ u = actor[r]
  <2>1. ASSUME NEW r \in Requests, Finish(r)
        PROVE  u \in signedIn \/ (pc[r] = "answered" /\ kind[r] = "login" /\ u = actor[r])
    BY <2>1 DEF Finish
  <2>2. ASSUME NEW r \in Requests, ~ Finish(r), Step(r) \/ Crash(r) \/ TimeOut(r)
        PROVE  signedIn' = signedIn
    BY <2>2 DEF Step, Connect, Reread, Commit, Upload, DeleteAccount, Advance, Fail,
                Crash, TimeOut
  <2>3. ASSUME NEW r \in Requests, NEW v \in Users,
               \/ BeginLogin(r, v) \/ BeginVerify(r, v) \/ BeginUpdate(r, v)
               \/ BeginChange(r, v) \/ BeginOther(r, v)
        PROVE  signedIn' = signedIn
    BY <2>3 DEF BeginLogin, BeginVerify, BeginUpdate, BeginChange, BeginOther, Begin
  <2>4. CASE UNCHANGED vars
    BY <2>4 DEF vars
  <2> QED
    BY <2>1, <2>2, <2>3, <2>4 DEF Next
<1>2. u \in Users /\ IsActive(u)
  BY <1>1, Types DEF IInv, TypeOK, Begun, SignedInAreActive, AdmittedAreActive
<1> QED
  BY <1>2, ActiveStays DEF IsActive

\* Whoever has an access token has proved the address, however the commits of
\* logins, verifications and changes of the profile interleave.
THEOREM TokensAreOfTheVerified == Spec => []SignedInAreActive
<1>1. Init => AdmittedAreActive /\ SignedInAreActive
  BY DEF Init, AdmittedAreActive, SignedInAreActive
<1> QED
  BY <1>1, AdmittedStay, SignedInStay, Invariance, PTL DEF Spec

=============================================================================
