------------------------- MODULE RegistrationProofs -------------------------
(***************************************************************************)
(* Proofs about module Registration, for any number of addresses, codes    *)
(* and requests.                                                           *)
(***************************************************************************)
EXTENDS Registration, TLAPS

-----------------------------------------------------------------------------
(* The inductive invariant. *)

Born(a) == a \in Accounts /\ email[a] # NoEmail

\* Whoever is verified has no way back: the id of a deleted user is not used
\* again.
Settled(a) == a \in active \/ (Born(a) /\ a \notin users)

\* However registrations interleave, an address has one account.
OneAccountPerEmail ==
  \A a, b \in users : a # b => email[a] # email[b]

\* Ids are given out once, digits with them.
IdsAreUsedOnce ==
  /\ \A a \in users : email[a] # NoEmail
  /\ \A k \in Rows :
       \/ owner[k] = NoAccount /\ value[k] = NoValue
       \/ Born(owner[k]) /\ value[k] # NoValue
  /\ \A k \in sent : owner[k] # NoAccount

\* The code of a mail, sent or about to be, is stored.
StoredOrSettled(k) == k \in codes \/ Settled(owner[k])

MailsAreOfStoredCodes ==
  /\ \A k \in sent : StoredOrSettled(k)
  /\ \A r \in Requests : pc[r] = "mail" =>
       row[r] \in Rows /\ owner[row[r]] # NoAccount /\ StoredOrSettled(row[r])

DeletePCs == {"deleteCodes", "redelete", "dropCodes", "deleteUser"}

RequestsKnow ==
  \A r \in Requests :
    /\ pc[r] \in Verifying => Born(account[r]) /\ typed[r] \in Values
    /\ pc[r] = "insertUser" => address[r] \in Emails
    /\ pc[r] = "insertCode" => Born(account[r])
    /\ pc[r] \in {"reread", "redelete", "dropCodes", "deleteUser"} => Settled(account[r])
    /\ pc[r] \in DeletePCs => \A k \in seen[r] : owner[k] = account[r]
    /\ pc[r] = "deleteCodes" =>
         account[r] \in users /\ CodesOf(account[r]) \ seen[r] \subseteq raced

IInv ==
  /\ TypeOK
  /\ IdsAreUsedOnce
  /\ MailsAreOfStoredCodes
  /\ RequestsKnow
  /\ OneAccountPerEmail
  /\ InactiveHasCode
  /\ LeftoversComeFromRaces

LEMMA InitIInv == Init => IInv
<1> SUFFICES ASSUME Init
             PROVE  IInv
  OBVIOUS
<1>1. TypeOK
  BY DEF Init, TypeOK, PCs
<1>2. IdsAreUsedOnce
  <2>1. \A k \in Rows : owner[k] = NoAccount /\ value[k] = NoValue
    BY DEF Init
  <2>2. users = {} /\ sent = {}
    BY DEF Init
  <2> QED
    BY <2>1, <2>2 DEF IdsAreUsedOnce
<1>3. MailsAreOfStoredCodes /\ RequestsKnow
  BY DEF Init, MailsAreOfStoredCodes, RequestsKnow, Verifying, DeletePCs
<1>4. OneAccountPerEmail /\ InactiveHasCode /\ LeftoversComeFromRaces
  BY DEF Init, OneAccountPerEmail, InactiveHasCode, LeftoversComeFromRaces
<1> QED
  BY <1>1, <1>2, <1>3, <1>4 DEF IInv

-----------------------------------------------------------------------------
(* Steps that leave the tables alone. *)

\* A request that is over knows nothing any more.
LEMMA ReleaseIdles ==
  ASSUME NEW r \in Requests, TypeOK, Release(r)
  PROVE  /\ pc' = [pc EXCEPT ![r] = "idle"]
         /\ pc' \in [Requests -> PCs]
         /\ address' \in [Requests -> Emails \cup {NoEmail}]
         /\ account' \in [Requests -> Accounts \cup {NoAccount}]
         /\ row' \in [Requests -> Rows \cup {NoRow}]
         /\ typed' \in [Requests -> Values \cup {NoValue}]
         /\ seen' \in [Requests -> SUBSET Rows]
         /\ \A q \in Requests \ {r} :
              /\ pc'[q] = pc[q] /\ address'[q] = address[q]
              /\ account'[q] = account[q] /\ row'[q] = row[q]
              /\ typed'[q] = typed[q] /\ seen'[q] = seen[q]
BY DEF Release, Goto, TypeOK, PCs

\* A step of one request that changes no table and has established what
\* RequestsKnow and MailsAreOfStoredCodes say of where it goes.
LEMMA LocalKeeps ==
  ASSUME IInv, NEW r \in Requests, UNCHANGED <<userRows, codeRows, sent>>,
         pc' \in [Requests -> PCs],
         address' \in [Requests -> Emails \cup {NoEmail}],
         account' \in [Requests -> Accounts \cup {NoAccount}],
         row' \in [Requests -> Rows \cup {NoRow}],
         typed' \in [Requests -> Values \cup {NoValue}],
         seen' \in [Requests -> SUBSET Rows],
         \A q \in Requests \ {r} :
           /\ pc'[q] = pc[q] /\ address'[q] = address[q]
           /\ account'[q] = account[q] /\ row'[q] = row[q]
           /\ typed'[q] = typed[q] /\ seen'[q] = seen[q],
         pc'[r] # "mail",
         pc'[r] \in Verifying => Born(account'[r]) /\ typed'[r] \in Values,
         pc'[r] = "insertUser" => address'[r] \in Emails,
         pc'[r] = "insertCode" => Born(account'[r]),
         pc'[r] \in {"reread", "redelete", "dropCodes", "deleteUser"}
           => Settled(account'[r]),
         pc'[r] \in DeletePCs => \A k \in seen'[r] : owner[k] = account'[r],
         pc'[r] = "deleteCodes" =>
           account'[r] \in users /\ CodesOf(account'[r]) \ seen'[r] \subseteq raced
  PROVE  IInv'
<1>1. UNCHANGED <<users, email, active, codes, owner, value, fresh, raced, sent>>
  BY DEF userRows, codeRows
<1>2. /\ \A a : /\ Born(a)' <=> Born(a)
                /\ Settled(a)' <=> Settled(a)
                /\ CodesOf(a)' = CodesOf(a)
      /\ \A k : StoredOrSettled(k)' <=> StoredOrSettled(k)
  BY <1>1 DEF Born, Settled, CodesOf, StoredOrSettled
<1>3. TypeOK'
  BY <1>1 DEF IInv, TypeOK
<1>4. IdsAreUsedOnce' /\ OneAccountPerEmail' /\ InactiveHasCode'
        /\ LeftoversComeFromRaces'
  BY <1>1 DEF IInv, IdsAreUsedOnce, OneAccountPerEmail, InactiveHasCode,
       LeftoversComeFromRaces, CodesOf, Born
<1>5. MailsAreOfStoredCodes'
  BY <1>1, <1>2 DEF IInv, MailsAreOfStoredCodes
<1>6. RequestsKnow'
  <2> SUFFICES ASSUME NEW q \in Requests
               PROVE
    /\ pc'[q] \in Verifying => Born(account'[q]) /\ typed'[q] \in Values
    /\ pc'[q] = "insertUser" => address'[q] \in Emails
    /\ pc'[q] = "insertCode" => Born(account'[q])
    /\ pc'[q] \in {"reread", "redelete", "dropCodes", "deleteUser"}
         => Settled(account'[q])
    /\ pc'[q] \in DeletePCs => \A k \in seen'[q] : owner[k] = account'[q]
    /\ pc'[q] = "deleteCodes" =>
         account'[q] \in users /\ CodesOf(account'[q]) \ seen'[q] \subseteq raced
    BY <1>1, <1>2 DEF RequestsKnow
  <2>1. CASE q = r
    BY <2>1
  <2>2. CASE q # r
    BY <2>2 DEF IInv, RequestsKnow
  <2> QED
    BY <2>1, <2>2
<1> QED
  BY <1>3, <1>4, <1>5, <1>6 DEF IInv

LEMMA FailKeeps ==
  ASSUME IInv, NEW r \in Requests, Fail(r)
  PROVE  IInv'
<1>1. TypeOK /\ Release(r) /\ UNCHANGED <<userRows, codeRows, sent>>
  BY DEF Fail, IInv
<1>2. pc'[r] = "idle"
  BY <1>1, ReleaseIdles DEF TypeOK
<1> QED
  BY <1>1, <1>2, ReleaseIdles, LocalKeeps DEF Verifying, DeletePCs

LEMMA BeginKeeps ==
  ASSUME IInv, NEW r \in Requests,
         (\E e \in Emails : BeginRegister(r, e)) \/ (\E a \in Accounts : BeginResend(r, a))
  PROVE  IInv'
<1>1. /\ UNCHANGED <<userRows, codeRows, sent, row, typed, seen>>
      /\ address' \in [Requests -> Emails \cup {NoEmail}]
      /\ account' \in [Requests -> Accounts \cup {NoAccount}]
      /\ \A q \in Requests \ {r} : address'[q] = address[q] /\ account'[q] = account[q]
      /\ \/ /\ pc' = [pc EXCEPT ![r] = "insertUser"]
            /\ address'[r] \in Emails
         \/ /\ pc' = [pc EXCEPT ![r] = "insertCode"]
            /\ Born(account'[r])
  <2>1. TypeOK /\ \A a \in users : Born(a)
    BY DEF IInv, TypeOK, IdsAreUsedOnce, Born
  <2>2. CASE \E e \in Emails : BeginRegister(r, e)
    BY <2>1, <2>2 DEF BeginRegister, Goto, TypeOK
  <2>3. CASE \E a \in Accounts : BeginResend(r, a)
    <3>1. PICK a \in Accounts : BeginResend(r, a)
      BY <2>3
    <3>2. Born(account'[r])
      BY <2>1, <3>1 DEF BeginResend, TypeOK, Born
    <3> QED
      BY <2>1, <3>1, <3>2 DEF BeginResend, Goto, TypeOK
  <2> QED
    BY <2>2, <2>3
<1>2. /\ pc' \in [Requests -> PCs]
      /\ \A q \in Requests \ {r} : pc'[q] = pc[q]
      /\ \/ pc'[r] = "insertUser" /\ address'[r] \in Emails
         \/ pc'[r] = "insertCode" /\ Born(account'[r])
  BY <1>1 DEF IInv, TypeOK, PCs
<1>3. /\ row \in [Requests -> Rows \cup {NoRow}]
      /\ typed \in [Requests -> Values \cup {NoValue}]
      /\ seen \in [Requests -> SUBSET Rows]
  BY DEF IInv, TypeOK
<1> QED
  BY <1>1, <1>2, <1>3, LocalKeeps DEF Verifying, DeletePCs

LEMMA FindCodeKeeps ==
  ASSUME IInv, NEW r \in Requests, NEW c \in Values, FindCode(r, c)
  PROVE  IInv'
<1>1. CASE Fail(r)
  BY <1>1, FailKeeps
<1>2. CASE ~ Fail(r)
  <2>1. PICK k \in Rows :
          /\ Matches(c) = {k}
          /\ row' = [row EXCEPT ![r] = k]
          /\ account' = [account EXCEPT ![r] = owner[k]]
          /\ typed' = [typed EXCEPT ![r] = c]
          /\ pc' = [pc EXCEPT ![r] = "readUser"]
          /\ UNCHANGED <<userRows, codeRows, sent, address, seen>>
    BY <1>2 DEF FindCode, Goto
  <2>2. k \in codes /\ owner[k] \in users
    BY <2>1 DEF Matches, IInv, TypeOK
  <2>3. Born(owner[k])
    BY <2>2 DEF IInv, TypeOK, IdsAreUsedOnce, Born
  <2>4. /\ pc' \in [Requests -> PCs] /\ pc'[r] = "readUser"
        /\ row' \in [Requests -> Rows \cup {NoRow}]
        /\ account' \in [Requests -> Accounts \cup {NoAccount}] /\ account'[r] = owner[k]
        /\ typed' \in [Requests -> Values \cup {NoValue}] /\ typed'[r] = c
        /\ \A q \in Requests \ {r} :
             /\ pc'[q] = pc[q] /\ account'[q] = account[q]
             /\ row'[q] = row[q] /\ typed'[q] = typed[q]
    BY <2>1 DEF IInv, TypeOK, PCs
  <2>5. /\ address \in [Requests -> Emails \cup {NoEmail}]
        /\ seen \in [Requests -> SUBSET Rows]
    BY DEF IInv, TypeOK
  <2> QED
    BY <2>1, <2>3, <2>4, <2>5, LocalKeeps DEF Verifying, DeletePCs
<1> QED
  BY <1>1, <1>2

LEMMA ReadUserKeeps ==
  ASSUME IInv, NEW r \in Requests, ReadUser(r)
  PROVE  IInv'
<1>1. CASE Fail(r)
  BY <1>1, FailKeeps
<1>2. CASE ~ Fail(r)
  <2>1. /\ pc[r] = "readUser" /\ account[r] \in users
        /\ pc' = [pc EXCEPT ![r] = IF account[r] \in active THEN "reread" ELSE "activate"]
        /\ UNCHANGED <<userRows, codeRows, sent, address, account, row, typed, seen>>
    BY <1>2 DEF ReadUser, Goto
  <2>2. Born(account[r]) /\ typed[r] \in Values
    BY <2>1 DEF IInv, RequestsKnow, Verifying
  <2>3. /\ pc' \in [Requests -> PCs]
        /\ \A q \in Requests \ {r} : pc'[q] = pc[q]
        /\ \/ pc'[r] = "reread" /\ account[r] \in active
           \/ pc'[r] = "activate"
    BY <2>1 DEF IInv, TypeOK, PCs
  <2>4. /\ address \in [Requests -> Emails \cup {NoEmail}]
        /\ account \in [Requests -> Accounts \cup {NoAccount}]
        /\ row \in [Requests -> Rows \cup {NoRow}]
        /\ typed \in [Requests -> Values \cup {NoValue}]
        /\ seen \in [Requests -> SUBSET Rows]
    BY DEF IInv, TypeOK
  <2> QED
    BY <2>1, <2>2, <2>3, <2>4, LocalKeeps DEF Settled, DeletePCs
<1> QED
  BY <1>1, <1>2

LEMMA SelectCodesKeeps ==
  ASSUME IInv, NEW r \in Requests, Activate(r) \/ Reread(r)
  PROVE  IInv'
<1>1. CASE Fail(r)
  BY <1>1, FailKeeps
<1>2. CASE ~ Fail(r)
  <2>1. /\ \/ /\ pc[r] = "activate" /\ pc' = [pc EXCEPT ![r] = "deleteCodes"]
              /\ account[r] \in users
           \/ pc[r] = "reread" /\ pc' = [pc EXCEPT ![r] = "redelete"]
        /\ seen' = [seen EXCEPT ![r] = CodesOf(account[r])]
        /\ UNCHANGED <<userRows, codeRows, sent, address, account, row, typed>>
    BY <1>2 DEF Activate, Reread, Goto
  <2>2. /\ Born(account[r]) /\ typed[r] \in Values
        /\ pc[r] = "reread" => Settled(account[r])
    BY <2>1 DEF IInv, RequestsKnow, Verifying
  <2>3. /\ pc' \in [Requests -> PCs]
        /\ seen' \in [Requests -> SUBSET Rows] /\ seen'[r] = CodesOf(account[r])
        /\ \A q \in Requests \ {r} : pc'[q] = pc[q] /\ seen'[q] = seen[q]
        /\ \/ pc'[r] = "deleteCodes" /\ account[r] \in users
           \/ pc'[r] = "redelete" /\ Settled(account[r])
    BY <2>1, <2>2 DEF IInv, TypeOK, PCs, CodesOf
  <2>4. \A k \in seen'[r] : owner[k] = account[r]
    BY <2>3 DEF CodesOf
  <2>5. /\ address \in [Requests -> Emails \cup {NoEmail}]
        /\ account \in [Requests -> Accounts \cup {NoAccount}]
        /\ row \in [Requests -> Rows \cup {NoRow}]
        /\ typed \in [Requests -> Values \cup {NoValue}]
    BY DEF IInv, TypeOK
  <2> QED
    BY <2>1, <2>2, <2>3, <2>4, <2>5, LocalKeeps DEF Verifying, DeletePCs
<1> QED
  BY <1>1, <1>2

LEMMA BeginDeleteKeeps ==
  ASSUME IInv, NEW r \in Requests, NEW a \in Accounts, BeginDelete(r, a)
  PROVE  IInv'
<1>1. /\ a \in active
      /\ account' = [account EXCEPT ![r] = a]
      /\ seen' = [seen EXCEPT ![r] = CodesOf(a)]
      /\ pc' = [pc EXCEPT ![r] = "dropCodes"]
      /\ UNCHANGED <<userRows, codeRows, sent, address, row, typed>>
  BY DEF BeginDelete, Goto
<1>2. /\ pc' \in [Requests -> PCs] /\ pc'[r] = "dropCodes"
      /\ account' \in [Requests -> Accounts \cup {NoAccount}] /\ account'[r] = a
      /\ seen' \in [Requests -> SUBSET Rows] /\ seen'[r] = CodesOf(a)
      /\ \A q \in Requests \ {r} :
           pc'[q] = pc[q] /\ account'[q] = account[q] /\ seen'[q] = seen[q]
  BY <1>1 DEF IInv, TypeOK, PCs, CodesOf
<1>3. /\ Settled(a) /\ \A k \in seen'[r] : owner[k] = a
      /\ address \in [Requests -> Emails \cup {NoEmail}]
      /\ row \in [Requests -> Rows \cup {NoRow}]
      /\ typed \in [Requests -> Values \cup {NoValue}]
  BY <1>1, <1>2 DEF Settled, CodesOf, IInv, TypeOK
<1> QED
  BY <1>1, <1>2, <1>3, LocalKeeps DEF Verifying, DeletePCs

LEMMA DropCodesKeeps ==
  ASSUME IInv, NEW r \in Requests, DropCodes(r)
  PROVE  IInv'
<1>1. /\ pc[r] = "dropCodes" /\ pc' = [pc EXCEPT ![r] = "deleteUser"]
      /\ seen' = [seen EXCEPT ![r] = seen[r] \cap codes]
      /\ UNCHANGED <<userRows, codeRows, sent, address, account, row, typed>>
  BY DEF DropCodes, Goto
<1>2. Settled(account[r]) /\ \A k \in seen[r] : owner[k] = account[r]
  BY <1>1 DEF IInv, RequestsKnow, Verifying, DeletePCs
<1>3. /\ pc' \in [Requests -> PCs] /\ pc'[r] = "deleteUser"
      /\ seen' \in [Requests -> SUBSET Rows] /\ seen'[r] \subseteq seen[r]
      /\ \A q \in Requests \ {r} : pc'[q] = pc[q] /\ seen'[q] = seen[q]
  BY <1>1 DEF IInv, TypeOK, PCs
<1>4. /\ address \in [Requests -> Emails \cup {NoEmail}]
      /\ account \in [Requests -> Accounts \cup {NoAccount}]
      /\ row \in [Requests -> Rows \cup {NoRow}]
      /\ typed \in [Requests -> Values \cup {NoValue}]
  BY DEF IInv, TypeOK
<1> QED
  BY <1>1, <1>2, <1>3, <1>4, LocalKeeps DEF Verifying, DeletePCs

-----------------------------------------------------------------------------
(* Steps that change the tables. *)

\* What stays true when a row k is issued for an account a that was not born
\* before or is a user already.
LEMMA IssueKeeps ==
  ASSUME IInv, NEW r \in Requests, NEW k \in Unissued, NEW c \in Values, NEW a \in Accounts,
         codes' = codes \cup {k},
         owner' = [owner EXCEPT ![k] = a],
         value' = [value EXCEPT ![k] = c],
         fresh' = fresh \cup {k},
         raced' = IF a \in active \/ BeingVerified(a) THEN raced \cup {k} ELSE raced,
         row' = [row EXCEPT ![r] = k],
         pc' = [pc EXCEPT ![r] = "mail"],
         users' = users \cup {a}, Born(a)',
         email' \in [Accounts -> Emails \cup {NoEmail}],
         \A b \in Accounts : Born(b) \/ b # a => email'[b] = email[b],
         \A b \in users : b # a => email'[b] # email'[a],
         account' \in [Requests -> Accounts \cup {NoAccount}],
         \A q \in Requests \ {r} : account'[q] = account[q],
         UNCHANGED <<active, sent, address, typed, seen>>,
         a \in users \/ ~ Born(a)
  PROVE  IInv'
<1>1. /\ k \in Rows /\ owner[k] = NoAccount /\ k \notin codes
      /\ owner'[k] = a /\ value'[k] = c /\ a # NoAccount /\ c # NoValue
      /\ \A j \in Rows \ {k} : owner'[j] = owner[j] /\ value'[j] = value[j]
      /\ k \notin sent
  BY SentinelsAssumption DEF Unissued, IInv, TypeOK, IdsAreUsedOnce
<1>2. /\ pc'[r] = "mail" /\ row'[r] = k
      /\ \A q \in Requests \ {r} : pc'[q] = pc[q] /\ row'[q] = row[q]
  BY DEF IInv, TypeOK
<1>3. TypeOK'
  <2>1. /\ owner' \in [Rows -> Accounts \cup {NoAccount}]
        /\ value' \in [Rows -> Values \cup {NoValue}]
        /\ row' \in [Requests -> Rows \cup {NoRow}]
        /\ pc' \in [Requests -> PCs]
    BY <1>1 DEF IInv, TypeOK, PCs
  <2>2. codes' \subseteq {j \in Rows : owner'[j] \in users'}
    BY <1>1 DEF IInv, TypeOK
  <2>3. fresh' \subseteq Rows /\ raced' \subseteq Rows
    BY <1>1 DEF IInv, TypeOK
  <2> QED
    BY <2>1, <2>2, <2>3 DEF IInv, TypeOK
<1>4. /\ \A b : Born(b) => Born(b)'
      /\ \A b : Settled(b) => Settled(b)'
  BY DEF Born, Settled, IInv, TypeOK
<1>5. \A j \in Rows \ {k} : owner[j] # NoAccount /\ StoredOrSettled(j) => StoredOrSettled(j)'
  BY <1>1, <1>4 DEF StoredOrSettled
<1>7. IdsAreUsedOnce'
  BY <1>1, <1>4 DEF IInv, TypeOK, IdsAreUsedOnce, Born
<1>8. MailsAreOfStoredCodes'
  <2>1. \A j \in sent' : StoredOrSettled(j)'
    BY <1>1, <1>5 DEF IInv, TypeOK, MailsAreOfStoredCodes, IdsAreUsedOnce
  <2>2. ASSUME NEW q \in Requests, pc'[q] = "mail"
        PROVE  /\ row'[q] \in Rows /\ owner'[row'[q]] # NoAccount
               /\ StoredOrSettled(row[q])'
    <3>1. CASE q = r
      BY <1>1, <1>2, <3>1 DEF StoredOrSettled
    <3>2. CASE q # r
      <4>1. PICK j : j = row[q]
        OBVIOUS
      <4>2. j \in Rows /\ owner[j] # NoAccount /\ StoredOrSettled(j)
        BY <1>2, <2>2, <3>2, <4>1 DEF IInv, MailsAreOfStoredCodes
      <4>3. row'[q] = j /\ owner'[j] # NoAccount /\ StoredOrSettled(j)'
        BY <1>1, <1>2, <1>5, <3>2, <4>1, <4>2
      <4> QED
        BY <4>2, <4>3 DEF StoredOrSettled, Settled, Born
    <3> QED
      BY <3>1, <3>2
  <2> QED
    BY <2>1, <2>2 DEF MailsAreOfStoredCodes
<1>9. \A b \in Accounts : CodesOf(b)' = IF b = a THEN CodesOf(b) \cup {k} ELSE CodesOf(b)
  BY <1>1 DEF CodesOf, IInv, TypeOK
<1>10. RequestsKnow'
  <2> SUFFICES ASSUME NEW q \in Requests \ {r}
               PROVE
    /\ pc[q] \in Verifying => Born(account[q])' /\ typed[q] \in Values
    /\ pc[q] = "insertUser" => address[q] \in Emails
    /\ pc[q] = "insertCode" => Born(account[q])'
    /\ pc[q] \in {"reread", "redelete", "dropCodes", "deleteUser"} => Settled(account[q])'
    /\ pc[q] \in DeletePCs => \A j \in seen[q] : owner'[j] = account[q]
    /\ pc[q] = "deleteCodes" =>
         account[q] \in users' /\ CodesOf(account[q])' \ seen[q] \subseteq raced'
    BY <1>2 DEF RequestsKnow, Verifying, DeletePCs, Born, Settled, CodesOf
  <2>1. PICK b : b = account[q]
    OBVIOUS
  <2>2. /\ pc[q] \in Verifying => Born(b)' /\ typed[q] \in Values
        /\ pc[q] = "insertUser" => address[q] \in Emails
        /\ pc[q] = "insertCode" => Born(b)'
        /\ pc[q] \in {"reread", "redelete", "dropCodes", "deleteUser"} => Settled(b)'
    BY <1>4, <2>1 DEF IInv, RequestsKnow
  <2>3. ASSUME pc[q] \in DeletePCs
        PROVE  \A j \in seen[q] : owner'[j] = b
    <3>1. \A j \in seen[q] : owner[j] = b /\ j \in Rows /\ b # NoAccount
      BY <2>1, <2>3, SentinelsAssumption
         DEF IInv, TypeOK, RequestsKnow, Verifying, DeletePCs, Settled, Born
    <3> QED
      BY <1>1, <3>1
  <2>4. ASSUME pc[q] = "deleteCodes"
        PROVE  b \in users' /\ CodesOf(b)' \ seen[q] \subseteq raced'
    <3>1. b \in users /\ b \in Accounts /\ CodesOf(b) \ seen[q] \subseteq raced
      BY <2>1, <2>4 DEF IInv, TypeOK, RequestsKnow
    <3>2. b = a => BeingVerified(a)
      BY <2>1, <2>4 DEF BeingVerified
    <3> QED
      BY <1>9, <3>1, <3>2
  <2>5. /\ (Born(account[q])' <=> Born(b)') /\ (Settled(account[q])' <=> Settled(b)')
        /\ CodesOf(account[q])' = CodesOf(b)'
    BY <2>1 DEF Born, Settled, CodesOf
  <2> QED
    BY <2>1, <2>2, <2>3, <2>4, <2>5
<1>11. OneAccountPerEmail'
  BY DEF IInv, TypeOK, OneAccountPerEmail, IdsAreUsedOnce, Born
<1>12. InactiveHasCode'
  BY <1>9 DEF IInv, TypeOK, InactiveHasCode
<1>14. LeftoversComeFromRaces'
  BY <1>1 DEF IInv, TypeOK, LeftoversComeFromRaces
<1> QED
  BY <1>3, <1>7, <1>8, <1>10, <1>11, <1>12, <1>14 DEF IInv

LEMMA InsertUserKeeps ==
  ASSUME IInv, NEW r \in Requests, InsertUser(r)
  PROVE  IInv'
<1>1. CASE Fail(r)
  BY <1>1, FailKeeps
<1>2. CASE ~ Fail(r)
  <2>1. PICK a \in Unborn :
          /\ pc[r] = "insertUser" /\ Free(address[r])
          /\ users' = users \cup {a}
          /\ email' = [email EXCEPT ![a] = address[r]]
          /\ account' = [account EXCEPT ![r] = a]
          /\ Issue(r, a)
          /\ pc' = [pc EXCEPT ![r] = "mail"]
          /\ UNCHANGED <<active, sent, address, typed, seen>>
    BY <1>2 DEF InsertUser, Goto
  <2>2. address[r] \in Emails /\ address[r] # NoEmail
    BY <2>1, SentinelsAssumption DEF IInv, RequestsKnow
  <2>3. /\ a \in Accounts /\ ~ Born(a) /\ a \notin users
        /\ email' \in [Accounts -> Emails \cup {NoEmail}]
        /\ email'[a] = address[r] /\ Born(a)'
        /\ \A b \in Accounts : Born(b) \/ b # a => email'[b] = email[b]
    BY <2>1, <2>2 DEF Unborn, Born, IInv, TypeOK, IdsAreUsedOnce
  <2>4. \A b \in users : b # a => email'[b] # email'[a]
    BY <2>1, <2>3 DEF Free, Registered, IInv, TypeOK
  <2>5. /\ account' \in [Requests -> Accounts \cup {NoAccount}]
        /\ \A q \in Requests \ {r} : account'[q] = account[q]
    BY <2>1, <2>3 DEF IInv, TypeOK
  <2>6. PICK k \in Unissued, c \in Values :
          /\ codes' = codes \cup {k}
          /\ owner' = [owner EXCEPT ![k] = a]
          /\ value' = [value EXCEPT ![k] = c]
          /\ fresh' = fresh \cup {k}
          /\ raced' = IF a \in active \/ BeingVerified(a) THEN raced \cup {k} ELSE raced
          /\ row' = [row EXCEPT ![r] = k]
    BY <2>1 DEF Issue
  <2> QED
    BY <2>1, <2>3, <2>4, <2>5, <2>6, IssueKeeps
<1> QED
  BY <1>1, <1>2

LEMMA InsertCodeKeeps ==
  ASSUME IInv, NEW r \in Requests, InsertCode(r)
  PROVE  IInv'
<1>1. CASE Fail(r)
  BY <1>1, FailKeeps
<1>2. CASE ~ Fail(r)
  <2>1. PICK a : a = account[r]
    OBVIOUS
  <2>2. /\ a \in users /\ Issue(r, a)
        /\ pc' = [pc EXCEPT ![r] = "mail"]
        /\ UNCHANGED <<users, email, active, sent, address, account, typed, seen>>
    BY <1>2, <2>1 DEF InsertCode, Goto, userRows
  <2>3. /\ a \in Accounts /\ users' = users \cup {a} /\ Born(a)'
        /\ email' \in [Accounts -> Emails \cup {NoEmail}]
        /\ \A b \in users : b # a => email'[b] # email'[a]
        /\ account' \in [Requests -> Accounts \cup {NoAccount}]
    BY <2>2 DEF IInv, TypeOK, IdsAreUsedOnce, Born, OneAccountPerEmail
  <2> QED
    BY <2>2, <2>3, IssueKeeps DEF Issue
<1> QED
  BY <1>1, <1>2

-----------------------------------------------------------------------------

\* A step that ends a request, sends mails, or takes codes and users away, and
\* leaves every user that loses a code settled.
LEMMA ShrinkKeeps ==
  ASSUME IInv, NEW r \in Requests, Release(r),
         codes' \subseteq codes, users' \subseteq users, active' \subseteq users',
         sent \subseteq sent', sent' \subseteq Rows,
         UNCHANGED <<email, owner, value, raced>>, fresh' \subseteq Rows,
         \A k \in codes' : owner[k] \in users',
         \A a \in active : a \in active' \/ a \notin users',
         \A a \in active' \ active : \A k \in codes' : owner[k] = a => k \in raced,
         \A k \in codes \ codes' : Settled(owner[k])',
         \A k \in sent' \ sent : owner[k] # NoAccount /\ StoredOrSettled(k),
         \A q \in Requests \ {r} : pc[q] = "deleteCodes" => account[q] \in users'
  PROVE  IInv'
<1>1. /\ pc' = [pc EXCEPT ![r] = "idle"] /\ pc'[r] = "idle"
      /\ \A q \in Requests \ {r} :
           /\ pc'[q] = pc[q] /\ address'[q] = address[q]
           /\ account'[q] = account[q] /\ row'[q] = row[q]
           /\ typed'[q] = typed[q] /\ seen'[q] = seen[q]
  BY ReleaseIdles DEF IInv, TypeOK
<1>2. TypeOK'
  BY ReleaseIdles DEF IInv, TypeOK
<1>3. /\ \A a : Born(a) => Born(a)'
      /\ \A a : Settled(a) => Settled(a)'
  BY DEF Born, Settled, IInv, TypeOK, IdsAreUsedOnce
<1>4. \A k : StoredOrSettled(k) => StoredOrSettled(k)'
  <2> SUFFICES ASSUME NEW k, StoredOrSettled(k)
               PROVE  StoredOrSettled(k)'
    OBVIOUS
  <2>1. CASE k \in codes
    BY <2>1 DEF StoredOrSettled, Settled, Born
  <2>2. CASE Settled(owner[k])
    <3>1. PICK a : a = owner[k]
      OBVIOUS
    <3>2. Settled(a)'
      BY <1>3, <2>2, <3>1
    <3> QED
      BY <3>1, <3>2 DEF StoredOrSettled, Settled, Born
  <2> QED
    BY <2>1, <2>2 DEF StoredOrSettled
<1>5. IdsAreUsedOnce'
  BY <1>3 DEF IInv, TypeOK, IdsAreUsedOnce, Born
<1>6. MailsAreOfStoredCodes'
  <2>1. \A k \in sent' : StoredOrSettled(k)'
    BY <1>4 DEF IInv, MailsAreOfStoredCodes
  <2>2. ASSUME NEW q \in Requests, pc'[q] = "mail"
        PROVE  /\ row'[q] \in Rows /\ owner'[row'[q]] # NoAccount
               /\ StoredOrSettled(row[q])'
    <3>1. q # r /\ pc[q] = "mail" /\ row'[q] = row[q]
      BY <1>1, <2>2
    <3>2. PICK k : k = row[q]
      OBVIOUS
    <3>3. k \in Rows /\ owner[k] # NoAccount /\ StoredOrSettled(k)'
      BY <1>4, <3>1, <3>2 DEF IInv, MailsAreOfStoredCodes
    <3> QED
      BY <3>1, <3>2, <3>3 DEF StoredOrSettled, Settled, Born
  <2> QED
    BY <2>1, <2>2 DEF MailsAreOfStoredCodes
<1>7. RequestsKnow'
  <2> SUFFICES ASSUME NEW q \in Requests \ {r}, NEW a, a = account[q]
               PROVE
    /\ pc[q] \in Verifying => Born(a)' /\ typed[q] \in Values
    /\ pc[q] = "insertUser" => address[q] \in Emails
    /\ pc[q] = "insertCode" => Born(a)'
    /\ pc[q] \in {"reread", "redelete", "dropCodes", "deleteUser"} => Settled(a)'
    /\ pc[q] \in DeletePCs => \A k \in seen[q] : owner[k] = a
    /\ pc[q] = "deleteCodes" => a \in users' /\ CodesOf(a)' \ seen[q] \subseteq raced
    BY <1>1 DEF RequestsKnow, Verifying, DeletePCs, Born, Settled, CodesOf
  <2>1. CodesOf(a)' \subseteq CodesOf(a)
    BY DEF CodesOf
  <2> QED
    BY <1>3, <2>1 DEF IInv, RequestsKnow
<1>8. OneAccountPerEmail'
  BY DEF IInv, OneAccountPerEmail
<1>9. InactiveHasCode'
  <2> SUFFICES ASSUME NEW a \in users' \ active'
               PROVE  \E k \in codes' : owner[k] = a
    BY DEF InactiveHasCode, CodesOf
  <2>1. PICK k \in codes : owner[k] = a
    BY DEF IInv, InactiveHasCode, CodesOf
  <2>2. ~ Settled(owner[k])'
    BY <2>1 DEF Settled, Born
  <2> QED
    BY <2>1, <2>2
<1>11. LeftoversComeFromRaces'
  BY DEF IInv, LeftoversComeFromRaces
<1> QED
  BY <1>2, <1>5, <1>6, <1>7, <1>8, <1>9, <1>11 DEF IInv

LEMMA MailKeeps ==
  ASSUME IInv, NEW r \in Requests, Mail(r)
  PROVE  IInv'
<1>1. /\ pc[r] = "mail" /\ Release(r) /\ sent' = sent \cup {row[r]}
      /\ UNCHANGED <<users, email, active, codes, owner, value, fresh, raced>>
  BY DEF Mail, userRows, codeRows
<1>2. row[r] \in Rows /\ owner[row[r]] # NoAccount /\ StoredOrSettled(row[r])
  BY <1>1 DEF IInv, MailsAreOfStoredCodes
<1>3. /\ sent \subseteq sent' /\ sent' \subseteq Rows
      /\ \A k \in sent' \ sent : owner[k] # NoAccount /\ StoredOrSettled(k)
  BY <1>1, <1>2 DEF IInv, TypeOK
<1>4. /\ active \subseteq users /\ fresh \subseteq Rows
      /\ \A k \in codes : owner[k] \in users
      /\ \A q \in Requests : pc[q] = "deleteCodes" => account[q] \in users
  BY DEF IInv, TypeOK, RequestsKnow
<1> QED
  BY <1>1, <1>3, <1>4, ShrinkKeeps

LEMMA DeleteCodesKeeps ==
  ASSUME IInv, NEW r \in Requests, DeleteCodes(r)
  PROVE  IInv'
<1>1. PICK a : a = account[r]
  OBVIOUS
<1>2. /\ pc[r] \in {"deleteCodes", "redelete"} /\ Release(r)
      /\ codes' = codes \ seen[r]
      /\ active' = IF pc[r] = "deleteCodes" THEN active \cup {a} ELSE active
      /\ UNCHANGED <<users, email, owner, value, fresh, raced, sent>>
  BY <1>1 DEF DeleteCodes
<1>3. /\ Born(a) /\ \A k \in seen[r] : owner[k] = a
      /\ pc[r] = "redelete" => Settled(a)
      /\ pc[r] = "deleteCodes" => a \in users /\ CodesOf(a) \ seen[r] \subseteq raced
  BY <1>1, <1>2 DEF IInv, RequestsKnow, Verifying, DeletePCs
<1>4. /\ active \subseteq active' /\ active' \subseteq users
      /\ \A k \in codes : owner[k] \in users
      /\ \A q \in Requests : pc[q] = "deleteCodes" => account[q] \in users
      /\ sent \subseteq Rows /\ fresh \subseteq Rows
  BY <1>2, <1>3 DEF IInv, TypeOK, RequestsKnow
<1>5. \A b \in active' \ active : \A k \in codes' : owner[k] = b => k \in raced
  BY <1>2, <1>3 DEF CodesOf
<1>6. Settled(a)'
  BY <1>2, <1>3 DEF Settled, Born
<1>7. \A k \in codes \ codes' : Settled(owner[k])'
  BY <1>2, <1>3, <1>6 DEF Settled, Born
<1> QED
  BY <1>2, <1>4, <1>5, <1>7, ShrinkKeeps

LEMMA DeleteUserKeeps ==
  ASSUME IInv, NEW r \in Requests, DeleteUser(r)
  PROVE  IInv'
<1>1. CASE Fail(r)
  BY <1>1, FailKeeps
<1>2. CASE ~ Fail(r)
  <2>1. PICK a : a = account[r]
    OBVIOUS
  <2>2. /\ pc[r] = "deleteUser" /\ a \notin UsersLockedByOthers(r) /\ Release(r)
        /\ CodesOf(a) \subseteq seen[r]
        /\ users' = users \ {a} /\ active' = active \ {a} /\ codes' = codes \ seen[r]
        /\ UNCHANGED <<email, owner, value, fresh, raced, sent>>
    BY <1>2, <2>1 DEF DeleteUser
  <2>3. Settled(a) /\ \A k \in seen[r] : owner[k] = a
    BY <2>1, <2>2 DEF IInv, RequestsKnow, Verifying, DeletePCs
  <2>4. \A k \in codes' : owner[k] \in users'
    BY <2>2 DEF IInv, TypeOK, CodesOf
  <2>5. \A q \in Requests \ {r} : pc[q] = "deleteCodes" => account[q] \in users'
    BY <2>2 DEF IInv, RequestsKnow, UsersLockedByOthers, UserLocks
  <2>6. /\ active' \subseteq users' /\ sent \subseteq Rows /\ fresh \subseteq Rows
    BY <2>2 DEF IInv, TypeOK
  <2>7. Born(a)
    BY <2>3 DEF Settled, Born, IInv, TypeOK, IdsAreUsedOnce
  <2>8. \A k \in codes \ codes' : Settled(owner[k])'
    BY <2>2, <2>3, <2>7 DEF Settled, Born
  <2> QED
    BY <2>2, <2>4, <2>5, <2>6, <2>8, ShrinkKeeps
<1> QED
  BY <1>1, <1>2

LEMMA ExpireKeeps ==
  ASSUME IInv, NEW k \in Rows, Expire(k)
  PROVE  IInv'
<1>1. /\ fresh' \subseteq fresh
      /\ UNCHANGED <<users, email, active, codes, owner, value, raced, sent,
                     pc, address, account, row, typed, seen>>
  BY DEF Expire, userRows, requestVars
<1>2. TypeOK'
  BY <1>1 DEF IInv, TypeOK
<1> QED
  BY <1>1, <1>2
     DEF IInv, IdsAreUsedOnce, MailsAreOfStoredCodes, RequestsKnow, OneAccountPerEmail,
         InactiveHasCode, LeftoversComeFromRaces, Born, Settled,
         StoredOrSettled, CodesOf

-----------------------------------------------------------------------------

LEMMA NextIInv == IInv /\ [Next]_vars => IInv'
<1> SUFFICES ASSUME IInv, [Next]_vars
             PROVE  IInv'
  OBVIOUS
<1>1. ASSUME NEW r \in Requests,
             \/ \E e \in Emails : BeginRegister(r, e)
             \/ \E a \in Accounts : BeginResend(r, a) \/ BeginDelete(r, a)
             \/ \E c \in Values : FindCode(r, c)
      PROVE  IInv'
  BY <1>1, BeginKeeps, BeginDeleteKeeps, FindCodeKeeps
<1>2. ASSUME NEW r \in Requests, Step(r)
      PROVE  IInv'
  BY <1>2, InsertUserKeeps, InsertCodeKeeps, MailKeeps, ReadUserKeeps, SelectCodesKeeps,
     DeleteCodesKeeps, DropCodesKeeps, DeleteUserKeeps DEF Step
<1>3. ASSUME NEW r \in Requests, Crash(r) \/ (\E q \in Requests : BreakDeadlock(r, q))
      PROVE  IInv'
  BY <1>3, FailKeeps DEF Crash, BreakDeadlock
<1>4. ASSUME NEW k \in Rows, Expire(k)
      PROVE  IInv'
  BY <1>4, ExpireKeeps
<1>5. CASE UNCHANGED vars
  BY <1>5
     DEF IInv, TypeOK, IdsAreUsedOnce, MailsAreOfStoredCodes, RequestsKnow,
         OneAccountPerEmail, InactiveHasCode, LeftoversComeFromRaces, Born,
         Settled, StoredOrSettled, CodesOf,
         vars, userRows, codeRows, requestVars
<1> QED
  BY <1>1, <1>2, <1>3, <1>4, <1>5 DEF Next

\* The strengthened invariant holds in every state of the accounts and codes.
THEOREM Invariance == Spec => []IInv
BY InitIInv, NextIInv, PTL DEF Spec

\* Every variable stays in its type; codes belong to users that exist.
THEOREM TypeCorrect == Spec => []TypeOK
<1>1. IInv => TypeOK
  BY DEF IInv
<1> QED
  BY <1>1, Invariance, PTL

\* However calls of register interleave, an address has one account.
THEOREM AddressesAreUnique == Spec => []OneAccountPerEmail
<1>1. IInv => OneAccountPerEmail
  BY DEF IInv
<1> QED
  BY <1>1, Invariance, PTL

\* Who is not verified has a code: register, resend_code and verify_email are
\* all or nothing.
THEOREM NobodyIsStranded == Spec => []InactiveHasCode
<1>1. IInv => InactiveHasCode
  BY DEF IInv
<1> QED
  BY <1>1, Invariance, PTL

\* A mailed code is stored until its account is verified or gone.
THEOREM MailsAreGood == Spec => []MailedCodeIsStored
<1>1. IInv => MailedCodeIsStored
  BY DEF IInv, MailsAreOfStoredCodes, StoredOrSettled, Settled, MailedCodeIsStored
<1> QED
  BY <1>1, Invariance, PTL

\* The codes that verify_email leaves behind are those of requests that
\* overlapped with it.
THEOREM LeftoversAreOfRaces == Spec => []LeftoversComeFromRaces
<1>1. IInv => LeftoversComeFromRaces
  BY DEF IInv
<1> QED
  BY <1>1, Invariance, PTL

-----------------------------------------------------------------------------
(***************************************************************************)
(* Refinement.  A live code is a row that has not expired; what is         *)
(* presented are the digits of the requests that are verifying.            *)
(***************************************************************************)

Live == {<<owner[k], value[k]>> : k \in codes \cap fresh}

Attempts == {q \in Requests : pc[q] \in Verifying}

Presented == {<<account[r], typed[r]>> : r \in Attempts}

\* Steps that are nothing to the promise but, at most, the end of codes or of
\* attempts.
LEMMA LapseMaps ==
  ASSUME UNCHANGED <<users, email, active>>,
         Live' \subseteq Live, Presented' \subseteq Presented
  PROVE  Promise!Next
BY DEF Promise!Next, Promise!Lapse, Live, Presented, Attempts

\* The attempt of a request that is over is no more, the others stay.
LEMMA ReleaseEndsAttempt ==
  ASSUME IInv, NEW r \in Requests, Release(r)
  PROVE  /\ Presented' \subseteq Presented
         /\ pc[r] \notin Verifying => Presented' = Presented
<1>1. TypeOK /\ "idle" \notin Verifying
  BY DEF IInv, Verifying
<1>2. /\ pc'[r] = "idle"
      /\ \A q \in Requests \ {r} :
           pc'[q] = pc[q] /\ account'[q] = account[q] /\ typed'[q] = typed[q]
  BY <1>1, ReleaseIdles DEF TypeOK
<1>3. Attempts' = Attempts \ {r}
  BY <1>1, <1>2 DEF Attempts
<1>4. Presented' = {<<account[q], typed[q]>> : q \in Attempts \ {r}}
  BY <1>2, <1>3 DEF Presented, Attempts
<1> QED
  BY <1>4 DEF Presented, Attempts

LEMMA FailMaps ==
  ASSUME IInv, NEW r \in Requests, Fail(r)
  PROVE  Promise!Next
<1>1. Release(r) /\ UNCHANGED <<users, email, active, codes, owner, value, fresh>>
  BY DEF Fail, userRows, codeRows
<1>2. Live' = Live
  BY <1>1 DEF Live
<1> QED
  BY <1>1, <1>2, ReleaseEndsAttempt, LapseMaps

\* A step of one request that changes no table and leaves its attempt as it was.
LEMMA QuietMaps ==
  ASSUME IInv, NEW r \in Requests,
         UNCHANGED <<users, email, active, codes, owner, value, fresh>>,
         \A q \in Requests : (pc'[q] \in Verifying) <=> (pc[q] \in Verifying),
         \A q \in Requests : pc[q] \in Verifying =>
           account'[q] = account[q] /\ typed'[q] = typed[q]
  PROVE  Promise!Next
<1>1. Live' = Live
  BY DEF Live
<1>2. Attempts' = Attempts
  BY DEF Attempts
<1>3. \A q \in Attempts : account'[q] = account[q] /\ typed'[q] = typed[q]
  BY DEF Attempts
<1>4. Presented' = Presented
  BY <1>2, <1>3 DEF Presented
<1> QED
  BY <1>1, <1>4, LapseMaps

LEMMA BeginMaps ==
  ASSUME IInv, NEW r \in Requests,
         \/ \E e \in Emails : BeginRegister(r, e)
         \/ \E a \in Accounts : BeginResend(r, a) \/ BeginDelete(r, a)
  PROVE  Promise!Next
<1>1. /\ UNCHANGED <<users, email, active, codes, owner, value, fresh, typed>>
      /\ pc[r] = "idle"
      /\ pc'[r] \in {"insertUser", "insertCode", "dropCodes"}
      /\ \A q \in Requests \ {r} : pc'[q] = pc[q] /\ account'[q] = account[q]
  BY DEF BeginRegister, BeginResend, BeginDelete, Goto, userRows, codeRows, IInv, TypeOK
<1>2. pc[r] \notin Verifying /\ pc'[r] \notin Verifying
  BY <1>1 DEF Verifying
<1> QED
  BY <1>1, <1>2, QuietMaps

LEMMA LocalMaps ==
  ASSUME IInv, NEW r \in Requests,
         ReadUser(r) \/ Activate(r) \/ Reread(r) \/ DropCodes(r)
  PROVE  Promise!Next
<1>1. CASE Fail(r)
  BY <1>1, FailMaps
<1>2. CASE ~ Fail(r)
  <2>1. /\ UNCHANGED <<users, email, active, codes, owner, value, fresh, account, typed>>
        /\ \A q \in Requests \ {r} : pc'[q] = pc[q]
        /\ \/ /\ pc[r] \in {"readUser", "activate", "reread"}
              /\ pc'[r] \in {"activate", "reread", "deleteCodes", "redelete"}
           \/ pc[r] = "dropCodes" /\ pc'[r] = "deleteUser"
    BY <1>2 DEF ReadUser, Activate, Reread, DropCodes, Goto, userRows, codeRows, IInv, TypeOK
  <2>2. (pc'[r] \in Verifying) <=> (pc[r] \in Verifying)
    BY <2>1 DEF Verifying
  <2> QED
    BY <2>1, <2>2, QuietMaps
<1> QED
  BY <1>1, <1>2

\* The digits are those of one row only, so they are live for its owner and
\* for nobody else.
LEMMA FindCodeMaps ==
  ASSUME IInv, NEW r \in Requests, NEW c \in Values, FindCode(r, c)
  PROVE  Promise!Next
<1>1. CASE Fail(r)
  BY <1>1, FailMaps
<1>2. CASE ~ Fail(r)
  <2>1. PICK k \in Rows :
          /\ pc[r] = "idle" /\ Matches(c) = {k}
          /\ account' = [account EXCEPT ![r] = owner[k]]
          /\ typed' = [typed EXCEPT ![r] = c]
          /\ pc' = [pc EXCEPT ![r] = "readUser"]
          /\ UNCHANGED <<users, email, active, codes, owner, value, fresh>>
    BY <1>2 DEF FindCode, Goto, userRows, codeRows
  <2>2. PICK a : a = owner[k]
    OBVIOUS
  <2>3. a \in Accounts /\ k \in codes \cap fresh /\ value[k] = c
    BY <2>1, <2>2 DEF Matches, IInv, TypeOK
  <2>4. \A b : <<b, c>> \in Live <=> b = a
    BY <2>1, <2>2, <2>3 DEF Live, Matches
  <2>5. Live' = Live
    BY <2>1 DEF Live
  <2>6. /\ pc'[r] = "readUser" /\ account'[r] = a /\ typed'[r] = c
        /\ \A q \in Requests \ {r} :
             pc'[q] = pc[q] /\ account'[q] = account[q] /\ typed'[q] = typed[q]
    BY <2>1, <2>2 DEF IInv, TypeOK
  <2>7. r \notin Attempts /\ Attempts' = Attempts \cup {r}
    BY <2>1, <2>6 DEF Attempts, Verifying
  <2>8. Presented' = Presented \cup {<<a, c>>}
    <3>1. \A q \in Attempts : account'[q] = account[q] /\ typed'[q] = typed[q]
      BY <2>6, <2>7 DEF Attempts
    <3>2. Presented' = {<<account'[q], typed'[q]>> : q \in Attempts \cup {r}}
      BY <2>7 DEF Presented
    <3>3. {<<account'[q], typed'[q]>> : q \in Attempts \cup {r}}
            = {<<account'[q], typed'[q]>> : q \in Attempts} \cup {<<account'[r], typed'[r]>>}
      OBVIOUS
    <3> QED
      BY <2>6, <3>1, <3>2, <3>3 DEF Presented
  <2>9. {b \in Accounts : <<b, c>> \in Live} = {a}
    BY <2>3, <2>4
  <2>10. Promise!Present(a, c)
    BY <2>1, <2>5, <2>8, <2>9 DEF Promise!Present, Live, Presented, Attempts
  <2> QED
    BY <2>3, <2>10 DEF Promise!Next
<1> QED
  BY <1>1, <1>2

\* A row that is issued is live, no other changes; nobody verifies with it yet.
LEMMA IssueMaps ==
  ASSUME IInv, NEW r \in Requests, NEW a \in Accounts, Issue(r, a),
         pc[r] \notin Verifying, pc' = [pc EXCEPT ![r] = "mail"], UNCHANGED typed,
         \A q \in Requests \ {r} : account'[q] = account[q]
  PROVE  /\ \E c \in Values : Live' = Live \cup {<<a, c>>}
         /\ Presented' = Presented
<1>1. PICK k \in Unissued, c \in Values :
        /\ codes' = codes \cup {k}
        /\ owner' = [owner EXCEPT ![k] = a]
        /\ value' = [value EXCEPT ![k] = c]
        /\ fresh' = fresh \cup {k}
  BY DEF Issue
<1>2. /\ k \in Rows /\ k \notin codes /\ codes \subseteq Rows
      /\ owner'[k] = a /\ value'[k] = c
      /\ \A j \in Rows \ {k} : owner'[j] = owner[j] /\ value'[j] = value[j]
  BY <1>1, SentinelsAssumption DEF Unissued, IInv, TypeOK, IdsAreUsedOnce
<1>3. codes' \cap fresh' = (codes \cap fresh) \cup {k}
  BY <1>1, <1>2
<1>4. Live' = Live \cup {<<a, c>>}
  BY <1>2, <1>3 DEF Live
<1>5. /\ "mail" \notin Verifying
      /\ pc'[r] = "mail" /\ \A q \in Requests \ {r} : pc'[q] = pc[q]
  BY DEF Verifying, IInv, TypeOK
<1>6. Attempts' = Attempts /\ r \notin Attempts
  BY <1>5 DEF Attempts
<1>7. Presented' = Presented
  BY <1>6 DEF Presented, Attempts
<1> QED
  BY <1>4, <1>7

LEMMA InsertUserMaps ==
  ASSUME IInv, NEW r \in Requests, InsertUser(r)
  PROVE  Promise!Next
<1>1. CASE Fail(r)
  BY <1>1, FailMaps
<1>2. CASE ~ Fail(r)
  <2>1. PICK a \in Unborn :
          /\ pc[r] = "insertUser" /\ Free(address[r])
          /\ users' = users \cup {a}
          /\ email' = [email EXCEPT ![a] = address[r]]
          /\ account' = [account EXCEPT ![r] = a]
          /\ Issue(r, a)
          /\ pc' = [pc EXCEPT ![r] = "mail"]
          /\ UNCHANGED <<active, typed>>
    BY <1>2 DEF InsertUser, Goto
  <2>2. a \in Accounts /\ email[a] = NoEmail
    BY <2>1 DEF Unborn
  <2>3. PICK e \in Emails : e = address[r]
    BY <2>1 DEF IInv, RequestsKnow
  <2>4. pc[r] \notin Verifying /\ \A q \in Requests \ {r} : account'[q] = account[q]
    BY <2>1 DEF Verifying, IInv, TypeOK
  <2>5. PICK c \in Values : Live' = Live \cup {<<a, c>>} /\ Presented' = Presented
    BY <2>1, <2>2, <2>4, IssueMaps
  <2>6. \A b \in users : email[b] # e
    BY <2>1, <2>3 DEF Free, Registered
  <2>7. Promise!Claim(a, e, c)
    BY <2>1, <2>2, <2>3, <2>5, <2>6 DEF Promise!Claim, Live, Presented, Attempts
  <2> QED
    BY <2>2, <2>7 DEF Promise!Next
<1> QED
  BY <1>1, <1>2

LEMMA InsertCodeMaps ==
  ASSUME IInv, NEW r \in Requests, InsertCode(r)
  PROVE  Promise!Next
<1>1. CASE Fail(r)
  BY <1>1, FailMaps
<1>2. CASE ~ Fail(r)
  <2>1. PICK a : a = account[r]
    OBVIOUS
  <2>2. /\ Issue(r, a) /\ a \in users /\ pc[r] \notin Verifying
        /\ pc' = [pc EXCEPT ![r] = "mail"]
        /\ UNCHANGED <<users, email, active, account, typed>>
    BY <1>2, <2>1 DEF InsertCode, Goto, userRows, Verifying
  <2>3. a \in Accounts
    BY <2>2 DEF IInv, TypeOK
  <2>4. PICK c \in Values : Live' = Live \cup {<<a, c>>} /\ Presented' = Presented
    BY <2>2, <2>3, IssueMaps
  <2>5. Promise!IssueCode(a, c)
    BY <2>2, <2>4 DEF Promise!IssueCode, Live, Presented, Attempts
  <2> QED
    BY <2>3, <2>5 DEF Promise!Next
<1> QED
  BY <1>1, <1>2

LEMMA MailMaps ==
  ASSUME IInv, NEW r \in Requests, Mail(r)
  PROVE  Promise!Next
<1>1. Release(r) /\ UNCHANGED <<users, email, active, codes, owner, value, fresh>>
  BY DEF Mail, userRows, codeRows
<1>2. Live' = Live
  BY <1>1 DEF Live
<1> QED
  BY <1>1, <1>2, ReleaseEndsAttempt, LapseMaps

\* The lock on the user keeps the account; the request knows the digits that
\* it was called with.
LEMMA DeleteCodesMaps ==
  ASSUME IInv, NEW r \in Requests, DeleteCodes(r)
  PROVE  Promise!Next
<1>1. PICK a : a = account[r]
  OBVIOUS
<1>2. /\ pc[r] \in {"deleteCodes", "redelete"} /\ Release(r)
      /\ codes' = codes \ seen[r]
      /\ active' = IF pc[r] = "deleteCodes" THEN active \cup {a} ELSE active
      /\ UNCHANGED <<users, email, owner, value, fresh>>
  BY <1>1 DEF DeleteCodes
<1>3. \A k \in seen[r] : owner[k] = a
  BY <1>1, <1>2 DEF IInv, RequestsKnow, Verifying, DeletePCs
<1>4. Live' \subseteq Live /\ \A p \in Live \ Live' : p[1] = a
  BY <1>2, <1>3 DEF Live
<1>5. Presented' \subseteq Presented
  BY <1>2, ReleaseEndsAttempt
<1>6. CASE pc[r] = "redelete"
  BY <1>2, <1>4, <1>5, <1>6, LapseMaps
<1>7. CASE pc[r] = "deleteCodes"
  <2>1. a \in users /\ typed[r] \in Values /\ r \in Attempts
    BY <1>1, <1>7 DEF IInv, RequestsKnow, Verifying, Attempts
  <2>2. PICK c \in Values : c = typed[r]
    BY <2>1
  <2>3. <<a, c>> \in Presented
    BY <1>1, <2>1, <2>2 DEF Presented
  <2>4. Promise!Verify(a)
    BY <1>2, <1>4, <1>5, <1>7, <2>1, <2>2, <2>3
       DEF Promise!Verify, Live, Presented, Attempts
  <2> QED
    BY <2>1, <2>4 DEF Promise!Next, IInv, TypeOK
<1> QED
  BY <1>2, <1>6, <1>7

LEMMA DeleteUserMaps ==
  ASSUME IInv, NEW r \in Requests, DeleteUser(r)
  PROVE  Promise!Next
<1>1. CASE Fail(r)
  BY <1>1, FailMaps
<1>2. CASE ~ Fail(r)
  <2>1. PICK a : a = account[r]
    OBVIOUS
  <2>2. /\ pc[r] = "deleteUser" /\ Release(r) /\ CodesOf(a) \subseteq seen[r]
        /\ users' = users \ {a} /\ active' = active \ {a} /\ codes' = codes \ seen[r]
        /\ UNCHANGED <<email, owner, value, fresh>>
    BY <1>2, <2>1 DEF DeleteUser
  <2>3. /\ Settled(a) /\ active \subseteq users /\ users \subseteq Accounts
        /\ \A k \in seen[r] : owner[k] = a
    BY <2>1, <2>2 DEF IInv, TypeOK, RequestsKnow, Verifying, DeletePCs
  <2>4. pc[r] \notin Verifying
    BY <2>2 DEF Verifying
  <2>5. Presented' = Presented
    BY <2>2, <2>4, ReleaseEndsAttempt
  <2>6. codes' \cap fresh' = {k \in codes \cap fresh : owner[k] # a}
    BY <2>2, <2>3 DEF CodesOf
  <2>7. Live' = {p \in Live : p[1] # a}
    BY <2>2, <2>6 DEF Live
  <2>8. CASE a \notin active
    BY <2>2, <2>3, <2>5, <2>7, <2>8, LapseMaps DEF Settled
  <2>9. CASE a \in active
    <3>1. Promise!Close(a)
      BY <2>2, <2>5, <2>7, <2>9 DEF Promise!Close, Live, Presented, Attempts
    <3> QED
      BY <2>3, <2>9, <3>1 DEF Promise!Next
  <2> QED
    BY <2>8, <2>9
<1> QED
  BY <1>1, <1>2

LEMMA ExpireMaps ==
  ASSUME IInv, NEW k \in Rows, Expire(k)
  PROVE  Promise!Next
<1>1. /\ fresh' \subseteq fresh
      /\ UNCHANGED <<users, email, active, codes, owner, value, pc, account, typed>>
  BY DEF Expire, userRows, requestVars
<1>2. Live' \subseteq Live
  BY <1>1 DEF Live
<1>3. Presented' = Presented
  BY <1>1 DEF Presented, Attempts
<1> QED
  BY <1>1, <1>2, <1>3, LapseMaps

\* Registration implements Verification: accounts are claimed, verified by who
\* typed digits that were then a live code of this account alone, and closed,
\* in this order, whatever overlaps, fails or is lost.
THEOREM Refinement == Spec => ImplementsVerification
<1>1. Init => Promise!Init
  <2> SUFFICES ASSUME Init
               PROVE  Promise!Init
    OBVIOUS
  <2>1. Live = {} /\ Attempts = {}
    BY DEF Init, Live, Attempts, Verifying
  <2> QED
    BY <2>1 DEF Init, Promise!Init, Live, Attempts
<1>2. IInv /\ [Next]_vars => [Promise!Next]_(Promise!vars)
  <2>1. ASSUME UNCHANGED vars
        PROVE  UNCHANGED Promise!vars
    BY <2>1 DEF vars, userRows, codeRows, requestVars, Promise!vars
  <2>2. ASSUME IInv, NEW r \in Requests, Step(r)
        PROVE  Promise!Next
    BY <2>2, InsertUserMaps, InsertCodeMaps, MailMaps, LocalMaps, DeleteCodesMaps,
       DeleteUserMaps DEF Step
  <2>3. ASSUME IInv, NEW r \in Requests,
               Crash(r) \/ (\E q \in Requests : BreakDeadlock(r, q))
        PROVE  Promise!Next
    BY <2>3, FailMaps DEF Crash, BreakDeadlock
  <2> QED
    BY <2>1, <2>2, <2>3, BeginMaps, FindCodeMaps, ExpireMaps DEF Next
<1> QED
  BY <1>1, <1>2, Invariance, PTL DEF Spec, ImplementsVerification, Promise!Spec

=============================================================================
