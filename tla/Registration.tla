---------------------------- MODULE Registration ----------------------------
(***************************************************************************)
(* Accounts and the codes that verify their addresses: register,           *)
(* verify_email and resend_code of app/services/auth_service.py, run       *)
(* concurrently by several requests and against delete_account.            *)
(*                                                                         *)
(* Each action is the code from one wait for the database to the next, on  *)
(* PostgreSQL at READ COMMITTED as in module Conversations.  A request     *)
(* refused before it writes anything is no step.  A row that only its      *)
(* transaction can see is inserted by the step that commits it.            *)
(***************************************************************************)
EXTENDS Naturals, FiniteSets

CONSTANTS
  Emails,    \* addresses
  Accounts,  \* ids of users; bounds the registrations
  Rows,      \* ids of email_verification_codes; bounds the codes issued
  Values,    \* the codes of six digits
  Requests,  \* requests that can be in progress at the same time
  NoEmail, NoAccount, NoValue, NoRow

ASSUME SentinelsAssumption ==
  /\ NoEmail \notin Emails /\ NoAccount \notin Accounts
  /\ NoValue \notin Values /\ NoRow \notin Rows

VARIABLES
  users,    \* rows of users
  email,    \* their email, kept when the row is gone, NoEmail if never used
  active,   \* those with is_active
  codes,    \* rows of email_verification_codes
  owner,    \* their user_id, kept when the row is gone, NoAccount if never used
  value,    \* their code, likewise
  fresh,    \* codes issued less than ten minutes ago
  sent,     \* codes that have left the server, by mail or on its standard output
  raced,    \* history: those issued when the account had been verified, or was being
  pc,       \* where each request is
  address,  \* the address it registers
  account,  \* the user it is for
  row,      \* the code it has found, or has issued
  typed,    \* the digits that it was called with
  seen      \* the rows that its DELETE has seen

userRows == <<users, email, active>>
codeRows == <<codes, owner, value, fresh, raced>>
requestVars == <<pc, address, account, row, typed, seen>>
vars == <<userRows, codeRows, sent, requestVars>>

CodesOf(a) == {k \in codes : owner[k] = a}

\* Row locks, held until the commit: verify_email has flushed its UPDATE of the
\* user, delete_account has executed its DELETE of the codes.
UserLocks(r) == IF pc[r] = "deleteCodes" THEN {account[r]} ELSE {}
CodeLocks(r) == IF pc[r] = "deleteUser" THEN seen[r] ELSE {}

UsersLockedByOthers(r) == UNION {UserLocks(q) : q \in Requests \ {r}}
CodesLockedByOthers(r) == UNION {CodeLocks(q) : q \in Requests \ {r}}

Init ==
  /\ users = {}
  /\ email = [a \in Accounts |-> NoEmail]
  /\ active = {}
  /\ codes = {}
  /\ owner = [k \in Rows |-> NoAccount]
  /\ value = [k \in Rows |-> NoValue]
  /\ fresh = {}
  /\ sent = {}
  /\ raced = {}
  /\ pc = [r \in Requests |-> "idle"]
  /\ address = [r \in Requests |-> NoEmail]
  /\ account = [r \in Requests |-> NoAccount]
  /\ row = [r \in Requests |-> NoRow]
  /\ typed = [r \in Requests |-> NoValue]
  /\ seen = [r \in Requests |-> {}]

Goto(r, l) == pc' = [pc EXCEPT ![r] = l]

\* The request is over and its session closed: locks are released.
Release(r) ==
  /\ Goto(r, "idle")
  /\ address' = [address EXCEPT ![r] = NoEmail]
  /\ account' = [account EXCEPT ![r] = NoAccount]
  /\ row' = [row EXCEPT ![r] = NoRow]
  /\ typed' = [typed EXCEPT ![r] = NoValue]
  /\ seen' = [seen EXCEPT ![r] = {}]

\* What is not committed is rolled back.
Fail(r) == Release(r) /\ UNCHANGED <<userRows, codeRows, sent>>

-----------------------------------------------------------------------------
(* register and resend_code. *)

Registered(e) == \E a \in users : email[a] = e

\* The unique index of the column email.
Free(e) == ~ Registered(e)

Unissued == {k \in Rows : owner[k] = NoAccount}

\* Bound: a request that issues a code may start only while one is left.
RoomForAnother ==
  Cardinality({r \in Requests : pc[r] \in {"insertUser", "insertCode"}})
    < Cardinality(Unissued)

\* Somebody is at the point where verify_email has read the codes to delete.
BeingVerified(a) ==
  \E q \in Requests : pc[q] \in {"deleteCodes", "redelete"} /\ account[q] = a

\* A new row with a random code for a.
Issue(r, a) ==
  \E k \in Unissued, c \in Values :
    /\ codes' = codes \cup {k}
    /\ owner' = [owner EXCEPT ![k] = a]
    /\ value' = [value EXCEPT ![k] = c]
    /\ fresh' = fresh \cup {k}
    /\ raced' = IF a \in active \/ BeingVerified(a) THEN raced \cup {k} ELSE raced
    /\ row' = [row EXCEPT ![r] = k]

Unborn == {a \in Accounts : email[a] = NoEmail}

\* register: the SELECT finds no user with the address.  Bound: as above, for
\* the accounts.
BeginRegister(r, e) ==
  /\ pc[r] = "idle"
  /\ RoomForAnother
  /\ Cardinality({q \in Requests : pc[q] = "insertUser"}) < Cardinality(Unborn)
  /\ ~ Registered(e)
  /\ address' = [address EXCEPT ![r] = e]
  /\ Goto(r, "insertUser")
  /\ UNCHANGED <<userRows, codeRows, sent, account, row, typed, seen>>

\* Mutant: the user is committed before there is a code.
InsertUserAlone(r) ==
  /\ pc[r] = "insertUser"
  /\ \E a \in Unborn :
       /\ users' = users \cup {a}
       /\ email' = [email EXCEPT ![a] = address[r]]
       /\ account' = [account EXCEPT ![r] = a]
  /\ Goto(r, "insertCode")
  /\ UNCHANGED <<active, codeRows, sent, address, row, typed, seen>>

\* register: the user and the first code are committed together.  Who comes
\* second waits at the unique index and then fails.
InsertUser(r) ==
  /\ pc[r] = "insertUser"
  /\ \/ /\ Free(address[r])
        /\ \E a \in Unborn :
             /\ users' = users \cup {a}
             /\ email' = [email EXCEPT ![a] = address[r]]
             /\ account' = [account EXCEPT ![r] = a]
             /\ Issue(r, a)
        /\ Goto(r, "mail")
        /\ UNCHANGED <<active, sent, address, typed, seen>>
     \/ /\ ~ Free(address[r])
        /\ Fail(r)

\* resend_code: the SELECT finds the user, not active.
BeginResend(r, a) ==
  /\ pc[r] = "idle"
  /\ RoomForAnother
  /\ a \in users \ active
  /\ account' = [account EXCEPT ![r] = a]
  /\ Goto(r, "insertCode")
  /\ UNCHANGED <<userRows, codeRows, sent, address, row, typed, seen>>

\* Mutant: the mail is sent before the commit, which then fails.
InsertCodeAfterMail(r) ==
  /\ pc[r] = "insertCode"
  /\ \E k \in Unissued, c \in Values :
       /\ owner' = [owner EXCEPT ![k] = account[r]]
       /\ value' = [value EXCEPT ![k] = c]
       /\ sent' = sent \cup {k}
  /\ Release(r)
  /\ UNCHANGED <<userRows, codes, fresh, raced>>

\* resend_code: the insert and the commit.
InsertCode(r) ==
  /\ pc[r] = "insertCode"
  /\ \/ /\ account[r] \in users
        /\ Issue(r, account[r])
        /\ Goto(r, "mail")
        /\ UNCHANGED <<userRows, sent, address, account, typed, seen>>
     \/ /\ account[r] \notin users
        /\ Fail(r)

\* send_verification_code: the code goes out by mail or, without a mail server
\* or when it fails, on the standard output.
Mail(r) ==
  /\ pc[r] = "mail"
  /\ sent' = sent \cup {row[r]}
  /\ Release(r)
  /\ UNCHANGED <<userRows, codeRows>>

\* Ten minutes pass.
Expire(k) ==
  /\ k \in fresh
  /\ fresh' = fresh \ {k}
  /\ UNCHANGED <<userRows, codes, owner, value, raced, sent, requestVars>>

-----------------------------------------------------------------------------
(* verify_email. *)

\* Mutant: a code that has expired will do.
MatchesExpired(c) == {k \in codes : value[k] = c}

\* The rows that digits stand for.
Matches(c) == {k \in codes \cap fresh : value[k] = c}

\* verify_email: somebody types in any digits, those of a code or guessed ones.
\* If two rows match, scalar_one_or_none raises.
FindCode(r, c) ==
  /\ pc[r] = "idle"
  /\ \/ \E k \in Rows :
          /\ Matches(c) = {k}
          /\ row' = [row EXCEPT ![r] = k]
          /\ account' = [account EXCEPT ![r] = owner[k]]
          /\ typed' = [typed EXCEPT ![r] = c]
          /\ Goto(r, "readUser")
          /\ UNCHANGED <<userRows, codeRows, sent, address, seen>>
     \/ /\ Cardinality(Matches(c)) > 1
        /\ Fail(r)

\* verify_email: the user is read; is_active only has to be written, and the
\* row locked, when it is not set.
ReadUser(r) ==
  /\ pc[r] = "readUser"
  /\ \/ /\ account[r] \in users
        /\ Goto(r, IF account[r] \in active THEN "reread" ELSE "activate")
        /\ UNCHANGED <<userRows, codeRows, sent, address, account, row, typed, seen>>
     \/ /\ account[r] \notin users
        /\ Fail(r)

\* The SELECT of all codes flushes is_active = True first.
Activate(r) ==
  /\ pc[r] = "activate"
  /\ account[r] \notin UsersLockedByOthers(r)
  /\ \/ /\ account[r] \in users
        /\ seen' = [seen EXCEPT ![r] = CodesOf(account[r])]
        /\ Goto(r, "deleteCodes")
        /\ UNCHANGED <<userRows, codeRows, sent, address, account, row, typed>>
     \/ /\ account[r] \notin users
        /\ Fail(r)

\* The same SELECT, with nothing to flush.
Reread(r) ==
  /\ pc[r] = "reread"
  /\ seen' = [seen EXCEPT ![r] = CodesOf(account[r])]
  /\ Goto(r, "redelete")
  /\ UNCHANGED <<userRows, codeRows, sent, address, account, row, typed>>

\* Mutant: only the code that was typed in is deleted.
DeleteCodeOnly(r) ==
  /\ pc[r] \in {"deleteCodes", "redelete"}
  /\ codes' = codes \ {row[r]}
  /\ active' = IF pc[r] = "deleteCodes" THEN active \cup {account[r]} ELSE active
  /\ Release(r)
  /\ UNCHANGED <<users, email, owner, value, fresh, raced, sent>>

\* verify_email: the rows are deleted one by one and the changes committed; rows
\* that are gone by now only make a warning.
DeleteCodes(r) ==
  /\ pc[r] \in {"deleteCodes", "redelete"}
  /\ seen[r] \cap CodesLockedByOthers(r) = {}
  /\ codes' = codes \ seen[r]
  /\ active' = IF pc[r] = "deleteCodes" THEN active \cup {account[r]} ELSE active
  /\ Release(r)
  /\ UNCHANGED <<users, email, owner, value, fresh, raced, sent>>

-----------------------------------------------------------------------------
(* delete_account. *)

\* The user has logged in, which takes a verified address.  The DELETE of the
\* codes starts with the rows it sees.
BeginDelete(r, a) ==
  /\ pc[r] = "idle"
  /\ a \in active
  /\ account' = [account EXCEPT ![r] = a]
  /\ seen' = [seen EXCEPT ![r] = CodesOf(a)]
  /\ Goto(r, "dropCodes")
  /\ UNCHANGED <<userRows, codeRows, sent, address, row, typed>>

\* It waits for the rows that others lock and skips those that are gone.
DropCodes(r) ==
  /\ pc[r] = "dropCodes"
  /\ seen[r] \cap CodesLockedByOthers(r) = {}
  /\ seen' = [seen EXCEPT ![r] = @ \cap codes]
  /\ Goto(r, "deleteUser")
  /\ UNCHANGED <<userRows, codeRows, sent, address, account, row, typed>>

\* Mutant: no foreign key on email_verification_codes.user_id.
DeleteUserUnchecked(r) ==
  /\ pc[r] = "deleteUser"
  /\ users' = users \ {account[r]}
  /\ active' = active \ {account[r]}
  /\ codes' = codes \ seen[r]
  /\ Release(r)
  /\ UNCHANGED <<email, owner, value, fresh, raced, sent>>

\* The DELETE of the user and the commit: a code issued since is a foreign key
\* error, and so may be a row of another table (module Messaging).
DeleteUser(r) ==
  /\ pc[r] = "deleteUser"
  /\ account[r] \notin UsersLockedByOthers(r)
  /\ \/ /\ CodesOf(account[r]) \subseteq seen[r]
        /\ users' = users \ {account[r]}
        /\ active' = active \ {account[r]}
        /\ codes' = codes \ seen[r]
        /\ Release(r)
        /\ UNCHANGED <<email, owner, value, fresh, raced, sent>>
     \/ Fail(r)

-----------------------------------------------------------------------------

\* The worker dies or is replaced; a code that has not been sent never is.
Crash(r) == pc[r] # "idle" /\ Fail(r)

\* Each waits for a lock of the other.
Deadlocked(r, q) ==
  /\ pc[r] = "deleteCodes" /\ pc[q] = "deleteUser"
  /\ seen[r] \cap seen[q] # {}
  /\ account[r] = account[q]

\* Mutant: the database waits, too.
NeverNoticed(r, q) == r = q /\ Deadlocked(r, q) /\ Fail(r)

\* PostgreSQL notices and one of the two gets an error.
BreakDeadlock(r, q) == Deadlocked(r, q) /\ (Fail(r) \/ Fail(q))

Step(r) ==
  \/ InsertUser(r) \/ InsertCode(r) \/ Mail(r)
  \/ ReadUser(r) \/ Activate(r) \/ Reread(r) \/ DeleteCodes(r)
  \/ DropCodes(r) \/ DeleteUser(r)

Next ==
  \/ \E r \in Requests :
       \/ \E e \in Emails : BeginRegister(r, e)
       \/ \E a \in Accounts : BeginResend(r, a) \/ BeginDelete(r, a)
       \/ \E c \in Values : FindCode(r, c)
       \/ Step(r)
       \/ Crash(r)
       \/ \E q \in Requests : BreakDeadlock(r, q)
  \/ \E k \in Rows : Expire(k)

\* The event loop resumes every coroutine that can go on; PostgreSQL grants
\* row locks in turn and notices deadlocks.
Fairness ==
  \A r \in Requests :
    SF_vars(Step(r)) /\ WF_vars(\E q \in Requests : BreakDeadlock(r, q))

Spec == Init /\ [][Next]_vars

FairSpec == Spec /\ Fairness

-----------------------------------------------------------------------------

PCs == {"idle", "insertUser", "insertCode", "mail", "readUser", "activate",
        "reread", "deleteCodes", "redelete", "dropCodes", "deleteUser"}

\* Every variable stays in its type; codes belong to users that exist.
TypeOK ==
  /\ users \subseteq Accounts
  /\ email \in [Accounts -> Emails \cup {NoEmail}]
  /\ active \subseteq users
  /\ codes \subseteq {k \in Rows : owner[k] \in users}
  /\ owner \in [Rows -> Accounts \cup {NoAccount}]
  /\ value \in [Rows -> Values \cup {NoValue}]
  /\ fresh \subseteq Rows
  /\ sent \subseteq Rows
  /\ raced \subseteq Rows
  /\ pc \in [Requests -> PCs]
  /\ address \in [Requests -> Emails \cup {NoEmail}]
  /\ account \in [Requests -> Accounts \cup {NoAccount}]
  /\ row \in [Requests -> Rows \cup {NoRow}]
  /\ typed \in [Requests -> Values \cup {NoValue}]
  /\ seen \in [Requests -> SUBSET Rows]

\* register is all or nothing: who is not verified has a code, expired perhaps,
\* and verify_email takes it away only as it activates.
InactiveHasCode == \A a \in users \ active : CodesOf(a) # {}

\* A code is sent after its commit: whoever has got one need not fear that it
\* was rolled back.
MailedCodeIsStored ==
  \A k \in sent : k \in codes \/ owner[k] \in active \/ owner[k] \notin users

Verifying == {"readUser", "activate", "reread", "deleteCodes", "redelete"}

Promise == INSTANCE Verification WITH
  accounts <- users,
  verified <- active,
  live <- {<<owner[k], value[k]>> : k \in codes \cap fresh},
  presented <- {<<account[r], typed[r]>> : r \in {q \in Requests : pc[q] \in Verifying}}

\* An account is verified only by a request whose digits, when they were
\* looked up, were those of a live code of this account and of no other; the
\* code may have expired or be gone since.  An address is free when it is
\* claimed, and an account that is closed was verified and takes its codes
\* along.  Neither a lost transaction nor one that overlaps with others, nor
\* a code that is found, read and deleted by two requests, shows.
ImplementsVerification == Promise!Spec

\* The codes that a verified account still has were issued while, or after, it
\* was being verified.
LeftoversComeFromRaces ==
  \A k \in codes : owner[k] \in active => k \in raced

\* "Invalidate ALL verification codes for this user": a verified account has
\* no code.
CodesAreInvalidated == \A a \in active : CodesOf(a) = {}

\* Every request comes back, from a deadlock with an error.
EveryRequestReturns ==
  \A r \in Requests : pc[r] # "idle" ~> pc[r] = "idle"

=============================================================================
