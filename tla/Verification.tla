---------------------------- MODULE Verification ----------------------------
(***************************************************************************)
(* What the verification of addresses promises, without rows, requests or  *)
(* transactions: an account is claimed, verified and closed, in this order *)
(* and once; two accounts never have one address; and who verifies an      *)
(* account has presented digits that were a live code of it and of no      *)
(* other.                                                                  *)
(***************************************************************************)
CONSTANTS Emails, Accounts, Values, NoEmail

VARIABLES
  accounts,  \* accounts that exist
  email,     \* the address each was claimed for, NoEmail before
  verified,  \* those that have been verified
  live,      \* <<account, digits>> of the codes that can be presented
  presented  \* <<account, digits>> that somebody has presented

vars == <<accounts, email, verified, live, presented>>

Init ==
  /\ accounts = {}
  /\ email = [a \in Accounts |-> NoEmail]
  /\ verified = {}
  /\ live = {}
  /\ presented = {}

\* An account starts with a code.
Claim(a, e, c) ==
  /\ email[a] = NoEmail
  /\ \A b \in accounts : email[b] # e
  /\ accounts' = accounts \cup {a}
  /\ email' = [email EXCEPT ![a] = e]
  /\ live' = live \cup {<<a, c>>}
  /\ UNCHANGED <<verified, presented>>

IssueCode(a, c) ==
  /\ a \in accounts
  /\ live' = live \cup {<<a, c>>}
  /\ UNCHANGED <<accounts, email, verified, presented>>

\* Codes expire and are invalidated, attempts are given up.
Lapse ==
  /\ live' \subseteq live
  /\ presented' \subseteq presented
  /\ UNCHANGED <<accounts, email, verified>>

\* Digits say by themselves whose they are, or they are refused.
Present(a, c) ==
  /\ {b \in Accounts : <<b, c>> \in live} = {a}
  /\ presented' = presented \cup {<<a, c>>}
  /\ UNCHANGED <<accounts, email, verified, live>>

\* The attempt ends, and with it the life of codes of the account.
Verify(a) ==
  /\ a \in accounts
  /\ \E c \in Values : <<a, c>> \in presented
  /\ verified' = verified \cup {a}
  /\ live' \subseteq live
  /\ \A p \in live \ live' : p[1] = a
  /\ presented' \subseteq presented
  /\ UNCHANGED <<accounts, email>>

\* Nobody can close an account that is not verified.
Close(a) ==
  /\ a \in verified
  /\ accounts' = accounts \ {a}
  /\ verified' = verified \ {a}
  /\ live' = {p \in live : p[1] # a}
  /\ UNCHANGED <<email, presented>>

Next ==
  \/ Lapse
  \/ \E a \in Accounts :
       \/ \E c \in Values :
            \/ \E e \in Emails : Claim(a, e, c)
            \/ IssueCode(a, c)
            \/ Present(a, c)
       \/ Verify(a)
       \/ Close(a)

Spec == Init /\ [][Next]_vars

=============================================================================
