------------------------------ MODULE Sessions ------------------------------
(***************************************************************************)
(* What refresh tokens promise, without statements, locks or crashes: a    *)
(* store of tokens in which signing in, exchanging a token, signing out    *)
(* and closing an account each happen at one instant.                      *)
(*                                                                         *)
(* A request first presents a token, which must then be good, and          *)
(* exchanges it later.  Others may have presented the same one.            *)
(***************************************************************************)
CONSTANTS Users, Tokens, Requests, NoUser, NoToken

VARIABLES
  accounts,   \* users that have an account
  holder,     \* the user of each token in the store, NoUser for any other
  spent,      \* tokens in the store that are good for nothing
  ended,      \* tokens that somebody has signed out with
  given,      \* tokens that have been given out, in the store or not
  origin,     \* the token each was given for, NoToken after signing in
  presented   \* the token each request is about to exchange

vars == <<accounts, holder, spent, ended, given, origin, presented>>

InStore(t) == holder[t] # NoUser

Init ==
  /\ accounts = Users
  /\ holder = [t \in Tokens |-> NoUser]
  /\ spent = {}
  /\ ended = {}
  /\ given = {}
  /\ origin = [t \in Tokens |-> NoToken]
  /\ presented = [r \in Requests |-> NoToken]

\* Each token is given to one user, once.
Give(u, t, from) ==
  /\ u \in accounts
  /\ t \notin given
  /\ holder' = [holder EXCEPT ![t] = u]
  /\ given' = given \cup {t}
  /\ origin' = [origin EXCEPT ![t] = from]

SignIn(u, t) ==
  /\ Give(u, t, NoToken)
  /\ UNCHANGED <<accounts, spent, ended, presented>>

Present(r, t) ==
  /\ presented[r] = NoToken
  /\ InStore(t) /\ t \notin spent
  /\ presented' = [presented EXCEPT ![r] = t]
  /\ UNCHANGED <<accounts, holder, spent, ended, given, origin>>

\* The token presented is spent and another given for it, to the same user.
Exchange(r, t) ==
  /\ presented[r] # NoToken /\ InStore(presented[r])
  /\ Give(holder[presented[r]], t, presented[r])
  /\ spent' = spent \cup {presented[r]}
  /\ presented' = [presented EXCEPT ![r] = NoToken]
  /\ UNCHANGED <<accounts, ended>>

\* The request gives up; the token is as good as before.
Withdraw(r) ==
  /\ presented' = [presented EXCEPT ![r] = NoToken]
  /\ UNCHANGED <<accounts, holder, spent, ended, given, origin>>

SignOut(t) ==
  /\ InStore(t)
  /\ spent' = spent \cup {t}
  /\ ended' = ended \cup {t}
  /\ UNCHANGED <<accounts, holder, given, origin, presented>>

\* The account goes, and all tokens of it.
Close(u) ==
  /\ accounts' = accounts \ {u}
  /\ holder' = [t \in Tokens |-> IF holder[t] = u THEN NoUser ELSE holder[t]]
  /\ spent' = {t \in spent : holder[t] # u}
  /\ UNCHANGED <<ended, given, origin, presented>>

Next ==
  \/ \E u \in Users : Close(u)
  \/ \E u \in Users, t \in Tokens : SignIn(u, t)
  \/ \E t \in Tokens : SignOut(t)
  \/ \E r \in Requests : Withdraw(r) \/ \E t \in Tokens : Present(r, t) \/ Exchange(r, t)

Spec == Init /\ [][Next]_vars

=============================================================================
