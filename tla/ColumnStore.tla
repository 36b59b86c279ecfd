---------------------------- MODULE ColumnStore ----------------------------
(***************************************************************************)
(* What concurrent requests on rows of users promise, without sessions,    *)
(* statements or connections: each column a request asks for is read, and  *)
(* each one it sets is written, at one instant while the request is in     *)
(* progress.  Different columns of one request may have different          *)
(* instants, and a request that gives up may have written some.            *)
(***************************************************************************)
EXTENDS FiniteSets

CONSTANTS
  Users, Requests, Columns, Values,
  NoQuestion  \* of a request that asks nothing

VARIABLES
  accounts,  \* users that have a row
  row,       \* the columns of each
  asked,     \* what each request wants: columns to read, values some of them
             \* must have, columns to write
  saw,       \* the columns it has read
  did,       \* the columns it has written
  answered   \* requests that have been answered

vars == <<accounts, row, asked, saw, did, answered>>

PartialRows == UNION {[C -> Values] : C \in SUBSET Columns}

Questions ==
  [user : Users, reads : SUBSET Columns, expects : PartialRows, writes : PartialRows]

Nothing == [c \in {} |-> c]

Init ==
  /\ accounts = Users
  /\ row \in [Users -> [Columns -> Values]]
  /\ asked = [r \in Requests |-> NoQuestion]
  /\ saw = [r \in Requests |-> Nothing]
  /\ did = [r \in Requests |-> {}]
  /\ answered = {}

\* A request comes with a question.
Ask(r) ==
  /\ asked[r] = NoQuestion
  /\ asked'[r] \in Questions
  /\ asked' = [asked EXCEPT ![r] = asked'[r]]
  /\ UNCHANGED <<accounts, row, saw, did, answered>>

\* Some columns are read and some written, now.
Effect(r, R, W) ==
  LET q == asked[r] IN
  /\ q.user \in accounts
  /\ saw' = [saw EXCEPT ![r] =
               [c \in DOMAIN @ \cup R |-> IF c \in R THEN row[q.user][c] ELSE @[c]]]
  /\ did' = [did EXCEPT ![r] = @ \cup W]
  /\ row' = [row EXCEPT ![q.user] =
               [c \in Columns |-> IF c \in W THEN q.writes[c] ELSE @[c]]]

NoEffect(r) == UNCHANGED <<row, saw, did>>

\* Everything the request wants has happened.
Complete(r) ==
  LET q == asked[r] IN
  /\ DOMAIN saw[r] = q.reads
  /\ did[r] = DOMAIN q.writes
  /\ \A c \in DOMAIN q.expects : saw[r][c] = q.expects[c]

\* A step of a request: effects, the answer, or both.
Work(r) ==
  /\ asked[r] # NoQuestion /\ r \notin answered
  /\ \/ NoEffect(r)
     \/ \E R \in SUBSET (asked[r].reads \ DOMAIN saw[r]) :
          \E W \in SUBSET (DOMAIN asked[r].writes \ did[r]) : Effect(r, R, W)
  /\ \/ UNCHANGED answered
     \/ Complete(r)' /\ answered' = answered \cup {r}
  /\ UNCHANGED <<accounts, asked>>

\* The request is over, answered or not.
Leave(r) ==
  /\ asked' = [asked EXCEPT ![r] = NoQuestion]
  /\ saw' = [saw EXCEPT ![r] = Nothing]
  /\ did' = [did EXCEPT ![r] = {}]
  /\ answered' = answered \ {r}
  /\ UNCHANGED <<accounts, row>>

\* An account goes.
Close(u) ==
  /\ accounts' = accounts \ {u}
  /\ UNCHANGED <<row, asked, saw, did, answered>>

Next ==
  \/ \E r \in Requests : Ask(r) \/ Work(r) \/ Leave(r)
  \/ \E u \in Users : Close(u)

Spec == Init /\ [][Next]_vars

=============================================================================
