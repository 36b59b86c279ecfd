--------------------------- MODULE HistoryProofs ---------------------------
(***************************************************************************)
(* Paging and read marks, proved for any number of messages, clients and   *)
(* users and any page size.                                                *)
(***************************************************************************)
EXTENDS History, FiniteSetTheorems, TLAPS

\* A walk has a cursor exactly from its first page on; all it was shown comes
\* before what follows the cursor.
CursorPasses ==
  \A w \in Walks : pc[w] = "asked" =>
    /\ cursor[w] = NoMsg <=> pages[w] = <<>>
    /\ cursor[w] # NoMsg =>
         \A m \in Shown(w) : m = cursor[w] \/ Newer(m, cursor[w])

\* What was there at the beginning has been shown or is still to come.
NothingSkipped ==
  \A w \in Walks : pc[w] = "asked" =>
    \A m \in before[w] : m \in Shown(w) \/ m \in Left(w)

\* The first page has the newest of what was there at the beginning.
FirstIsNewest ==
  \A w \in Walks : pages[w] # <<>> =>
    \A m \in pages[w][1], k \in before[w] : k \in pages[w][1] \/ Newer(m, k)

\* A mark is not older than what it has cleared.
MarkIsNewest ==
  \A u \in Users :
    /\ mark[u] = NoMsg => cleared[u] = {}
    /\ \A k \in cleared[u] : time[k] <= time[mark[u]]

IdleIsEmpty == \A w \in Walks : pc[w] = "idle" => pages[w] = <<>> /\ cursor[w] = NoMsg

IInv ==
  /\ TypeOK
  /\ CursorPasses
  /\ NothingSkipped
  /\ FirstIsNewest
  /\ MarkIsNewest
  /\ IdleIsEmpty
  /\ PagesDescend
  /\ WalkIsComplete

-----------------------------------------------------------------------------

\* The order of pages is total.
LEMMA NewerIsOrder ==
  ASSUME TypeOK
  PROVE  /\ \A m, k \in Msgs : m = k \/ Newer(m, k) \/ Newer(k, m)
         /\ \A m, k \in Msgs : ~ (Newer(m, k) /\ Newer(k, m)) /\ ~ Newer(m, m)
         /\ \A m, k, l \in Msgs : Newer(m, k) /\ Newer(k, l) => Newer(m, l)
<1>1. Msgs \subseteq Nat /\ \A m \in Msgs : time[m] \in Nat
  BY HistoryAssumption DEF TypeOK
<1> QED
  BY <1>1 DEF Newer

LEMMA FinitelyMany ==
  ASSUME NEW S \in SUBSET Msgs
  PROVE  IsFiniteSet(S) /\ Cardinality(S) \in Nat
<1>1. IsFiniteSet(S)
  BY HistoryAssumption, FS_Subset
<1> QED
  BY <1>1, FS_CardinalityType

\* The rows of a page are newer than all the others...
LEMMA NewestIsNewer ==
  ASSUME TypeOK, NEW S \in SUBSET Msgs, NEW m \in Newest(S), NEW k \in S, k \notin Newest(S)
  PROVE  Newer(m, k)
<1> DEFINE Before(x) == {l \in S : Newer(l, x)}
<1>1. SUFFICES ASSUME Newer(k, m)
               PROVE  FALSE
  BY NewerIsOrder DEF Newest
<1>2. Before(k) \subseteq Before(m)
  BY <1>1, NewerIsOrder DEF Newest
<1>3. Before(m) \in SUBSET Msgs /\ Before(k) \in SUBSET Msgs
  OBVIOUS
<1>4. Cardinality(Before(k)) <= Cardinality(Before(m))
  BY <1>2, <1>3, FinitelyMany, FS_Subset
<1>5. Cardinality(Before(k)) \in Nat /\ Cardinality(Before(m)) \in Nat
  BY <1>3, FinitelyMany
<1>6. Cardinality(Before(m)) < Limit /\ ~ (Cardinality(Before(k)) < Limit)
  BY DEF Newest
<1> HIDE DEF Before
<1> QED
  BY <1>4, <1>5, <1>6, HistoryAssumption

\* ... and if there are no more than fit, they are all of them.
LEMMA NewestOfFew ==
  ASSUME TypeOK, NEW S \in SUBSET Msgs, Cardinality(S) <= Limit
  PROVE  Newest(S) = S
<1> SUFFICES ASSUME NEW m \in S
             PROVE  Cardinality({l \in S : Newer(l, m)}) < Limit
  BY DEF Newest
<1> DEFINE T == {l \in S : Newer(l, m)}
<1>1. T \in SUBSET S /\ m \notin T
  BY NewerIsOrder
<1>2. IsFiniteSet(S) /\ Cardinality(S) \in Nat /\ Cardinality(T) \in Nat
  BY <1>1, FinitelyMany
<1>3. Cardinality(T) <= Cardinality(S) /\ Cardinality(T) # Cardinality(S)
  BY <1>1, <1>2, FS_Subset
<1> HIDE DEF T
<1>4. Cardinality(T) < Limit
  BY <1>2, <1>3, HistoryAssumption
<1> QED
  BY <1>4 DEF T

\* A page is appended to what was shown.
LEMMA Appended ==
  ASSUME TypeOK, NEW w \in Walks, NEW P \in SUBSET committed,
         pages' = [pages EXCEPT ![w] = Append(@, P)]
  PROVE  /\ Len(pages[w]) \in Nat
         /\ DOMAIN pages[w] = 1 .. Len(pages[w])
         /\ DOMAIN pages'[w] = 1 .. Len(pages[w]) + 1
         /\ \A i \in DOMAIN pages[w] : pages'[w][i] = pages[w][i]
         /\ pages'[w][Len(pages[w]) + 1] = P
         /\ pages'[w] \in Seq(SUBSET committed) /\ pages'[w] # <<>>
         /\ Shown(w)' = Shown(w) \cup P
         /\ Shown(w) \subseteq committed
         /\ \A v \in Walks \ {w} : pages'[v] = pages[v]
<1> DEFINE p == pages[w]
           T == SUBSET committed
<1>1. p \in Seq(T) /\ P \in T /\ pages'[w] = Append(p, P)
      /\ \A v \in Walks \ {w} : pages'[v] = pages[v]
  BY DEF TypeOK
<1> HIDE DEF p, T
<1> DEFINE q == Append(p, P)
<1>a. /\ Len(p) \in Nat /\ DOMAIN p = 1 .. Len(p) /\ q \in Seq(T)
      /\ Len(q) = Len(p) + 1 /\ q[Len(p) + 1] = P
      /\ \A i \in DOMAIN p : q[i] = p[i] /\ p[i] \in T
  BY <1>1
<1>b. DOMAIN q = 1 .. Len(p) + 1 /\ q # <<>>
  BY <1>a
<1>2. /\ Len(p) \in Nat /\ DOMAIN p = 1 .. Len(p) /\ DOMAIN pages'[w] = 1 .. Len(p) + 1
      /\ \A i \in DOMAIN p : pages'[w][i] = p[i] /\ p[i] \in T
      /\ pages'[w][Len(p) + 1] = P
      /\ pages'[w] \in Seq(T) /\ pages'[w] # <<>>
  BY <1>1, <1>a, <1>b
<1>3. \A m : (\E i \in DOMAIN pages'[w] : m \in pages'[w][i])
               <=> (\E i \in DOMAIN p : m \in p[i]) \/ m \in P
  BY <1>2
<1>4. Shown(w)' = Shown(w) \cup P
  BY <1>3 DEF Shown, p
<1>5. Shown(w) \subseteq committed
  BY <1>2 DEF Shown, p, T
<1> QED
  BY <1>1, <1>2, <1>4, <1>5 DEF p, T

-----------------------------------------------------------------------------

\* Messages that are not committed come and go, time passes: what is committed
\* keeps its place in the order.
LEMMA UnseenKeeps ==
  ASSUME IInv, TypeOK', UNCHANGED <<committed, markVars, walkVars>>,
         \A m \in committed : time'[m] = time[m] /\ sender'[m] = sender[m]
  PROVE  IInv'
<1>1. \A m, k \in committed : Newer(m, k)' <=> Newer(m, k)
  BY DEF Newer
<1>2. /\ \A w \in Walks : /\ Shown(w)' = Shown(w) /\ Shown(w) \subseteq committed
                          /\ cursor[w] \in committed \cup {NoMsg}
                          /\ before[w] \subseteq committed
                          /\ \A i \in DOMAIN pages[w] : pages[w][i] \subseteq committed
      /\ committed \subseteq Msgs
  <2>1. \A w \in Walks : \A i \in DOMAIN pages[w] : pages[w][i] \subseteq committed
    <3> SUFFICES ASSUME NEW w \in Walks
                 PROVE  \A i \in DOMAIN pages[w] : pages[w][i] \subseteq committed
      OBVIOUS
    <3> DEFINE T == SUBSET committed
    <3>1. pages[w] \in Seq(T)
      BY DEF IInv, TypeOK
    <3>2. \A i \in DOMAIN pages[w] : pages[w][i] \in T
      <4> HIDE DEF T
      <4> QED
        BY <3>1
    <3> QED
      BY <3>2
  <2>2. committed \subseteq Msgs /\ \A w \in Walks : /\ cursor[w] \in committed \cup {NoMsg}
                                                  /\ before[w] \subseteq committed
    BY DEF IInv, TypeOK
  <2>3. \A w \in Walks : Shown(w)' = Shown(w) /\ Shown(w) \subseteq committed
    BY <2>1 DEF Shown, walkVars
  <2> QED
    BY <2>1, <2>2, <2>3
<1>3. CursorPasses'
  BY <1>1, <1>2 DEF IInv, CursorPasses, walkVars
<1>4. NothingSkipped'
  BY <1>1, <1>2 DEF IInv, NothingSkipped, Left, walkVars
<1>5. FirstIsNewest'
  <2>1. \A w \in Walks : pages[w] # <<>> => 1 \in DOMAIN pages[w]
    BY DEF IInv, TypeOK
  <2> QED
    BY <1>1, <1>2, <2>1 DEF IInv, FirstIsNewest, walkVars
<1>6. MarkIsNewest'
  <2>1. \A u \in Users : cleared[u] \subseteq committed /\ mark[u] \in committed \cup {NoMsg}
    BY DEF IInv, TypeOK
  <2> QED
    BY <2>1 DEF IInv, MarkIsNewest, markVars
<1>7. IdleIsEmpty' /\ WalkIsComplete'
  BY <1>2 DEF IInv, IdleIsEmpty, WalkIsComplete, walkVars
<1>8. PagesDescend'
  BY <1>1, <1>2 DEF IInv, PagesDescend, walkVars
<1> QED
  BY <1>3, <1>4, <1>5, <1>6, <1>7, <1>8 DEF IInv

LEMMA TickKeeps ==
  ASSUME IInv, Tick
  PROVE  IInv'
<1>1. TypeOK'
  BY DEF IInv, TypeOK, Tick, markVars, walkVars
<1> QED
  BY <1>1, UnseenKeeps DEF Tick

LEMMA FlushKeeps ==
  ASSUME IInv, NEW m \in Msgs, NEW u \in Users, Flush(m, u)
  PROVE  IInv'
<1>1. m \notin committed
  BY DEF IInv, TypeOK, Flush
<1>2. TypeOK'
  BY <1>1, HistoryAssumption DEF IInv, TypeOK, Flush, markVars, walkVars
<1> QED
  BY <1>1, <1>2, UnseenKeeps DEF IInv, TypeOK, Flush

LEMMA RollbackKeeps ==
  ASSUME IInv, NEW m \in Msgs, Rollback(m)
  PROVE  IInv'
<1>1. TypeOK'
  BY DEF IInv, TypeOK, Rollback, markVars, walkVars
<1> QED
  BY <1>1, UnseenKeeps DEF IInv, TypeOK, Rollback

\* A message appears, somewhere in the order: it only adds to what is left.
LEMMA CommitKeeps ==
  ASSUME IInv, NEW m \in Msgs, Commit(m)
  PROVE  IInv'
<1> USE DEF Commit
<1>1. \A k, l : Newer(k, l)' <=> Newer(k, l)
  BY DEF Newer
<1>2. /\ UNCHANGED <<walkVars, markVars>> /\ committed' = committed \cup {m}
      /\ \A w \in Walks : Shown(w)' = Shown(w) /\ Left(w) \subseteq Left(w)'
  BY <1>1 DEF Shown, Left, walkVars
<1>3. TypeOK'
  <2>1. pages \in [Walks -> Seq(SUBSET committed')]
    <3> DEFINE T == SUBSET committed
               U == SUBSET committed'
    <3>1. pages \in [Walks -> Seq(T)] /\ \A x \in T : x \in U
      BY <1>2 DEF IInv, TypeOK
    <3> HIDE DEF T, U
    <3>2. \A w \in Walks : pages[w] \in Seq(U)
      BY <3>1
    <3> QED
      BY <3>1, <3>2 DEF U
  <2> QED
    BY <1>2, <2>1 DEF IInv, TypeOK, walkVars, markVars
<1>4. CursorPasses' /\ FirstIsNewest' /\ IdleIsEmpty'
  BY <1>1, <1>2 DEF IInv, CursorPasses, FirstIsNewest, IdleIsEmpty, walkVars
<1>5. NothingSkipped'
  BY <1>2 DEF IInv, NothingSkipped, walkVars
<1>6. MarkIsNewest'
  BY DEF IInv, MarkIsNewest, markVars
<1>7. PagesDescend' /\ WalkIsComplete'
  BY <1>1, <1>2 DEF IInv, PagesDescend, WalkIsComplete, walkVars
<1> QED
  BY <1>3, <1>4, <1>5, <1>6, <1>7 DEF IInv

LEMMA BeginWalkKeeps ==
  ASSUME IInv, NEW w \in Walks, NEW u \in Users, BeginWalk(w, u)
  PROVE  IInv'
<1> USE DEF BeginWalk, messageVars, markVars
<1>1. /\ pages[w] = <<>> /\ cursor[w] = NoMsg
      /\ \A k, l : Newer(k, l)' <=> Newer(k, l)
      /\ \A v \in Walks : Shown(v)' = Shown(v) /\ Left(v)' = Left(v)
  BY DEF IInv, IdleIsEmpty, Newer, Shown, Left
<1>2. TypeOK'
  BY DEF IInv, TypeOK
<1>3. CursorPasses' /\ FirstIsNewest' /\ IdleIsEmpty'
  BY <1>1 DEF IInv, TypeOK, CursorPasses, FirstIsNewest, IdleIsEmpty
<1>4. NothingSkipped'
  BY <1>1 DEF IInv, TypeOK, NothingSkipped, Left
<1>5. MarkIsNewest' /\ PagesDescend' /\ WalkIsComplete'
  BY <1>1 DEF IInv, TypeOK, MarkIsNewest, PagesDescend, WalkIsComplete
<1> QED
  BY <1>2, <1>3, <1>4, <1>5 DEF IInv

LEMMA BeginAgainKeeps ==
  ASSUME IInv, NEW w \in Walks, BeginAgain(w)
  PROVE  IInv'
<1> USE DEF BeginAgain, messageVars, markVars
<1>1. /\ pages'[w] = <<>> /\ cursor'[w] = NoMsg /\ before'[w] = committed
      /\ \A k, l : Newer(k, l)' <=> Newer(k, l)
      /\ \A v \in Walks \ {w} : Shown(v)' = Shown(v) /\ Left(v)' = Left(v)
      /\ Left(w)' = committed
  BY DEF IInv, TypeOK, Newer, Shown, Left
<1>2. TypeOK'
  BY DEF IInv, TypeOK
<1>3. CursorPasses' /\ FirstIsNewest' /\ IdleIsEmpty'
  BY <1>1 DEF IInv, TypeOK, CursorPasses, FirstIsNewest, IdleIsEmpty
<1>4. NothingSkipped'
  BY <1>1 DEF IInv, TypeOK, NothingSkipped
<1>5. MarkIsNewest' /\ PagesDescend' /\ WalkIsComplete'
  BY <1>1 DEF IInv, TypeOK, MarkIsNewest, PagesDescend, WalkIsComplete
<1> QED
  BY <1>2, <1>3, <1>4, <1>5 DEF IInv

LEMMA EndWalkKeeps ==
  ASSUME IInv, NEW w \in Walks, EndWalk(w)
  PROVE  IInv'
<1> USE DEF EndWalk, messageVars, markVars
<1>1. /\ \A k, l : Newer(k, l)' <=> Newer(k, l)
      /\ \A v \in Walks \ {w} : Shown(v)' = Shown(v) /\ Left(v)' = Left(v)
  BY DEF IInv, TypeOK, Newer, Shown, Left
<1>2. TypeOK'
  BY DEF IInv, TypeOK
<1>3. CursorPasses' /\ FirstIsNewest' /\ IdleIsEmpty'
  BY <1>1 DEF IInv, TypeOK, CursorPasses, FirstIsNewest, IdleIsEmpty
<1>4. NothingSkipped'
  BY <1>1 DEF IInv, TypeOK, NothingSkipped
<1>5. MarkIsNewest' /\ PagesDescend' /\ WalkIsComplete'
  BY <1>1 DEF IInv, TypeOK, MarkIsNewest, PagesDescend, WalkIsComplete
<1> QED
  BY <1>2, <1>3, <1>4, <1>5 DEF IInv

\* The newest message of a first page is not older than what was there.
LEMMA MarkReadKeeps ==
  ASSUME IInv, NEW w \in Walks, MarkRead(w)
  PROVE  IInv'
<1> USE DEF messageVars, walkVars
<1>1. PICK m \in pages[w][1] :
        /\ \A k \in pages[w][1] \ {m} : Newer(m, k)
        /\ mark' = [mark EXCEPT ![reader[w]] = m]
  BY DEF MarkRead
<1>2. /\ pages[w] # <<>> /\ cleared' = [cleared EXCEPT ![reader[w]] = before[w]]
      /\ UNCHANGED <<messageVars, walkVars>>
  BY DEF MarkRead
<1>3. m \in committed /\ m # NoMsg
  <2> DEFINE T == SUBSET committed
  <2>1. pages[w] \in Seq(T)
    BY DEF IInv, TypeOK
  <2>2. pages[w][1] \in T
    <3> HIDE DEF T
    <3> QED
      BY <1>2, <2>1
  <2> QED
    BY <2>2, HistoryAssumption DEF IInv, TypeOK
<1>4. \A k \in before[w] : time[k] <= time[m]
  <2> SUFFICES ASSUME NEW k \in before[w]
               PROVE  time[k] <= time[m]
    OBVIOUS
  <2>1. k = m \/ Newer(m, k)
    BY <1>1, <1>2 DEF IInv, FirstIsNewest
  <2>2. time[k] \in Nat /\ time[m] \in Nat
    BY <1>3 DEF IInv, TypeOK
  <2> QED
    BY <2>1, <2>2 DEF Newer
<1>5. TypeOK'
  BY <1>1, <1>2, <1>3 DEF IInv, TypeOK
<1>6. MarkIsNewest'
  BY <1>1, <1>2, <1>3, <1>4 DEF IInv, TypeOK, MarkIsNewest
<1>7. CursorPasses' /\ NothingSkipped'
  BY <1>2 DEF IInv, CursorPasses, NothingSkipped, Newer, Shown, Left
<1>8. FirstIsNewest' /\ IdleIsEmpty' /\ PagesDescend' /\ WalkIsComplete'
  BY <1>2 DEF IInv, FirstIsNewest, IdleIsEmpty, PagesDescend, WalkIsComplete, Newer, Shown
<1> QED
  BY <1>5, <1>6, <1>7, <1>8 DEF IInv

\* A page continues where the one before ended, in what is committed by now.
LEMMA PageKeeps ==
  ASSUME IInv, NEW w \in Walks, Page(w)
  PROVE  IInv'
<1> DEFINE P == Newest(Left(w))
           n == Len(pages[w]) + 1
<1>1. /\ pc[w] = "asked" /\ pages' = [pages EXCEPT ![w] = Append(@, P)]
      /\ UNCHANGED <<messageVars, markVars, reader, before>>
      /\ \/ /\ \E c \in P : IsOldest(c, P) /\ cursor' = [cursor EXCEPT ![w] = c]
            /\ UNCHANGED pc
         \/ /\ Cardinality(Left(w)) <= Limit
            /\ pc' = [pc EXCEPT ![w] = "ended"] /\ UNCHANGED cursor
  BY DEF Page, HasMore, HasNoMore
<1>2. /\ P \subseteq Left(w) /\ Left(w) \subseteq committed /\ committed \subseteq Msgs
      /\ P \in SUBSET committed
  BY DEF Newest, Left, IInv, TypeOK
<1>3. /\ Len(pages[w]) \in Nat
      /\ DOMAIN pages[w] = 1 .. Len(pages[w])
      /\ DOMAIN pages'[w] = 1 .. n
      /\ \A i \in DOMAIN pages[w] : pages'[w][i] = pages[w][i]
      /\ pages'[w][n] = P
      /\ pages'[w] \in Seq(SUBSET committed) /\ pages'[w] # <<>>
      /\ Shown(w)' = Shown(w) \cup P
      /\ Shown(w) \subseteq committed
      /\ \A v \in Walks \ {w} : pages'[v] = pages[v]
  <2> HIDE DEF P
  <2> QED
    BY <1>1, <1>2, Appended DEF IInv
<1>4. /\ \A m, k : Newer(m, k)' <=> Newer(m, k)
      /\ \A v \in Walks \ {w} : /\ Shown(v)' = Shown(v)
                               /\ pc'[v] = pc[v] /\ cursor'[v] = cursor[v]
                               /\ Left(v)' = Left(v)
  <2>1. \A m, k : Newer(m, k)' <=> Newer(m, k)
    BY <1>1 DEF Newer, messageVars
  <2>2. \A v \in Walks \ {w} : pc'[v] = pc[v] /\ cursor'[v] = cursor[v]
    BY <1>1 DEF IInv, TypeOK
  <2>3. \A v \in Walks \ {w} : Shown(v)' = Shown(v)
    BY <1>3 DEF Shown
  <2>4. \A v \in Walks \ {w} : Left(v)' = Left(v)
    BY <1>1, <2>1, <2>2 DEF Left, messageVars
  <2> QED
    BY <2>1, <2>2, <2>3, <2>4
<1>5. TypeOK'
  <2>1. pages' \in [Walks -> Seq(SUBSET committed)]
    BY <1>1, <1>3 DEF IInv, TypeOK
  <2>2. pc' \in [Walks -> {"idle", "asked", "ended"}]
        /\ cursor' \in [Walks -> committed \cup {NoMsg}]
    BY <1>1, <1>2 DEF IInv, TypeOK
  <2> QED
    BY <1>1, <2>1, <2>2 DEF IInv, TypeOK, messageVars, markVars
<1>6. \A m \in Shown(w), k \in Left(w) : Newer(m, k)
  <2> SUFFICES ASSUME NEW m \in Shown(w), NEW k \in Left(w)
               PROVE  Newer(m, k)
    OBVIOUS
  <2>1. cursor[w] # NoMsg
    BY <1>1 DEF IInv, CursorPasses, Shown
  <2>2. /\ Newer(cursor[w], k) /\ (m = cursor[w] \/ Newer(m, cursor[w]))
        /\ cursor[w] \in Msgs /\ m \in Msgs /\ k \in Msgs
    BY <1>1, <1>2, <1>3, <2>1 DEF IInv, TypeOK, CursorPasses, Left
  <2> QED
    BY <2>2, NewerIsOrder DEF IInv
<1>7. \A m \in P, k \in Left(w) : k \in P \/ Newer(m, k)
  BY <1>2, NewestIsNewer DEF IInv
<1> HIDE DEF P
<1>8. CursorPasses'
  <2> SUFFICES ASSUME pc'[w] = "asked"
               PROVE  /\ cursor'[w] # NoMsg
                      /\ \A m \in Shown(w)' : m = cursor'[w] \/ Newer(m, cursor'[w])
    BY <1>3, <1>4 DEF IInv, CursorPasses
  <2>1. PICK c \in P : IsOldest(c, P) /\ cursor'[w] = c
    BY <1>1 DEF IInv, TypeOK
  <2>2. c # NoMsg /\ c \in Left(w)
    BY <1>2, <2>1, HistoryAssumption
  <2> QED
    BY <1>3, <1>6, <2>1, <2>2 DEF IsOldest
<1>9. NothingSkipped' /\ WalkIsComplete'
  <2>1. \A m \in before[w] : m \in Shown(w) \/ m \in Left(w)
    BY <1>1 DEF IInv, NothingSkipped
  <2>2. ASSUME pc'[w] = "asked"
        PROVE  \A m \in before[w] : m \in Shown(w)' \/ m \in Left(w)'
    <3>1. PICK c \in P : IsOldest(c, P) /\ cursor'[w] = c
      BY <1>1, <2>2 DEF IInv, TypeOK
    <3>2. \A m \in Left(w) : m \in P \/ Newer(c, m)
      BY <1>7, <3>1
    <3>3. Left(w)' = {m \in committed : cursor'[w] # NoMsg => Newer(cursor'[w], m)}
      BY <1>1, <1>4 DEF Left, messageVars
    <3> QED
      BY <1>2, <1>3, <2>1, <3>1, <3>2, <3>3
  <2>3. ASSUME pc'[w] = "ended"
        PROVE  before[w] \subseteq Shown(w)'
    <3>1. Cardinality(Left(w)) <= Limit
      BY <1>1, <2>3
    <3>2. P = Left(w)
      BY <1>2, <3>1, NewestOfFew DEF P, IInv
    <3> QED
      BY <1>3, <2>1, <3>2
  <2>4. NothingSkipped'
    BY <1>1, <1>4, <2>2 DEF IInv, NothingSkipped
  <2>5. WalkIsComplete'
    BY <1>1, <1>4, <2>3 DEF IInv, WalkIsComplete
  <2> QED
    BY <2>4, <2>5
<1>10. FirstIsNewest'
  <2> SUFFICES ASSUME NEW m \in pages'[w][1], NEW k \in before[w]
               PROVE  k \in pages'[w][1] \/ Newer(m, k)
    BY <1>1, <1>3, <1>4 DEF IInv, FirstIsNewest
  <2>1. CASE pages[w] = <<>>
    <3>1. cursor[w] = NoMsg /\ n = 1
      BY <1>1, <2>1 DEF IInv, CursorPasses
    <3>2. k \in Left(w)
      BY <1>1, <3>1 DEF IInv, TypeOK, Left
    <3> QED
      BY <1>3, <1>7, <3>1, <3>2
  <2>2. CASE pages[w] # <<>>
    <3>1. 1 \in DOMAIN pages[w]
      BY <2>2 DEF IInv, TypeOK
    <3> QED
      BY <1>3, <2>2, <3>1 DEF IInv, FirstIsNewest
  <2> QED
    BY <2>1, <2>2
<1>11. PagesDescend'
  <2> SUFFICES ASSUME NEW i \in 1 .. n, NEW j \in 1 .. n, i < j,
                      NEW m \in pages'[w][i], NEW k \in pages'[w][j]
               PROVE  Newer(m, k)
    BY <1>3, <1>4 DEF IInv, PagesDescend
  <2>1. i \in DOMAIN pages[w] /\ m \in pages[w][i] /\ m \in Shown(w)
    BY <1>3 DEF Shown
  <2>2. CASE j = n
    BY <1>2, <1>3, <1>6, <2>1, <2>2
  <2>3. CASE j # n
    <3>1. j \in DOMAIN pages[w] /\ k \in pages[w][j]
      BY <1>3, <2>3
    <3> QED
      BY <2>1, <3>1 DEF IInv, PagesDescend
  <2> QED
    BY <2>2, <2>3
<1>12. MarkIsNewest' /\ IdleIsEmpty'
  <2>1. MarkIsNewest'
    BY <1>1 DEF IInv, MarkIsNewest, messageVars, markVars
  <2>2. IdleIsEmpty'
    BY <1>1, <1>3, <1>4 DEF IInv, TypeOK, IdleIsEmpty
  <2> QED
    BY <2>1, <2>2
<1> QED
  BY <1>5, <1>8, <1>9, <1>10, <1>11, <1>12 DEF IInv

LEMMA InitHolds == Init => IInv
<1> SUFFICES ASSUME Init
             PROVE  IInv
  OBVIOUS
<1>1. TypeOK
  BY DEF Init, TypeOK
<1> QED
  BY <1>1 DEF Init, IInv, CursorPasses, NothingSkipped, FirstIsNewest, MarkIsNewest,
    IdleIsEmpty, PagesDescend, WalkIsComplete, Shown

-----------------------------------------------------------------------------

\* The strengthened invariant holds in every reachable state.
THEOREM Invariance == Spec => []IInv
<1>1. IInv /\ [Next]_vars => IInv'
  <2>1. ASSUME IInv, UNCHANGED vars
        PROVE  IInv'
    <3>1. TypeOK'
      BY <2>1 DEF vars, messageVars, markVars, walkVars, IInv, TypeOK
    <3> QED
      BY <2>1, <3>1, UnseenKeeps DEF vars, messageVars
  <2>2. ASSUME IInv, Next
        PROVE  IInv'
    BY <2>2, TickKeeps, FlushKeeps, CommitKeeps, RollbackKeeps, BeginWalkKeeps,
      BeginAgainKeeps, PageKeeps, MarkReadKeeps, EndWalkKeeps DEF Next
  <2> QED
    BY <2>1, <2>2
<1> QED
  BY <1>1, InitHolds, PTL DEF Spec

\* Every variable stays in its type; a mark is always of a committed message, so
\* that the comparison with its created_at is never with NULL.
THEOREM TypeCorrect == Spec => []TypeOK
<1>1. IInv => TypeOK
  BY DEF IInv
<1> QED
  BY <1>1, Invariance, PTL

\* A client that follows the cursors gets no message twice and none out of
\* order, for any page size.
THEOREM PagesNeverRepeat == Spec => []PagesDescend
<1>1. IInv => PagesDescend
  BY DEF IInv
<1> QED
  BY <1>1, Invariance, PTL

\* A client that follows the cursors to the end misses nothing that was there
\* when it began, however many messages share a created_at.
THEOREM PagesMissNothing == Spec => []WalkIsComplete
<1>1. IInv => WalkIsComplete
  BY DEF IInv
<1> QED
  BY <1>1, Invariance, PTL

\* Marking the newest message shown leaves nothing unread that was there.
THEOREM MarkingClearsUnread == Spec => []MarkingClears
<1>1. IInv => MarkingClears
  <2> SUFFICES ASSUME IInv, NEW u \in Users, NEW m \in Unread(u), m \in cleared[u]
               PROVE  FALSE
    BY DEF MarkingClears
  <2>1. mark[u] # NoMsg /\ time[m] <= time[mark[u]] /\ time[m] > time[mark[u]]
    BY DEF IInv, MarkIsNewest, Unread
  <2>2. time[m] \in Nat /\ time[mark[u]] \in Nat
    BY <2>1 DEF IInv, TypeOK
  <2> QED
    BY <2>1, <2>2
<1> QED
  BY <1>1, Invariance, PTL

=============================================================================
