--------------------------- MODULE RealtimeProofs ---------------------------
(***************************************************************************)
(* Proofs about module Realtime, for any number of users, sockets, workers *)
(* and messages.                                                           *)
(***************************************************************************)
EXTENDS Realtime, TLAPS

-----------------------------------------------------------------------------
(* The inductive invariant. *)

\* A handler that has a message to save or to announce runs on a worker, and
\* only a message that is stored is announced.
HandlersAreSomewhere ==
  \A m \in Msgs :
    /\ state[m] = "unsent" => home[m] = NoWorker
    /\ state[m] \in {"saving", "emitting"} => home[m] \in Workers
    /\ state[m] = "emitting" => m \in stored

\* What a client is shown live is really there: no message that could not be
\* saved, or was lost with its worker, is ever announced.
NothingUnsavedIsShown == \A s \in Sockets : got[s] \subseteq stored

OnlyStoredIsQueued == \A w \in Workers : queue[w] \subseteq stored

\* Sockets that know something are in the room, and came there as members.
OnlyTheRoomKnows ==
  /\ caughtUp \subseteq room
  /\ \A s \in Sockets : got[s] # {} => s \in room
  /\ \A s \in joining \cup room : owner[s] \in Members

IInv ==
  /\ TypeOK
  /\ HandlersAreSomewhere
  /\ OnlyStoredIsQueued
  /\ OnlyTheRoomKnows
  /\ ClientsMissNothing
  /\ NothingUnsavedIsShown

LEMMA InitIInv == Init => IInv
BY RealtimeAssumption
   DEF Init, IInv, TypeOK, HandlersAreSomewhere, OnlyStoredIsQueued, OnlyTheRoomKnows,
       ClientsMissNothing, NothingUnsavedIsShown, Connected, States

-----------------------------------------------------------------------------
(* Sockets. *)

LEMMA ConnectKeeps ==
  ASSUME IInv, NEW s \in Sockets, NEW u \in Users, NEW w \in Workers, Connect(s, u, w)
  PROVE  IInv'
<1>1. /\ s \notin joining \cup room \cup caughtUp
      /\ owner' = [owner EXCEPT ![s] = u] /\ worker' = [worker EXCEPT ![s] = w]
      /\ UNCHANGED <<users, stored, author, home, state, lost, unannounced,
                     joining, room, got, loaded, caughtUp, queue>>
  BY DEF Connect, IInv, TypeOK, messageVars
<1>2. TypeOK'
  BY <1>1, RealtimeAssumption DEF IInv, TypeOK, Connected
<1>3. HandlersAreSomewhere' /\ OnlyStoredIsQueued' /\ NothingUnsavedIsShown'
  BY <1>1 DEF IInv, HandlersAreSomewhere, OnlyStoredIsQueued, NothingUnsavedIsShown
<1>4. OnlyTheRoomKnows'
  BY <1>1 DEF IInv, TypeOK, OnlyTheRoomKnows
<1>5. ClientsMissNothing'
  BY <1>1 DEF IInv, TypeOK, ClientsMissNothing, OnItsWay
<1> QED
  BY <1>2, <1>3, <1>4, <1>5 DEF IInv

LEMMA CheckJoinKeeps ==
  ASSUME IInv, NEW s \in Sockets, CheckJoin(s)
  PROVE  IInv'
<1>1. /\ Connected(s) /\ owner[s] \in Members
      /\ joining' = joining \cup {s}
      /\ UNCHANGED <<users, stored, author, home, state, lost, unannounced, owner,
                     worker, room, got, loaded, caughtUp, queue>>
  BY DEF CheckJoin, IsMember, messageVars
<1> QED
  BY <1>1 DEF IInv, TypeOK, Connected, HandlersAreSomewhere, OnlyStoredIsQueued,
       OnlyTheRoomKnows, ClientsMissNothing, OnItsWay, NothingUnsavedIsShown

LEMMA EnterRoomKeeps ==
  ASSUME IInv, NEW s \in Sockets, EnterRoom(s)
  PROVE  IInv'
<1>1. /\ s \in joining /\ joining' = joining \ {s} /\ room' = room \cup {s}
      /\ UNCHANGED <<users, stored, author, home, state, lost, unannounced, owner,
                     worker, got, loaded, caughtUp, queue>>
  BY DEF EnterRoom, messageVars
<1> QED
  BY <1>1 DEF IInv, TypeOK, Connected, HandlersAreSomewhere, OnlyStoredIsQueued,
       OnlyTheRoomKnows, ClientsMissNothing, OnItsWay, NothingUnsavedIsShown

LEMMA LeaveKeeps ==
  ASSUME IInv, NEW s \in Sockets, Leave(s)
  PROVE  IInv'
<1>1. /\ room' = room \ {s} /\ caughtUp' = caughtUp \ {s}
      /\ got' = [v \in Sockets |-> IF v \in {s} THEN {} ELSE got[v]]
      /\ loaded' = [v \in Sockets |-> IF v \in {s} THEN {} ELSE loaded[v]]
      /\ UNCHANGED <<users, stored, author, home, state, lost, unannounced, owner,
                     worker, joining, queue>>
  BY DEF Leave, Forget, messageVars
<1> QED
  BY <1>1 DEF IInv, TypeOK, Connected, HandlersAreSomewhere, OnlyStoredIsQueued,
       OnlyTheRoomKnows, ClientsMissNothing, OnItsWay, NothingUnsavedIsShown

LEMMA LoadKeeps ==
  ASSUME IInv, NEW s \in Sockets, Load(s)
  PROVE  IInv'
<1>1. /\ s \in room /\ loaded' = [loaded EXCEPT ![s] = stored]
      /\ caughtUp' = caughtUp \cup {s}
      /\ UNCHANGED <<users, stored, author, home, state, lost, unannounced, owner,
                     worker, joining, room, got, queue>>
  BY DEF Load, messageVars
<1> QED
  BY <1>1 DEF IInv, TypeOK, Connected, HandlersAreSomewhere, OnlyStoredIsQueued,
       OnlyTheRoomKnows, ClientsMissNothing, OnItsWay, NothingUnsavedIsShown

\* Sockets that are dropped forget everything, the others nothing.
LEMMA DropKeeps ==
  ASSUME IInv, NEW S \in SUBSET Sockets, Drop(S),
         UNCHANGED <<users, stored, author, home, unannounced>>,
         state' \in [Msgs -> States],
         \A m \in Msgs : state'[m] = state[m] \/ state'[m] = "over",
         lost' \subseteq Msgs, lost \subseteq lost',
         \A m \in Msgs : state[m] = "emitting" /\ state'[m] = "over" => m \in lost',
         queue' \in [Workers -> SUBSET Msgs],
         \A w \in Workers : queue'[w] \subseteq queue[w],
         \A v \in Sockets \ S : Connected(v) => queue'[worker[v]] = queue[worker[v]]
  PROVE  IInv'
<1>1. /\ owner' = [v \in Sockets |-> IF v \in S THEN NoUser ELSE owner[v]]
      /\ worker' = [v \in Sockets |-> IF v \in S THEN NoWorker ELSE worker[v]]
      /\ got' = [v \in Sockets |-> IF v \in S THEN {} ELSE got[v]]
      /\ loaded' = [v \in Sockets |-> IF v \in S THEN {} ELSE loaded[v]]
      /\ joining' = joining \ S /\ room' = room \ S /\ caughtUp' = caughtUp \ S
  BY DEF Drop, Forget
<1>2. TypeOK'
  <2>1. /\ owner' \in [Sockets -> Users \cup {NoUser}]
        /\ worker' \in [Sockets -> Workers \cup {NoWorker}]
        /\ got' \in [Sockets -> SUBSET Msgs] /\ loaded' \in [Sockets -> SUBSET stored]
    BY <1>1 DEF IInv, TypeOK
  <2>2. \A v \in Sockets : Connected(v)' <=> worker'[v] \in Workers
    BY <1>1, RealtimeAssumption DEF IInv, TypeOK, Connected
  <2>3. joining' \cup room' \cup caughtUp' \subseteq {v \in Sockets : Connected(v)'}
    BY <1>1 DEF IInv, TypeOK, Connected
  <2>4. stored' \subseteq {m \in Msgs : state'[m] \in {"emitting", "over"}}
    BY DEF IInv, TypeOK
  <2> QED
    BY <2>1, <2>2, <2>3, <2>4 DEF IInv, TypeOK
<1>3. HandlersAreSomewhere' /\ OnlyStoredIsQueued' /\ NothingUnsavedIsShown'
  BY <1>1 DEF IInv, HandlersAreSomewhere, OnlyStoredIsQueued, NothingUnsavedIsShown
<1>4. OnlyTheRoomKnows'
  BY <1>1 DEF IInv, TypeOK, OnlyTheRoomKnows
<1>5. ClientsMissNothing'
  <2> SUFFICES ASSUME NEW v \in caughtUp', NEW m \in stored
               PROVE  \/ m \in loaded'[v] \cup got'[v]
                      \/ state'[m] = "emitting" \/ m \in queue'[worker'[v]]
                      \/ m \in lost' \cup unannounced \/ home[m] = NoWorker
    BY DEF ClientsMissNothing, OnItsWay
  <2>1. /\ v \in Sockets \ S /\ v \in caughtUp /\ Connected(v) /\ m \in Msgs
        /\ worker'[v] = worker[v] /\ got'[v] = got[v] /\ loaded'[v] = loaded[v]
    BY <1>1 DEF IInv, TypeOK
  <2> QED
    BY <2>1 DEF IInv, ClientsMissNothing, OnItsWay
<1> QED
  BY <1>2, <1>3, <1>4, <1>5 DEF IInv

LEMMA DisconnectKeeps ==
  ASSUME IInv, NEW s \in Sockets, Disconnect(s)
  PROVE  IInv'
<1>1. /\ {s} \in SUBSET Sockets /\ Drop({s})
      /\ UNCHANGED <<users, stored, author, home, state, lost, unannounced, queue>>
  BY DEF Disconnect, messageVars
<1> QED
  BY <1>1, DropKeeps DEF IInv, TypeOK

LEMMA CrashKeeps ==
  ASSUME IInv, NEW w \in Workers, Crash(w)
  PROVE  IInv'
<1> DEFINE S == {s \in Sockets : worker[s] = w}
<1>1. /\ S \in SUBSET Sockets /\ Drop(S)
      /\ state' = [m \in Msgs |-> IF home[m] = w THEN "over" ELSE state[m]]
      /\ lost' = lost \cup {m \in Msgs : home[m] = w /\ state[m] = "emitting"}
      /\ queue' = [queue EXCEPT ![w] = {}]
      /\ UNCHANGED <<users, stored, author, home, unannounced>>
  BY DEF Crash
<1>2. /\ state' \in [Msgs -> States] /\ lost' \subseteq Msgs /\ lost \subseteq lost'
      /\ \A m \in Msgs : /\ state'[m] = state[m] \/ state'[m] = "over"
                         /\ state[m] = "emitting" /\ state'[m] = "over" => m \in lost'
  BY <1>1 DEF IInv, TypeOK, States
<1>3. /\ queue' \in [Workers -> SUBSET Msgs]
      /\ \A x \in Workers : queue'[x] \subseteq queue[x]
      /\ \A v \in Sockets \ S : Connected(v) => queue'[worker[v]] = queue[worker[v]]
  BY <1>1 DEF IInv, TypeOK
<1> HIDE DEF S
<1> QED
  BY <1>1, <1>2, <1>3, DropKeeps

-----------------------------------------------------------------------------
(* Messages. *)

LEMMA SendKeeps ==
  ASSUME IInv, NEW s \in Sockets, NEW m \in Msgs, Send(s, m)
  PROVE  IInv'
<1>1. /\ Connected(s) /\ state[m] = "unsent" /\ m \notin stored
      /\ author' = [author EXCEPT ![m] = owner[s]]
      /\ home' = [home EXCEPT ![m] = worker[s]]
      /\ state' = [state EXCEPT ![m] = "saving"]
      /\ UNCHANGED <<users, stored, lost, unannounced, owner, worker, joining,
                     room, got, loaded, caughtUp, queue>>
  BY DEF Send, socketVars, IInv, TypeOK
<1>2. TypeOK'
  BY <1>1 DEF IInv, TypeOK, Connected, States
<1>3. HandlersAreSomewhere'
  BY <1>1 DEF IInv, TypeOK, HandlersAreSomewhere
<1>4. OnlyStoredIsQueued' /\ NothingUnsavedIsShown' /\ OnlyTheRoomKnows'
  BY <1>1 DEF IInv, OnlyStoredIsQueued, NothingUnsavedIsShown, OnlyTheRoomKnows
<1>5. ClientsMissNothing'
  BY <1>1 DEF IInv, TypeOK, ClientsMissNothing, OnItsWay
<1> QED
  BY <1>2, <1>3, <1>4, <1>5 DEF IInv

LEMMA SaveKeeps ==
  ASSUME IInv, NEW m \in Msgs, Save(m)
  PROVE  IInv'
<1>1. /\ state[m] = "saving" /\ m \notin stored
      /\ UNCHANGED <<users, author, home, lost, owner, worker, joining, room, got,
                     loaded, caughtUp, queue>>
  BY DEF Save, socketVars, IInv, TypeOK
<1>2. \/ /\ state' = [state EXCEPT ![m] = "emitting"] /\ stored' = stored \cup {m}
         /\ unannounced' = unannounced
      \/ /\ state' = [state EXCEPT ![m] = "over"] /\ stored' = stored
         /\ unannounced' = unannounced
      \/ /\ state' = [state EXCEPT ![m] = "over"] /\ stored' = stored \cup {m}
         /\ unannounced' = unannounced \cup {m}
  BY DEF Save, SaveAndGoOn, SaveNothing, SaveAndFail
<1>3. TypeOK'
  BY <1>1, <1>2 DEF IInv, TypeOK, Connected, States
<1>4. HandlersAreSomewhere'
  BY <1>1, <1>2 DEF IInv, TypeOK, HandlersAreSomewhere
<1>5. OnlyStoredIsQueued' /\ NothingUnsavedIsShown' /\ OnlyTheRoomKnows'
  BY <1>1, <1>2 DEF IInv, OnlyStoredIsQueued, NothingUnsavedIsShown, OnlyTheRoomKnows
<1>6. ClientsMissNothing'
  <2>1. stored \subseteq stored' /\ stored' \subseteq stored \cup {m}
    BY <1>2
  <2>2. m \in stored' => state'[m] = "emitting" \/ m \in unannounced'
    BY <1>1, <1>2 DEF IInv, TypeOK
  <2>3. \A k \in stored : state'[k] = state[k]
    BY <1>1, <1>2 DEF IInv, TypeOK
  <2>4. unannounced \subseteq unannounced'
    BY <1>2
  <2> QED
    BY <1>1, <2>1, <2>2, <2>3, <2>4 DEF IInv, ClientsMissNothing, OnItsWay
<1> QED
  BY <1>3, <1>4, <1>5, <1>6 DEF IInv

\* A stored message that reaches the room of a worker, wherever it comes from.
LEMMA ReceiveKeeps ==
  ASSUME IInv, NEW m \in Msgs, NEW w \in Workers, m \in stored, Receive(InRoomOf(w), m),
         UNCHANGED <<users, stored, author, home, unannounced, owner, worker,
                     joining, room, loaded, caughtUp>>,
         state' \in [Msgs -> States],
         \A k \in Msgs : state'[k] = state[k] \/ (k = m /\ state'[k] = "over"),
         lost' \subseteq Msgs, lost \subseteq lost',
         queue' \in [Workers -> SUBSET Msgs],
         \A x \in Workers : queue'[x] \subseteq queue[x] \cup {m}
                            /\ queue[x] \subseteq queue'[x] \cup {m},
         \A x \in Workers \ {w} : m \in lost' \/ m \in queue'[x]
                                    \/ (state'[m] = state[m] /\ queue'[x] = queue[x])
  PROVE  IInv'
<1>1. /\ got' = [s \in Sockets |->
                   IF s \in room /\ worker[s] = w THEN got[s] \cup {m} ELSE got[s]]
  BY DEF Receive, InRoomOf, IInv, TypeOK
<1>2. TypeOK'
  <2>1. got' \in [Sockets -> SUBSET Msgs]
    BY <1>1 DEF IInv, TypeOK
  <2> QED
    BY <2>1 DEF IInv, TypeOK, Connected
<1>3. HandlersAreSomewhere'
  BY DEF IInv, HandlersAreSomewhere
<1>4. OnlyStoredIsQueued'
  BY DEF IInv, OnlyStoredIsQueued
<1>5. OnlyTheRoomKnows' /\ NothingUnsavedIsShown'
  BY <1>1 DEF IInv, OnlyTheRoomKnows, NothingUnsavedIsShown
<1>6. ClientsMissNothing'
  <2> SUFFICES ASSUME NEW s \in caughtUp, NEW k \in stored
               PROVE  \/ k \in loaded[s] \cup got'[s]
                      \/ state'[k] = "emitting" \/ k \in queue'[worker[s]]
                      \/ k \in lost' \cup unannounced \/ home[k] = NoWorker
    BY DEF ClientsMissNothing, OnItsWay
  <2>1. s \in room /\ s \in Sockets /\ worker[s] \in Workers /\ k \in Msgs
    BY DEF IInv, TypeOK, OnlyTheRoomKnows
  <2>2. got[s] \subseteq got'[s] /\ (worker[s] = w => m \in got'[s])
    BY <1>1, <2>1
  <2> QED
    BY <2>1, <2>2 DEF IInv, ClientsMissNothing, OnItsWay
<1> QED
  BY <1>2, <1>3, <1>4, <1>5, <1>6 DEF IInv

LEMMA EmitKeeps ==
  ASSUME IInv, NEW m \in Msgs, Emit(m) \/ EmitWithoutRedis(m)
  PROVE  IInv'
<1>1. /\ state[m] = "emitting" /\ m \in stored /\ home[m] \in Workers
      /\ Receive(InRoomOf(home[m]), m)
      /\ state' = [state EXCEPT ![m] = "over"]
      /\ UNCHANGED <<users, stored, author, home, unannounced, owner, worker,
                     joining, room, loaded, caughtUp>>
  BY DEF Emit, EmitWithoutRedis, IInv, HandlersAreSomewhere
<1>2. /\ state' \in [Msgs -> States]
      /\ \A k \in Msgs : state'[k] = state[k] \/ (k = m /\ state'[k] = "over")
  BY <1>1 DEF IInv, TypeOK, States
<1>3. CASE Emit(m)
  <2>1. /\ queue' = [w \in Workers |-> IF w = home[m] THEN queue[w] ELSE queue[w] \cup {m}]
        /\ lost' = lost
    BY <1>3 DEF Emit
  <2>2. /\ queue' \in [Workers -> SUBSET Msgs]
        /\ \A x \in Workers : queue'[x] \subseteq queue[x] \cup {m}
                              /\ queue[x] \subseteq queue'[x] \cup {m}
        /\ \A x \in Workers \ {home[m]} : m \in queue'[x]
    BY <2>1 DEF IInv, TypeOK
  <2> QED
    BY <1>1, <1>2, <2>1, <2>2, ReceiveKeeps DEF IInv, TypeOK
<1>4. CASE EmitWithoutRedis(m)
  <2>1. queue' = queue /\ lost' = lost \cup {m}
    BY <1>4 DEF EmitWithoutRedis
  <2> QED
    BY <1>1, <1>2, <2>1, ReceiveKeeps DEF IInv, TypeOK
<1> QED
  BY <1>3, <1>4

LEMMA DeliverKeeps ==
  ASSUME IInv, NEW m \in Msgs, NEW w \in Workers, Deliver(w, m)
  PROVE  IInv'
<1>1. /\ m \in stored /\ Receive(InRoomOf(w), m)
      /\ queue' = [queue EXCEPT ![w] = @ \ {m}]
      /\ UNCHANGED <<users, stored, author, home, state, lost, unannounced, owner,
                     worker, joining, room, loaded, caughtUp>>
  BY DEF Deliver, messageVars, IInv, OnlyStoredIsQueued
<1>2. /\ queue' \in [Workers -> SUBSET Msgs]
      /\ \A x \in Workers : queue'[x] \subseteq queue[x] \cup {m}
                            /\ queue[x] \subseteq queue'[x] \cup {m}
      /\ \A x \in Workers \ {w} : queue'[x] = queue[x]
  BY <1>1 DEF IInv, TypeOK
<1> QED
  BY <1>1, <1>2, ReceiveKeeps DEF IInv, TypeOK

LEMMA ResubscribeKeeps ==
  ASSUME IInv, NEW w \in Workers, Resubscribe(w)
  PROVE  IInv'
<1>1. /\ queue' = [queue EXCEPT ![w] = {}] /\ lost' = lost \cup queue[w]
      /\ UNCHANGED <<users, stored, author, home, state, unannounced, owner,
                     worker, joining, room, got, loaded, caughtUp>>
  BY DEF Resubscribe, socketVars
<1> QED
  BY <1>1 DEF IInv, TypeOK, Connected, HandlersAreSomewhere, OnlyStoredIsQueued,
       OnlyTheRoomKnows, ClientsMissNothing, OnItsWay, NothingUnsavedIsShown

LEMMA ForwardKeeps ==
  ASSUME IInv, NEW u \in Users, NEW m \in Msgs, Forward(u, m)
  PROVE  IInv'
<1>1. /\ state[m] = "unsent" /\ home[m] = NoWorker
      /\ author' = [author EXCEPT ![m] = u] /\ state' = [state EXCEPT ![m] = "over"]
      /\ stored' = stored \cup {m}
      /\ UNCHANGED <<users, home, lost, unannounced, owner, worker, joining, room,
                     got, loaded, caughtUp, queue>>
  BY DEF Forward, socketVars, IInv, HandlersAreSomewhere
<1>2. TypeOK'
  BY <1>1 DEF IInv, TypeOK, Connected, States
<1>3. HandlersAreSomewhere'
  BY <1>1 DEF IInv, TypeOK, HandlersAreSomewhere
<1>4. OnlyStoredIsQueued' /\ NothingUnsavedIsShown' /\ OnlyTheRoomKnows'
  BY <1>1 DEF IInv, OnlyStoredIsQueued, NothingUnsavedIsShown, OnlyTheRoomKnows
<1>5. ClientsMissNothing'
  BY <1>1 DEF IInv, TypeOK, ClientsMissNothing, OnItsWay
<1> QED
  BY <1>2, <1>3, <1>4, <1>5 DEF IInv

LEMMA DeleteAccountKeeps ==
  ASSUME IInv, NEW u \in Users, DeleteAccount(u)
  PROVE  IInv'
<1>1. /\ users' \subseteq users
      /\ UNCHANGED <<stored, author, home, state, lost, unannounced, owner, worker,
                     joining, room, got, loaded, caughtUp, queue>>
  BY DEF DeleteAccount, socketVars
<1> QED
  BY <1>1 DEF IInv, TypeOK, Connected, HandlersAreSomewhere, OnlyStoredIsQueued,
       OnlyTheRoomKnows, ClientsMissNothing, OnItsWay, NothingUnsavedIsShown

-----------------------------------------------------------------------------

LEMMA NextIInv == IInv /\ [Next]_vars => IInv'
<1> SUFFICES ASSUME IInv, [Next]_vars
             PROVE  IInv'
  OBVIOUS
<1>1. ASSUME NEW s \in Sockets, NEW u \in Users, NEW w \in Workers, Connect(s, u, w)
      PROVE  IInv'
  BY <1>1, ConnectKeeps
<1>2. ASSUME NEW s \in Sockets,
             (CheckJoin(s) \/ EnterRoom(s)) \/ (Leave(s) \/ (Load(s) \/ Disconnect(s)))
      PROVE  IInv'
  BY <1>2, CheckJoinKeeps, EnterRoomKeeps, LeaveKeeps, LoadKeeps, DisconnectKeeps
<1>3. ASSUME NEW s \in Sockets, NEW m \in Msgs, Send(s, m)
      PROVE  IInv'
  BY <1>3, SendKeeps
<1>4. ASSUME NEW m \in Msgs, Save(m) \/ (Emit(m) \/ EmitWithoutRedis(m))
      PROVE  IInv'
  BY <1>4, SaveKeeps, EmitKeeps
<1>5. ASSUME NEW m \in Msgs, NEW w \in Workers, Deliver(w, m)
      PROVE  IInv'
  BY <1>5, DeliverKeeps
<1>6. ASSUME NEW m \in Msgs, NEW u \in Users, Forward(u, m)
      PROVE  IInv'
  BY <1>6, ForwardKeeps
<1>7. ASSUME NEW u \in Users, DeleteAccount(u)
      PROVE  IInv'
  BY <1>7, DeleteAccountKeeps
<1>8. ASSUME NEW w \in Workers, Resubscribe(w) \/ Crash(w)
      PROVE  IInv'
  BY <1>8, ResubscribeKeeps, CrashKeeps
<1>9. CASE UNCHANGED vars
  BY <1>9 DEF IInv, TypeOK, Connected, HandlersAreSomewhere, OnlyStoredIsQueued,
       OnlyTheRoomKnows, ClientsMissNothing, OnItsWay, NothingUnsavedIsShown,
       vars, messageVars, socketVars
<1> QED
  BY <1>1, <1>2, <1>3, <1>4, <1>5, <1>6, <1>7, <1>8, <1>9 DEF Next

\* The strengthened invariant holds in every state of the sockets and workers.
THEOREM Invariance == Spec => []IInv
BY InitIInv, NextIInv, PTL DEF Spec

\* Every variable of the sockets stays in its type; only open ones are in the room.
THEOREM TypeCorrect == Spec => []TypeOK
<1>1. IInv => TypeOK
  BY DEF IInv
<1> QED
  BY <1>1, Invariance, PTL

\* A client that joins and then loads the history (get_messages) has no gap
\* between the history and what send_message announces: what it lacks is on its
\* way, was lost by a crash or by Redis, was forwarded, or was committed by a
\* save_message that failed afterwards.
THEOREM NoGap == Spec => []ClientsMissNothing
<1>1. IInv => ClientsMissNothing
  BY DEF IInv
<1> QED
  BY <1>1, Invariance, PTL

\* send_message announces nothing that save_message has not committed.
THEOREM OnlySavedIsShown == Spec => []NothingUnsavedIsShown
<1>1. IInv => NothingUnsavedIsShown
  BY DEF IInv
<1> QED
  BY <1>1, Invariance, PTL

\* Whatever overlaps with join, nothing is announced to those who were no members.
THEOREM OutsidersHearNothing == Spec => []OutsidersGetNothing
<1>1. IInv => OutsidersGetNothing
  BY DEF IInv, OnlyTheRoomKnows, OutsidersGetNothing
<1> QED
  BY <1>1, Invariance, PTL

=============================================================================
