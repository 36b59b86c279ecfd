------------------------------ MODULE Realtime ------------------------------
(***************************************************************************)
(* The sockets of app/services/socketio_handler.py for one conversation:   *)
(* several workers, each with its own sockets and its own part of the      *)
(* room, announce new messages to each other through Redis.                *)
(*                                                                         *)
(* Handlers run as tasks of their own, so that those of one socket overlap *)
(* too.  Each action is the code up to the next wait.  How a message is    *)
(* saved is module Messaging; here it is one step, committed or refused.   *)
(***************************************************************************)
EXTENDS Naturals, FiniteSets

CONSTANTS
  Users,    \* accounts that can connect
  Members,  \* those who take part in the conversation at first
  Sockets,  \* connections that can be open at the same time
  Workers,  \* processes
  Msgs,     \* messages that can be sent; bounds the sends
  NoUser, NoWorker

ASSUME RealtimeAssumption ==
  /\ Members \subseteq Users
  /\ NoUser \notin Users /\ NoWorker \notin Workers

VARIABLES
  users,     \* accounts
  stored,    \* messages of the conversation that are committed
  author,    \* who sent each message, NoUser if it has not been sent
  home,      \* the worker on which its send_message runs
  state,     \* where that is: "unsent", "saving", "emitting" or "over"
  owner,     \* the session of each socket: its user, NoUser if not connected
  worker,    \* the worker it is connected to
  joining,   \* sockets whose membership has been checked
  room,      \* sockets in the room of the conversation
  queue,     \* announcements each worker has still to take from Redis
  got,       \* new_message events that a socket has received since it joined
  loaded,    \* the history its client has loaded since it joined
  caughtUp,  \* sockets whose client has loaded it
  lost,      \* history: messages whose announcement did not reach every worker
  unannounced  \* history: messages that were committed by a save_message that
               \* failed, so that nobody is told of them

messageVars == <<users, stored, author, home, state, lost, unannounced>>
socketVars == <<owner, worker, joining, room, got, loaded, caughtUp>>
vars == <<messageVars, socketVars, queue>>

Init ==
  /\ users = Users
  /\ stored = {}
  /\ author = [m \in Msgs |-> NoUser]
  /\ home = [m \in Msgs |-> NoWorker]
  /\ state = [m \in Msgs |-> "unsent"]
  /\ owner = [s \in Sockets |-> NoUser]
  /\ worker = [s \in Sockets |-> NoWorker]
  /\ joining = {}
  /\ room = {}
  /\ queue = [w \in Workers |-> {}]
  /\ got = [s \in Sockets |-> {}]
  /\ loaded = [s \in Sockets |-> {}]
  /\ caughtUp = {}
  /\ lost = {}
  /\ unannounced = {}

IsMember(u) == u \in Members \cap users

Connected(s) == owner[s] # NoUser

\* connect: the token is good and its user found.
Connect(s, u, w) ==
  /\ ~ Connected(s)
  /\ u \in users
  /\ owner' = [owner EXCEPT ![s] = u]
  /\ worker' = [worker EXCEPT ![s] = w]
  /\ UNCHANGED <<messageVars, joining, room, got, loaded, caughtUp, queue>>

\* Mutant: whoever is connected may join.
CheckJoinOfAny(s) ==
  /\ Connected(s)
  /\ joining' = joining \cup {s}
  /\ UNCHANGED <<messageVars, owner, worker, room, got, loaded, caughtUp, queue>>

\* join: the SELECT finds the participant; otherwise there is only an error.
CheckJoin(s) ==
  /\ Connected(s)
  /\ IsMember(owner[s])
  /\ joining' = joining \cup {s}
  /\ UNCHANGED <<messageVars, owner, worker, room, got, loaded, caughtUp, queue>>

\* join: the room is entered and "joined" sent.
EnterRoom(s) ==
  /\ s \in joining
  /\ joining' = joining \ {s}
  /\ room' = room \cup {s}
  /\ UNCHANGED <<messageVars, owner, worker, got, loaded, caughtUp, queue>>

\* What a client knows is of use to it as long as it stays in the room.
Forget(S) ==
  /\ room' = room \ S
  /\ got' = [s \in Sockets |-> IF s \in S THEN {} ELSE got[s]]
  /\ loaded' = [s \in Sockets |-> IF s \in S THEN {} ELSE loaded[s]]
  /\ caughtUp' = caughtUp \ S

\* leave
Leave(s) ==
  /\ Connected(s)
  /\ Forget({s})
  /\ UNCHANGED <<messageVars, owner, worker, joining, queue>>

\* A client that has joined loads the history with get_messages.
Load(s) ==
  /\ s \in room
  /\ IsMember(owner[s])
  /\ loaded' = [loaded EXCEPT ![s] = stored]
  /\ caughtUp' = caughtUp \cup {s}
  /\ UNCHANGED <<messageVars, owner, worker, joining, room, got, queue>>

\* Mutant: the room is left to the next join to clean up.
ForgetConnection(S) ==
  /\ owner' = [s \in Sockets |-> IF s \in S THEN NoUser ELSE owner[s]]
  /\ worker' = [s \in Sockets |-> IF s \in S THEN NoWorker ELSE worker[s]]
  /\ joining' = joining \ S
  /\ UNCHANGED <<room, got, loaded, caughtUp>>

\* disconnect: the library drops the socket from its rooms, and a join under
\* way fails.
Drop(S) ==
  /\ owner' = [s \in Sockets |-> IF s \in S THEN NoUser ELSE owner[s]]
  /\ worker' = [s \in Sockets |-> IF s \in S THEN NoWorker ELSE worker[s]]
  /\ joining' = joining \ S
  /\ Forget(S)

Disconnect(s) ==
  /\ Connected(s)
  /\ Drop({s})
  /\ UNCHANGED <<messageVars, queue>>

-----------------------------------------------------------------------------

\* send_message: the event is well formed and the socket has a session.  Joining
\* is not asked for.
Send(s, m) ==
  /\ Connected(s)
  /\ state[m] = "unsent"
  /\ author' = [author EXCEPT ![m] = owner[s]]
  /\ home' = [home EXCEPT ![m] = worker[s]]
  /\ state' = [state EXCEPT ![m] = "saving"]
  /\ UNCHANGED <<users, stored, lost, unannounced, socketVars, queue>>

\* save_message commits and returns.
SaveAndGoOn(m) ==
  /\ IsMember(author[m])
  /\ state' = [state EXCEPT ![m] = "emitting"]
  /\ stored' = stored \cup {m}
  /\ UNCHANGED unannounced

\* save_message fails, and nothing is committed.
SaveNothing(m) ==
  /\ state' = [state EXCEPT ![m] = "over"]
  /\ UNCHANGED <<stored, unannounced>>

\* save_message commits and fails then: its refresh of the row or its SELECT of
\* the sender does not get through to the database.  The sender is told "Save
\* failed", and the message is not announced.
SaveAndFail(m) ==
  /\ IsMember(author[m])
  /\ state' = [state EXCEPT ![m] = "over"]
  /\ stored' = stored \cup {m}
  /\ unannounced' = unannounced \cup {m}

\* send_message: the call of save_message, with the handler of its errors.
Save(m) ==
  /\ state[m] = "saving"
  /\ SaveAndGoOn(m) \/ SaveNothing(m) \/ SaveAndFail(m)
  /\ UNCHANGED <<users, author, home, lost, socketVars, queue>>

InRoomOf(w) == {s \in room : worker[s] = w}

Receive(S, m) == got' = [s \in Sockets |-> IF s \in S THEN got[s] \cup {m} ELSE got[s]]

\* Mutant: the room of one process, as without a client manager.
EmitLocally(m) ==
  /\ state[m] = "emitting"
  /\ Receive(InRoomOf(home[m]), m)
  /\ state' = [state EXCEPT ![m] = "over"]
  /\ UNCHANGED <<users, stored, author, home, lost, unannounced, owner, worker, joining,
                 room, loaded, caughtUp, queue>>

\* emit: the sockets of this worker get the event, and it is published for the
\* other workers.
Emit(m) ==
  /\ state[m] = "emitting"
  /\ Receive(InRoomOf(home[m]), m)
  /\ queue' = [w \in Workers |-> IF w = home[m] THEN queue[w] ELSE queue[w] \cup {m}]
  /\ state' = [state EXCEPT ![m] = "over"]
  /\ UNCHANGED <<users, stored, author, home, lost, unannounced, owner, worker, joining,
                 room, loaded, caughtUp>>

\* emit, when Redis cannot be reached: the client manager gives up.
EmitWithoutRedis(m) ==
  /\ state[m] = "emitting"
  /\ Receive(InRoomOf(home[m]), m)
  /\ state' = [state EXCEPT ![m] = "over"]
  /\ lost' = lost \cup {m}
  /\ UNCHANGED <<users, stored, author, home, unannounced, owner, worker, joining, room,
                 loaded, caughtUp, queue>>

\* Another worker takes an announcement from Redis.
Deliver(w, m) ==
  /\ m \in queue[w]
  /\ Receive(InRoomOf(w), m)
  /\ queue' = [queue EXCEPT ![w] = @ \ {m}]
  /\ UNCHANGED <<messageVars, owner, worker, joining, room, loaded, caughtUp>>

\* A worker loses its subscription; what is published until it has subscribed
\* again never comes.
Resubscribe(w) ==
  /\ queue[w] # {}
  /\ queue' = [queue EXCEPT ![w] = {}]
  /\ lost' = lost \cup queue[w]
  /\ UNCHANGED <<users, stored, author, home, state, unannounced, socketVars>>

\* forward_message stores a message that nobody announces.
Forward(u, m) ==
  /\ IsMember(u)
  /\ state[m] = "unsent"
  /\ author' = [author EXCEPT ![m] = u]
  /\ state' = [state EXCEPT ![m] = "over"]
  /\ stored' = stored \cup {m}
  /\ UNCHANGED <<users, home, lost, unannounced, socketVars, queue>>

\* delete_account of a user who has stored nothing (module Messaging).  Sockets
\* of the account stay open, and in their room.
DeleteAccount(u) ==
  /\ u \in users
  /\ \A m \in stored : author[m] # u
  /\ users' = users \ {u}
  /\ UNCHANGED <<stored, author, home, state, lost, unannounced, socketVars, queue>>

\* A worker dies or is replaced, with its sockets and handlers.
Crash(w) ==
  /\ Drop({s \in Sockets : worker[s] = w})
  /\ state' = [m \in Msgs |-> IF home[m] = w THEN "over" ELSE state[m]]
  /\ lost' = lost \cup {m \in Msgs : home[m] = w /\ state[m] = "emitting"}
  /\ queue' = [queue EXCEPT ![w] = {}]
  /\ UNCHANGED <<users, stored, author, home, unannounced>>

Next ==
  \/ \E s \in Sockets :
       \/ \E u \in Users, w \in Workers : Connect(s, u, w)
       \/ CheckJoin(s) \/ EnterRoom(s) \/ Leave(s) \/ Load(s) \/ Disconnect(s)
       \/ \E m \in Msgs : Send(s, m)
  \/ \E m \in Msgs :
       \/ Save(m) \/ Emit(m) \/ EmitWithoutRedis(m)
       \/ \E w \in Workers : Deliver(w, m)
       \/ \E u \in Users : Forward(u, m)
  \/ \E u \in Users : DeleteAccount(u)
  \/ \E w \in Workers : Resubscribe(w) \/ Crash(w)

Spec == Init /\ [][Next]_vars

\* Handlers go on and workers read what Redis has for them; nobody has to send,
\* join or leave.
Fairness ==
  /\ \A m \in Msgs : WF_vars(Save(m)) /\ WF_vars(Emit(m) \/ EmitWithoutRedis(m))
  /\ \A w \in Workers, m \in Msgs : WF_vars(Deliver(w, m))

FairSpec == Spec /\ Fairness

-----------------------------------------------------------------------------

States == {"unsent", "saving", "emitting", "over"}

\* Every variable stays in its type; only open sockets are in the room.
TypeOK ==
  /\ users \subseteq Users
  /\ stored \subseteq {m \in Msgs : state[m] \in {"emitting", "over"}}
  /\ author \in [Msgs -> Users \cup {NoUser}]
  /\ home \in [Msgs -> Workers \cup {NoWorker}]
  /\ state \in [Msgs -> States]
  /\ owner \in [Sockets -> Users \cup {NoUser}]
  /\ worker \in [Sockets -> Workers \cup {NoWorker}]
  /\ \A s \in Sockets : Connected(s) <=> worker[s] \in Workers
  /\ joining \cup room \cup caughtUp \subseteq {s \in Sockets : Connected(s)}
  /\ queue \in [Workers -> SUBSET Msgs]
  /\ got \in [Sockets -> SUBSET Msgs]
  /\ loaded \in [Sockets -> SUBSET stored]
  /\ lost \subseteq Msgs
  /\ unannounced \subseteq {m \in stored : state[m] = "over"}

\* Whom the announcement of m will still reach.
OnItsWay(s, m) == state[m] = "emitting" \/ m \in queue[worker[s]]

\* A client that joins and then loads the history has no gap between the two:
\* every message that was sent through a socket was in the history, has been
\* received, or is on its way, unless a worker died, Redis was out of reach, or
\* the handler was told that it failed to save what it had committed.
ClientsMissNothing ==
  \A s \in caughtUp : \A m \in stored :
    \/ m \in loaded[s] \cup got[s]
    \/ OnItsWay(s, m)
    \/ m \in lost \cup unannounced
    \/ home[m] = NoWorker

\* Only who took part when joining receives anything, however joins overlap with
\* reconnections.
OutsidersGetNothing == \A s \in Sockets : got[s] # {} => owner[s] \in Members

\* A message whose handler has come to the emit comes to every socket that stays
\* in the room, unless its worker dies or Redis cannot be reached.
RoomGetsEveryMessage ==
  \A s \in Sockets, m \in Msgs :
    (s \in room /\ state[m] = "emitting") ~> (m \in got[s] \/ s \notin room \/ m \in lost)

=============================================================================
