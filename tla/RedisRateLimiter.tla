-------------------------- MODULE RedisRateLimiter --------------------------
(***************************************************************************)
(* The limiter that all workers share through Redis.  is_allowed reads the *)
(* clock, in whole seconds, and then waits for the answer to a pipeline,   *)
(* which Redis executes as one transaction at some later moment.           *)
(*                                                                         *)
(* A member of the sorted set is represented by the number of the try it   *)
(* is of: two tries never have the same nanosecond.  The clocks of the     *)
(* workers and of Redis are one.                                           *)
(***************************************************************************)
EXTENDS Limiter

CONSTANTS
  Requests,  \* requests in progress, of all workers
  Second,    \* units of time in a second
  MaxDelay,  \* bound: time between reading the clock and the pipeline
  NoKey

ASSUME RedisAssumption == Second \in Nat \ {0} /\ MaxDelay \in Nat /\ NoKey \notin Keys

VARIABLES
  members,  \* Redis: the sorted set of each key, {} when there is none
  score,    \* the scores of the members, by number of the try
  expires,  \* Redis: the time at which the key goes away
  key,      \* the key each request has read the clock for, or NoKey
  started   \* when it has read the clock

redisVars == <<now, members, score, expires, key, started, tries>>

RedisInit ==
  /\ now = 0
  /\ members = [k \in Keys |-> {}]
  /\ score = <<>>
  /\ expires = [k \in Keys |-> 0]
  /\ key = [r \in Requests |-> NoKey]
  /\ started = [r \in Requests |-> 0]
  /\ tries = <<>>

\* Bounds: MaxTime, and MaxDelay for every request on its way.
RedisTick ==
  /\ now < MaxTime
  /\ \A r \in Requests : key[r] # NoKey => now < started[r] + MaxDelay
  /\ now' = now + 1
  /\ UNCHANGED <<members, score, expires, key, started, tries>>

\* now = int(time.time()).  Bound: MaxTries.
ReadClock(r, k) ==
  /\ key[r] = NoKey
  /\ Len(tries) + Cardinality({q \in Requests : key[q] # NoKey}) < MaxTries
  /\ key' = [key EXCEPT ![r] = k]
  /\ started' = [started EXCEPT ![r] = now]
  /\ UNCHANGED <<now, members, score, expires, tries>>

Seconds(t) == t \div Second

\* Mutant: one sorted set for all keys.
AliveOfAny(k) == UNION {members[j] : j \in Keys}

\* What EXPIRE has left of a sorted set.
Alive(k) == IF now < expires[k] THEN members[k] ELSE {}

\* Mutant: one second more is removed.
RestTooSmall(r) ==
  {i \in Alive(key[r]) : score[i] > Seconds(started[r]) + 1 - Window}

\* zremrangebyscore(key, 0, now - window_seconds), then zcard.
Rest(r) == {i \in Alive(key[r]) : score[i] + Window > Seconds(started[r])}

\* The pipeline: whatever the answer, the try becomes a member.
Execute(r, answer) ==
  /\ members' = [members EXCEPT ![key[r]] = Rest(r) \cup {Len(tries) + 1}]
  /\ score' = Append(score, Seconds(started[r]))
  /\ expires' = [expires EXCEPT ![key[r]] = now + Window * Second]
  /\ tries' = Append(tries, [key |-> key[r], at |-> now, answer |-> answer])
  /\ key' = [key EXCEPT ![r] = NoKey]
  /\ started' = [started EXCEPT ![r] = 0]
  /\ UNCHANGED now

RedisAdmit(r) ==
  /\ key[r] # NoKey
  /\ Cardinality(Rest(r)) < Limit
  /\ Execute(r, "admitted")

RedisRefuse(r) ==
  /\ key[r] # NoKey
  /\ Cardinality(Rest(r)) >= Limit
  /\ Execute(r, "refused")

\* The connection breaks after the pipeline was executed: is_allowed raises.
LoseAnswer(r) ==
  /\ key[r] # NoKey
  /\ Execute(r, "error")

\* The connection breaks before, or the worker dies.
LosePipeline(r) ==
  /\ key[r] # NoKey
  /\ key' = [key EXCEPT ![r] = NoKey]
  /\ started' = [started EXCEPT ![r] = 0]
  /\ UNCHANGED <<now, members, score, expires, tries>>

RedisNext ==
  \/ RedisTick
  \/ \E r \in Requests :
       \/ \E k \in Keys : ReadClock(r, k)
       \/ RedisAdmit(r)
       \/ RedisRefuse(r)
       \/ LoseAnswer(r)
       \/ LosePipeline(r)

RedisSpec == RedisInit /\ [][RedisNext]_redisVars

-----------------------------------------------------------------------------

\* Every variable stays in its type; a sorted set only has tries of its key.
RedisTypeOK ==
  /\ now \in Nat
  /\ members \in [Keys -> SUBSET (1 .. Len(tries))]
  /\ score \in Seq(Nat) /\ Len(score) = Len(tries)
  /\ expires \in [Keys -> Nat]
  /\ key \in [Requests -> Keys \cup {NoKey}]
  /\ started \in [Requests -> 0 .. now]
  /\ tries \in Seq([key : Keys, at : 0 .. now,
                    answer : {"admitted", "refused", "error"}])
  /\ \A k \in Keys : \A i \in members[k] : tries[i].key = k

\* What the limiter promises: the delay, and the fraction of a second that
\* int() drops, are what the window may be wrong by.
RedisPromise == INSTANCE RateLimit WITH
  Window <- Window * Second,
  Early <- MaxDelay + Second - 1,
  Late <- MaxDelay,
  CountsRefused <- TRUE

RedisImplementsRateLimit == RedisPromise!Spec

=============================================================================
