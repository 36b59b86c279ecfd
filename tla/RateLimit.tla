----------------------------- MODULE RateLimit -----------------------------
(***************************************************************************)
(* What a limiter of app/core/rate_limit.py promises: in any window of     *)
(* time it admits at most Limit tries of a key, and it refuses a try only  *)
(* on account of Limit others in the window before.                        *)
(*                                                                         *)
(* MemoryRateLimiter and RedisRateLimiter implement it with different      *)
(* values of the last three constants.                                     *)
(***************************************************************************)
EXTENDS Naturals, Sequences, FiniteSets

CONSTANTS
  Keys,          \* prefix, address of the client and name of the handler
  Limit,         \* tries admitted in a window
  Window,        \* its length
  Early,         \* how much too early an admitted try may be forgotten
  Late,          \* how much too late a try may still be counted
  CountsRefused  \* whether a refused try counts against the next one

VARIABLES
  now,    \* the time
  tries   \* the tries so far: key, time and answer of each

vars == <<now, tries>>

Answers == {"admitted", "refused", "error"}

\* Tries of key k, with an answer in A, of the last span units of time.
Recent(k, A, span) ==
  {i \in DOMAIN tries :
     tries[i].key = k /\ tries[i].answer \in A /\ tries[i].at + span > now}

Init == now = 0 /\ tries = <<>>

Tick == now' = now + 1 /\ UNCHANGED tries

Record(k, answer) ==
  /\ tries' = Append(tries, [key |-> k, at |-> now, answer |-> answer])
  /\ UNCHANGED now

Admit(k) ==
  /\ Cardinality(Recent(k, {"admitted"}, Window - Early)) < Limit
  /\ Record(k, "admitted")

Refuse(k) ==
  /\ Cardinality(Recent(k, IF CountsRefused THEN Answers ELSE {"admitted"},
                        Window + Late)) >= Limit
  /\ Record(k, "refused")

\* The limiter itself fails: the client gets an error.
Err(k) == Record(k, "error")

\* The limiter starts afresh.
Restart == tries' = <<>> /\ UNCHANGED now

Next ==
  \/ Tick
  \/ Restart
  \/ \E k \in Keys : Admit(k) \/ Refuse(k) \/ Err(k)

Spec == Init /\ [][Next]_vars

=============================================================================
