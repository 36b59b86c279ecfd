------------------------------ MODULE Limiter ------------------------------
(***************************************************************************)
(* What the two limiters of app/core/rate_limit.py have in common.         *)
(***************************************************************************)
EXTENDS Naturals, Sequences, FiniteSets

CONSTANTS
  Keys,     \* prefix, address of the client and name of the handler
  Limit,    \* tries admitted in a window
  Window,   \* its length; in seconds, where time has smaller units
  MaxTime,  \* bound on the clock
  MaxTries  \* bound on the tries

ASSUME LimiterAssumption ==
  /\ Limit \in Nat \ {0}
  /\ Window \in Nat \ {0}
  /\ MaxTime \in Nat
  /\ MaxTries \in Nat

VARIABLES
  now,   \* the clock
  tries  \* history: key, time and answer of the tries, in Redis all of them,
         \* in memory those of one process

=============================================================================
