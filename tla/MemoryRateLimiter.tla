------------------------- MODULE MemoryRateLimiter -------------------------
(***************************************************************************)
(* The limiter that a worker process keeps in its memory without Redis.    *)
(* is_allowed has no await: a try is one step.  A time stamp in _counts is *)
(* represented by the number of the try it is of.                          *)
(***************************************************************************)
EXTENDS Limiter

CONSTANT PruneEvery  \* least time between two prunings

ASSUME MemoryAssumption == PruneEvery \in Nat

VARIABLES
  counts,    \* _counts: the tries stored under each key, {} if there is none
  lastPrune  \* _last_prune

memoryVars == <<now, counts, lastPrune, tries>>

MemoryInit ==
  /\ now = 0
  /\ counts = [k \in Keys |-> {}]
  /\ lastPrune = 0
  /\ tries = <<>>

\* Bound: MaxTime.
MemoryTick ==
  /\ now < MaxTime
  /\ now' = now + 1
  /\ UNCHANGED <<counts, lastPrune, tries>>

InWindow(i) == now - tries[i].at < Window

PruneDue == now - lastPrune > PruneEvery

\* Mutant: nothing is ever pruned.
KeepAll == counts

\* Mutant: a key is pruned when one of its time stamps has expired.
PrunedTooSoon ==
  [k \in Keys |->
     IF PruneDue /\ ~ (\A i \in counts[k] : InWindow(i)) THEN {} ELSE counts[k]]

\* _prune: keys without a time stamp in the window go away.
Pruned ==
  [k \in Keys |->
     IF PruneDue /\ ~ (\E i \in counts[k] : InWindow(i)) THEN {} ELSE counts[k]]

\* Mutant: one list of time stamps for all keys.
FreshOfAll(k) == {i \in UNION {Pruned[j] : j \in Keys} : InWindow(i)}

Fresh(k) == {i \in Pruned[k] : InWindow(i)}

Record(k, answer) ==
  /\ Len(tries) < MaxTries
  /\ lastPrune' = IF PruneDue THEN now ELSE lastPrune
  /\ tries' = Append(tries, [key |-> k, at |-> now, answer |-> answer])
  /\ UNCHANGED now

\* is_allowed of a try that is admitted.
MemoryAdmit(k) ==
  /\ Cardinality(Fresh(k)) < Limit
  /\ counts' = [Pruned EXCEPT ![k] = Fresh(k) \cup {Len(tries) + 1}]
  /\ Record(k, "admitted")

\* is_allowed of a try that is refused: it leaves no time stamp.
MemoryRefuse(k) ==
  /\ Cardinality(Fresh(k)) >= Limit
  /\ counts' = [Pruned EXCEPT ![k] = Fresh(k)]
  /\ Record(k, "refused")

\* The worker is replaced: the new process knows nothing of the old one's
\* tries.
Restart ==
  /\ counts' = [k \in Keys |-> {}]
  /\ lastPrune' = now
  /\ tries' = <<>>
  /\ UNCHANGED now

MemoryNext ==
  \/ MemoryTick
  \/ Restart
  \/ \E k \in Keys : MemoryAdmit(k) \/ MemoryRefuse(k)

MemorySpec == MemoryInit /\ [][MemoryNext]_memoryVars

-----------------------------------------------------------------------------

\* Every variable stays in its type; a key only holds its own tries.
MemoryTypeOK ==
  /\ now \in Nat
  /\ counts \in [Keys -> SUBSET (1 .. Len(tries))]
  /\ lastPrune \in 0 .. now
  /\ tries \in Seq([key : Keys, at : 0 .. now, answer : {"admitted", "refused"}])
  /\ \A k \in Keys : \A i \in counts[k] : tries[i].key = k

\* A process does not remember idle clients for ever: at each try every key
\* with nothing in the window is forgotten, or had something PruneEvery ago.
IdleKeysAreForgotten ==
  tries # <<>> =>
    \A k \in Keys : counts[k] # {} =>
      \E i \in counts[k] :
        tries[Len(tries)].at - tries[i].at < Window + PruneEvery

\* What the limiter promises, to the unit of time.
MemoryPromise == INSTANCE RateLimit WITH Early <- 0, Late <- 0, CountsRefused <- FALSE

MemoryImplementsRateLimit == MemoryPromise!Spec

=============================================================================
