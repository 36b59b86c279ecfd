------------------------- MODULE RateLimiterProofs -------------------------
(***************************************************************************)
(* Both limiters implement RateLimit: the one in memory exactly, for any   *)
(* limit, window and pruning period; the one in Redis with the errors that *)
(* the delay of the pipeline and the whole seconds make, for any values of *)
(* them.                                                                   *)
(***************************************************************************)
EXTENDS MemoryRateLimiter, RedisRateLimiter, FiniteSetTheorems, TLAPS

\* Every admitted try that is still in the window has its time stamp.
LiveKept ==
  \A i \in DOMAIN tries :
    tries[i].answer = "admitted" /\ InWindow(i) => i \in counts[tries[i].key]

\* Only admitted tries have one.
OnlyAdmitted ==
  \A k \in Keys : \A i \in counts[k] : tries[i].answer = "admitted"

\* What was stored at the last pruning, or since, was live then.
LiveAtPrune ==
  \A k \in Keys : counts[k] # {} =>
    \E i \in counts[k] : tries[i].at + Window > lastPrune

\* The last try is from the pruning period that is still running.
LastTry ==
  tries # <<>> =>
    /\ lastPrune <= tries[Len(tries)].at
    /\ tries[Len(tries)].at <= lastPrune + PruneEvery

MemoryInv ==
  /\ MemoryTypeOK
  /\ LiveKept
  /\ OnlyAdmitted
  /\ LiveAtPrune
  /\ LastTry

\* A new try leaves the others what they were.
LEMMA Recorded ==
  ASSUME MemoryTypeOK, NEW k \in Keys, NEW a \in {"admitted", "refused"}, Record(k, a)
  PROVE  /\ Len(tries') = Len(tries) + 1 /\ Len(tries) \in Nat
         /\ DOMAIN tries = 1 .. Len(tries) /\ DOMAIN tries' = 1 .. Len(tries')
         /\ \A i \in 1 .. Len(tries) :
              /\ tries'[i] = tries[i]
              /\ tries[i] \in [key : Keys, at : 0 .. now, answer : {"admitted", "refused"}]
         /\ tries'[Len(tries) + 1] = [key |-> k, at |-> now, answer |-> a]
         /\ tries' \in Seq([key : Keys, at : 0 .. now, answer : {"admitted", "refused"}])
         /\ tries' # <<>>
<1> DEFINE R == [key : Keys, at : 0 .. now, answer : {"admitted", "refused"}]
           e == [key |-> k, at |-> now, answer |-> a]
<1>1. tries \in Seq(R) /\ e \in R /\ tries' = Append(tries, e)
  BY DEF MemoryTypeOK, Record
<1> HIDE DEF R, e
<1>2. /\ tries' \in Seq(R) /\ Len(tries') = Len(tries) + 1 /\ Len(tries) \in Nat
      /\ DOMAIN tries = 1 .. Len(tries) /\ DOMAIN tries' = 1 .. Len(tries')
      /\ tries'[Len(tries) + 1] = e
      /\ \A i \in 1 .. Len(tries) : tries'[i] = tries[i] /\ tries[i] \in R
  BY <1>1
<1>3. tries' # <<>>
  BY <1>2
<1> QED
  BY <1>2, <1>3 DEF R, e

\* The time stamps left in the window are the admitted tries in it.
LEMMA FreshIsRecent ==
  ASSUME MemoryInv, NEW k \in Keys
  PROVE  /\ Fresh(k) = MemoryPromise!Recent(k, {"admitted"}, Window - 0)
         /\ Fresh(k) = {i \in counts[k] : InWindow(i)}
<1>0. /\ now \in Nat /\ Window \in Nat
      /\ \A i \in 1 .. Len(tries) : tries[i].at \in 0 .. now
      /\ DOMAIN tries = 1 .. Len(tries)
      /\ counts \in [Keys -> SUBSET (1 .. Len(tries))]
      /\ \A j \in Keys : \A i \in counts[j] : tries[i].key = j
  <2> DEFINE R == [key : Keys, at : 0 .. now, answer : {"admitted", "refused"}]
  <2>1. tries \in Seq(R)
    BY DEF MemoryInv, MemoryTypeOK
  <2>2. DOMAIN tries = 1 .. Len(tries) /\ \A i \in 1 .. Len(tries) : tries[i] \in R
    <3> HIDE DEF R
    <3> QED
      BY <2>1
  <2> QED
    BY <2>2, LimiterAssumption, MemoryAssumption DEF MemoryInv, MemoryTypeOK
<1>1. \A i : i \in Fresh(k) <=> i \in counts[k] /\ InWindow(i)
  BY <1>0 DEF Fresh, Pruned
<1>2. \A i : i \in counts[k] /\ InWindow(i)
             <=> /\ i \in DOMAIN tries
                 /\ tries[i].key = k /\ tries[i].answer \in {"admitted"}
                 /\ tries[i].at + (Window - 0) > now
  BY <1>0 DEF MemoryInv, LiveKept, OnlyAdmitted, InWindow
<1>3. Fresh(k) = {i \in counts[k] : InWindow(i)}
  BY <1>1
<1>4. Fresh(k) = MemoryPromise!Recent(k, {"admitted"}, Window - 0)
  BY <1>1, <1>2 DEF MemoryPromise!Recent
<1> QED
  BY <1>3, <1>4

\* What the two kinds of tries have in common.
LEMMA TryKeeps ==
  ASSUME MemoryInv, NEW k \in Keys, NEW a \in {"admitted", "refused"}, Record(k, a),
         NEW S, S = Fresh(k) \/ S = Fresh(k) \cup {Len(tries) + 1},
         S # {}, a = "admitted" <=> S = Fresh(k) \cup {Len(tries) + 1},
         counts' = [Pruned EXCEPT ![k] = S]
  PROVE  MemoryInv'
<1>0. /\ now \in Nat /\ Window \in Nat \ {0} /\ PruneEvery \in Nat
      /\ lastPrune \in 0 .. now
      /\ counts \in [Keys -> SUBSET (1 .. Len(tries))]
      /\ Pruned \in [Keys -> SUBSET (1 .. Len(tries))]
      /\ Fresh(k) = {i \in counts[k] : InWindow(i)}
      /\ now' = now
  BY LimiterAssumption, MemoryAssumption, FreshIsRecent DEF MemoryInv, MemoryTypeOK, Pruned, Record
<1>1. /\ Len(tries') = Len(tries) + 1 /\ Len(tries) \in Nat
      /\ DOMAIN tries = 1 .. Len(tries) /\ DOMAIN tries' = 1 .. Len(tries')
      /\ \A i \in 1 .. Len(tries) :
           /\ tries'[i] = tries[i]
           /\ tries[i] \in [key : Keys, at : 0 .. now, answer : {"admitted", "refused"}]
      /\ tries'[Len(tries) + 1] = [key |-> k, at |-> now, answer |-> a]
      /\ tries' \in Seq([key : Keys, at : 0 .. now, answer : {"admitted", "refused"}])
      /\ tries' # <<>>
  BY Recorded DEF MemoryInv
<1>2. /\ counts'[k] = S
      /\ \A j \in Keys \ {k} : counts'[j] = Pruned[j] /\ counts'[j] \in {{}, counts[j]}
      /\ DOMAIN counts' = Keys
  BY <1>0 DEF Pruned
<1>3. S \subseteq 1 .. Len(tries')
  BY <1>0, <1>1
<1>4. \A i \in S : tries'[i].key = k /\ tries'[i].answer = "admitted"
                   /\ tries'[i].at + Window > now
  BY <1>0, <1>1 DEF MemoryInv, MemoryTypeOK, OnlyAdmitted, InWindow
<1>5. MemoryTypeOK'
  <2>1. counts' \in [Keys -> SUBSET (1 .. Len(tries'))]
    BY <1>0, <1>1, <1>2, <1>3
  <2>2. \A j \in Keys : \A i \in counts'[j] : tries'[i].key = j
    <3> SUFFICES ASSUME NEW j \in Keys, NEW i \in counts'[j]
                 PROVE  tries'[i].key = j
      OBVIOUS
    <3>1. CASE j = k
      BY <1>2, <1>4, <3>1
    <3>2. CASE j # k
      <4>1. i \in counts[j] /\ tries[i].key = j
        BY <1>2, <3>2 DEF MemoryInv, MemoryTypeOK
      <4>2. tries'[i] = tries[i]
        BY <1>0, <1>1, <4>1
      <4> QED
        BY <4>1, <4>2
    <3> QED
      BY <3>1, <3>2
  <2>3. lastPrune' \in 0 .. now'
    BY <1>0 DEF Record
  <2> QED
    BY <1>0, <1>1, <2>1, <2>2, <2>3 DEF MemoryTypeOK
<1>6. LiveKept'
  <2> SUFFICES ASSUME NEW i \in DOMAIN tries', tries'[i].answer = "admitted",
                      InWindow(i)'
               PROVE  i \in counts'[tries'[i].key]
    BY DEF LiveKept
  <2>1. CASE i = Len(tries) + 1
    BY <1>1, <1>2, <2>1
  <2>2. CASE i \in 1 .. Len(tries)
    <3>1. /\ tries'[i] = tries[i] /\ InWindow(i) /\ i \in counts[tries[i].key]
          /\ tries[i].key \in Keys
      BY <1>0, <1>1, <2>2 DEF MemoryInv, LiveKept, InWindow
    <3>2. i \in Pruned[tries[i].key]
      BY <3>1 DEF Pruned
    <3> QED
      BY <1>0, <1>2, <3>1, <3>2
  <2> QED
    BY <1>1, <2>1, <2>2
<1>7. OnlyAdmitted'
  <2>1. \A j \in Keys : \A i \in counts[j] : tries'[i].answer = "admitted"
    BY <1>0, <1>1 DEF MemoryInv, OnlyAdmitted
  <2>2. \A j \in Keys \ {k} : counts'[j] \subseteq counts[j]
    BY <1>2
  <2> QED
    BY <1>2, <1>4, <2>1, <2>2 DEF OnlyAdmitted
<1>8. LiveAtPrune'
  <2> SUFFICES ASSUME NEW j \in Keys, counts'[j] # {}
               PROVE  \E i \in counts'[j] : tries'[i].at + Window > lastPrune'
    BY DEF LiveAtPrune
  <2>1. lastPrune' \in {now, lastPrune} /\ (~ PruneDue => lastPrune' = lastPrune)
    BY DEF Record
  <2>2. CASE j = k
    <3>1. PICK i \in S : TRUE
      OBVIOUS
    <3>2. tries'[i].at + Window > lastPrune' /\ i \in counts'[j]
      BY <1>0, <1>1, <1>2, <1>3, <1>4, <2>1, <2>2, <3>1
    <3> QED
      BY <3>2
  <2>3. CASE j # k
    <3>1. counts'[j] = counts[j] /\ counts[j] # {}
          /\ (PruneDue => \E i \in counts[j] : InWindow(i))
      BY <1>2, <2>3 DEF Pruned
    <3>2. \E i \in counts[j] : tries[i].at + Window > lastPrune'
      <4>1. CASE PruneDue
        <5>1. PICK i \in counts[j] : InWindow(i)
          BY <3>1, <4>1
        <5>2. tries[i].at \in 0 .. now
          BY <1>0, <1>1
        <5> QED
          BY <1>0, <2>1, <5>1, <5>2 DEF InWindow
      <4>2. CASE ~ PruneDue
        BY <2>1, <3>1, <4>2 DEF MemoryInv, LiveAtPrune
      <4> QED
        BY <4>1, <4>2
    <3> QED
      BY <1>0, <1>1, <3>1, <3>2
  <2> QED
    BY <2>2, <2>3
<1>9. LastTry'
  BY <1>0, <1>1 DEF LastTry, Record, PruneDue
<1> QED
  BY <1>5, <1>6, <1>7, <1>8, <1>9 DEF MemoryInv

\* A try that is admitted.
LEMMA AdmitKeeps ==
  ASSUME MemoryInv, NEW k \in Keys, MemoryAdmit(k)
  PROVE  MemoryInv'
<1>1. PICK S : S = Fresh(k) \cup {Len(tries) + 1}
  OBVIOUS
<1> QED
  BY <1>1, TryKeeps DEF MemoryAdmit

\* A try that is refused: as many others are in the window as the limit says.
LEMMA RefuseKeeps ==
  ASSUME MemoryInv, NEW k \in Keys, MemoryRefuse(k)
  PROVE  MemoryInv'
<1>1. PICK S : S = Fresh(k)
  OBVIOUS
<1>2. S # {}
  BY <1>1, LimiterAssumption, MemoryAssumption, FS_EmptySet DEF MemoryRefuse
<1>3. Len(tries) + 1 \notin S
  BY <1>1 DEF MemoryInv, MemoryTypeOK, Fresh, Pruned
<1> QED
  BY <1>1, <1>2, <1>3, TryKeeps DEF MemoryRefuse

\* Time passes: fewer tries are in the window, none is forgotten.
LEMMA MemoryTickKeeps ==
  ASSUME MemoryInv, MemoryTick
  PROVE  MemoryInv'
<1> USE DEF MemoryTick
<1>0. /\ now \in Nat /\ Window \in Nat /\ now' = now + 1
      /\ DOMAIN tries = 1 .. Len(tries)
      /\ \A i \in 1 .. Len(tries) :
           tries[i] \in [key : Keys, at : 0 .. now, answer : {"admitted", "refused"}]
      /\ tries \in Seq([key : Keys, at : 0 .. now', answer : {"admitted", "refused"}])
  <2> DEFINE R == [key : Keys, at : 0 .. now, answer : {"admitted", "refused"}]
             S == [key : Keys, at : 0 .. now', answer : {"admitted", "refused"}]
  <2>1. tries \in Seq(R) /\ now \in Nat /\ now' = now + 1
    BY DEF MemoryInv, MemoryTypeOK
  <2>2. \A x \in R : x \in S
    BY <2>1
  <2>3. /\ DOMAIN tries = 1 .. Len(tries)
        /\ \A i \in 1 .. Len(tries) : tries[i] \in R
        /\ tries \in Seq(S)
    <3> HIDE DEF R, S
    <3> QED
      BY <2>1, <2>2
  <2> QED
    BY <2>1, <2>3, LimiterAssumption, MemoryAssumption
<1>1. MemoryTypeOK'
  BY <1>0 DEF MemoryInv, MemoryTypeOK
<1>2. LiveKept'
  BY <1>0 DEF MemoryInv, LiveKept, InWindow
<1>3. OnlyAdmitted' /\ LiveAtPrune' /\ LastTry'
  BY DEF MemoryInv, OnlyAdmitted, LiveAtPrune, LastTry
<1> QED
  BY <1>1, <1>2, <1>3 DEF MemoryInv

\* A process without tries, at its start or at that of its successor.
LEMMA AfreshHolds ==
  /\ MemoryInit => MemoryInv
  /\ MemoryInv /\ Restart => MemoryInv'
<1>1. ASSUME MemoryInit
      PROVE  MemoryInv
  BY <1>1 DEF MemoryInit, MemoryInv, MemoryTypeOK, LiveKept, OnlyAdmitted, LiveAtPrune, LastTry
<1>2. ASSUME MemoryInv, Restart
      PROVE  MemoryInv'
  <2>1. now \in Nat
    BY <1>2 DEF MemoryInv, MemoryTypeOK
  <2> QED
    BY <1>2, <2>1 DEF Restart, MemoryInv, MemoryTypeOK, LiveKept, OnlyAdmitted, LiveAtPrune, LastTry
<1> QED
  BY <1>1, <1>2

\* The strengthened invariant holds in every reachable state.
THEOREM MemoryInvariance == MemorySpec => []MemoryInv
<1>1. MemoryInv /\ [MemoryNext]_memoryVars => MemoryInv'
  <2>1. ASSUME MemoryInv, MemoryNext
        PROVE  MemoryInv'
    BY <2>1, MemoryTickKeeps, AfreshHolds, AdmitKeeps, RefuseKeeps DEF MemoryNext
  <2>2. ASSUME MemoryInv, UNCHANGED memoryVars
        PROVE  MemoryInv'
    BY <2>2 DEF memoryVars, MemoryInv, MemoryTypeOK, LiveKept, OnlyAdmitted,
      LiveAtPrune, LastTry, InWindow
  <2> QED
    BY <2>1, <2>2
<1> QED
  BY <1>1, AfreshHolds, PTL DEF MemorySpec

\* Every variable stays in its type, and no key holds the tries of another.
THEOREM MemoryTypeCorrect == MemorySpec => []MemoryTypeOK
<1>1. MemoryInv => MemoryTypeOK
  BY DEF MemoryInv
<1> QED
  BY <1>1, MemoryInvariance, PTL

\* The dictionary of a process forgets every client that has been idle for a
\* window and a pruning period.
THEOREM MemoryIsReclaimed == MemorySpec => []IdleKeysAreForgotten
<1>1. MemoryInv => IdleKeysAreForgotten
  <2> SUFFICES ASSUME MemoryInv, tries # <<>>, NEW k \in Keys, counts[k] # {}
               PROVE  \E i \in counts[k] :
                        tries[Len(tries)].at - tries[i].at < Window + PruneEvery
    BY DEF IdleKeysAreForgotten
  <2> DEFINE R == [key : Keys, at : 0 .. now, answer : {"admitted", "refused"}]
  <2>1. tries \in Seq(R) /\ counts \in [Keys -> SUBSET (1 .. Len(tries))]
    BY DEF MemoryInv, MemoryTypeOK
  <2>2. Len(tries) \in 1 .. Len(tries) /\ \A i \in 1 .. Len(tries) : tries[i] \in R
    <3> HIDE DEF R
    <3> QED
      BY <2>1
  <2>3. PICK i \in counts[k] : tries[i].at + Window > lastPrune
    BY DEF MemoryInv, LiveAtPrune
  <2>4. tries[Len(tries)].at <= lastPrune + PruneEvery
    BY DEF MemoryInv, LastTry
  <2>5. tries[Len(tries)].at \in Nat /\ tries[i].at \in Nat /\ lastPrune \in Nat
    BY <2>1, <2>2 DEF MemoryInv, MemoryTypeOK
  <2> QED
    BY <2>3, <2>4, <2>5, LimiterAssumption, MemoryAssumption
<1> QED
  BY <1>1, MemoryInvariance, PTL

\* The instance has a copy of Cardinality.
LEMMA MemorySameCardinality == \A S : MemoryPromise!Cardinality(S) = Cardinality(S)
  BY Zenon DEF MemoryPromise!Cardinality, Cardinality

\* In any window a process admits at most Limit tries of a key, and it refuses
\* one only when it has admitted as many.
THEOREM MemoryRefinement == MemorySpec => MemoryImplementsRateLimit
<1>1. MemoryInit => MemoryPromise!Init
  BY DEF MemoryInit, MemoryPromise!Init
<1>2. MemoryInv /\ [MemoryNext]_memoryVars => [MemoryPromise!Next]_(MemoryPromise!vars)
  <2>1. ASSUME MemoryTick
        PROVE  MemoryPromise!Tick
    BY <2>1 DEF MemoryTick, MemoryPromise!Tick
  <2>2. ASSUME Restart
        PROVE  MemoryPromise!Restart
    BY <2>2 DEF Restart, MemoryPromise!Restart
  <2>3. ASSUME MemoryInv, NEW k \in Keys, MemoryAdmit(k)
        PROVE  MemoryPromise!Admit(k)
    BY <2>3, FreshIsRecent, MemorySameCardinality DEF MemoryAdmit, Record,
      MemoryPromise!Admit, MemoryPromise!Record
  <2>4. ASSUME MemoryInv, NEW k \in Keys, MemoryRefuse(k)
        PROVE  MemoryPromise!Refuse(k)
    <3>1. Window + 0 = Window - 0
      BY LimiterAssumption, MemoryAssumption
    <3> QED
      BY <2>4, <3>1, FreshIsRecent, MemorySameCardinality DEF MemoryRefuse, Record,
        MemoryPromise!Refuse, MemoryPromise!Record
  <2>5. ASSUME UNCHANGED memoryVars
        PROVE  UNCHANGED MemoryPromise!vars
    BY <2>5 DEF memoryVars, MemoryPromise!vars
  <2> QED
    BY <2>1, <2>2, <2>3, <2>4, <2>5 DEF MemoryNext, MemoryPromise!Next
<1> QED
  BY <1>1, <1>2, MemoryInvariance, PTL DEF MemorySpec, MemoryImplementsRateLimit, MemoryPromise!Spec

-----------------------------------------------------------------------------

TryRecord(t) == [key : Keys, at : 0 .. t, answer : {"admitted", "refused", "error"}]

\* A request on its way has read the clock not long ago.
Timely == \A r \in Requests : key[r] # NoKey => now <= started[r] + MaxDelay

\* The score of a try is its time but for the delay and the fraction dropped.
Scored ==
  \A i \in DOMAIN tries :
    /\ score[i] * Second <= tries[i].at
    /\ tries[i].at <= score[i] * Second + MaxDelay + Second - 1

\* What counts in the promised window is a member, and its key is alive.
Kept ==
  \A i \in DOMAIN tries :
    /\ tries[i].at + Window * Second <= expires[tries[i].key]
    /\ tries[i].at + (Window * Second - (MaxDelay + Second - 1)) > now
         => i \in members[tries[i].key]

RedisInv ==
  /\ RedisTypeOK
  /\ Timely
  /\ Scored
  /\ Kept

\* Whole seconds.
LEMMA Rounding ==
  ASSUME NEW t \in Nat
  PROVE  /\ Seconds(t) \in Nat
         /\ Seconds(t) * Second <= t
         /\ t < Seconds(t) * Second + Second
<1>1. Second \in Nat \ {0}
  BY LimiterAssumption, RedisAssumption
<1> QED
  BY <1>1 DEF Seconds

\* The comparison of the pipeline is made in seconds; what it says in units.
LEMMA Comparison ==
  ASSUME NEW s \in Nat, NEW q \in Nat
  PROVE  /\ s * Second \in Nat /\ q * Second \in Nat /\ Window * Second \in Nat
         /\ s + Window > q => s * Second + Window * Second >= q * Second + Second
         /\ ~ (s + Window > q) => s * Second + Window * Second <= q * Second
<1>1. Second \in Nat /\ Window \in Nat
  BY LimiterAssumption, RedisAssumption
<1>2. /\ s * Second \in Nat /\ q * Second \in Nat /\ Window * Second \in Nat
      /\ (s + Window) * Second = s * Second + Window * Second
      /\ (q + 1) * Second = q * Second + Second
  BY <1>1
<1>3. \A a, b \in Nat : a >= b => a * Second >= b * Second
  BY <1>1
<1>4. s + Window > q => (s + Window) * Second >= (q + 1) * Second
  BY <1>1, <1>3
<1>5. ~ (s + Window > q) => q * Second >= (s + Window) * Second
  BY <1>1, <1>3
<1> QED
  BY <1>2, <1>4, <1>5

\* The types again, element by element.
LEMMA Types ==
  ASSUME RedisTypeOK
  PROVE  /\ now \in Nat /\ Len(tries) \in Nat /\ MaxDelay \in Nat
         /\ Second \in Nat \ {0} /\ Window \in Nat /\ Limit \in Nat \ {0}
         /\ DOMAIN tries = 1 .. Len(tries)
         /\ \A i \in DOMAIN tries : tries[i] \in TryRecord(now) /\ score[i] \in Nat
         /\ members \in [Keys -> SUBSET DOMAIN tries]
         /\ \A k \in Keys : \A i \in members[k] : tries[i].key = k
         /\ expires \in [Keys -> Nat]
         /\ key \in [Requests -> Keys \cup {NoKey}] /\ started \in [Requests -> 0 .. now]
<1>1. tries \in Seq(TryRecord(now)) /\ score \in Seq(Nat) /\ Len(score) = Len(tries)
  BY DEF RedisTypeOK, TryRecord
<1>2. /\ Len(tries) \in Nat /\ DOMAIN tries = 1 .. Len(tries)
      /\ \A i \in DOMAIN tries : tries[i] \in TryRecord(now) /\ score[i] \in Nat
  BY <1>1
<1> QED
  BY <1>2, LimiterAssumption, RedisAssumption DEF RedisTypeOK

\* The pipeline finds all tries that the promise counts in any case...
LEMMA RestHasRecent ==
  ASSUME RedisInv, NEW r \in Requests, key[r] # NoKey,
         NEW i \in DOMAIN tries, tries[i].key = key[r],
         tries[i].at + (Window * Second - (MaxDelay + Second - 1)) > now
  PROVE  i \in Rest(r)
<1> DEFINE W == Window * Second
           q == Seconds(started[r])
<1>0. /\ now \in Nat /\ MaxDelay \in Nat /\ Second \in Nat \ {0} /\ W \in Nat
      /\ tries[i].at \in 0 .. now /\ score[i] \in Nat
      /\ key[r] \in Keys /\ started[r] \in 0 .. now
      /\ expires[key[r]] \in Nat
  BY Types, Comparison DEF RedisInv, TryRecord
<1>1. /\ i \in members[key[r]] /\ tries[i].at + W <= expires[key[r]]
      /\ tries[i].at <= score[i] * Second + MaxDelay + Second - 1
  BY DEF RedisInv, Kept, Scored
<1>2. q \in Nat /\ q * Second <= started[r]
  BY <1>0, Rounding
<1>3. score[i] * Second \in Nat /\ q * Second \in Nat
      /\ (~ (score[i] + Window > q) => score[i] * Second + W <= q * Second)
  BY <1>0, <1>2, Comparison
<1> HIDE DEF W, q
<1>4. now < expires[key[r]]
  BY <1>0, <1>1 DEF W
<1>5. score[i] + Window > q
  <2>1. tries[i].at + (W - (MaxDelay + Second - 1)) > now
    BY DEF W
  <2> QED
    BY <1>0, <1>1, <1>2, <1>3, <2>1
<1> QED
  BY <1>1, <1>4, <1>5 DEF Rest, Alive, q

\* ... and none that it does not allow to be counted.
LEMMA RestIsRecent ==
  ASSUME RedisInv, NEW r \in Requests, key[r] # NoKey, NEW i \in Rest(r)
  PROVE  /\ i \in DOMAIN tries /\ tries[i].key = key[r]
         /\ tries[i].at + (Window * Second + MaxDelay) > now
<1> DEFINE W == Window * Second
           q == Seconds(started[r])
<1>0. /\ now \in Nat /\ MaxDelay \in Nat /\ Second \in Nat \ {0} /\ W \in Nat
      /\ key[r] \in Keys /\ started[r] \in 0 .. now
  BY Types, Comparison DEF RedisInv
<1>1. i \in members[key[r]] /\ score[i] + Window > q
  BY DEF Rest, Alive
<1>2. i \in DOMAIN tries /\ tries[i].key = key[r]
      /\ tries[i].at \in 0 .. now /\ score[i] \in Nat
  BY <1>0, <1>1, Types DEF RedisInv, TryRecord
<1>3. q \in Nat /\ started[r] < q * Second + Second
  BY <1>0, Rounding
<1>4. score[i] * Second \in Nat /\ q * Second \in Nat
      /\ (score[i] + Window > q => score[i] * Second + W >= q * Second + Second)
  BY <1>2, <1>3, Comparison
<1>5. score[i] * Second <= tries[i].at /\ now <= started[r] + MaxDelay
  BY <1>2 DEF RedisInv, Scored, Timely
<1> HIDE DEF W, q
<1>6. tries[i].at + (W + MaxDelay) > now
  BY <1>0, <1>1, <1>2, <1>3, <1>4, <1>5
<1> QED
  BY <1>2, <1>6 DEF W

\* A pipeline keeps what is still live and adds its own try.
LEMMA ExecuteKeeps ==
  ASSUME RedisInv, NEW r \in Requests, key[r] # NoKey,
         NEW a \in {"admitted", "refused", "error"}, Execute(r, a)
  PROVE  RedisInv'
<1> DEFINE n == Len(tries) + 1
           e == [key |-> key[r], at |-> now, answer |-> a]
           W == Window * Second
<1>0. /\ now \in Nat /\ now' = now /\ Len(tries) \in Nat /\ MaxDelay \in Nat
      /\ Second \in Nat \ {0} /\ W \in Nat
      /\ DOMAIN tries = 1 .. Len(tries)
      /\ \A i \in DOMAIN tries : tries[i] \in TryRecord(now) /\ score[i] \in Nat
      /\ members \in [Keys -> SUBSET DOMAIN tries]
      /\ \A k \in Keys : \A i \in members[k] : tries[i].key = k
      /\ expires \in [Keys -> Nat]
      /\ key \in [Requests -> Keys \cup {NoKey}] /\ started \in [Requests -> 0 .. now]
      /\ key[r] \in Keys /\ started[r] \in 0 .. now
  BY Types, Comparison DEF RedisInv, Execute
<1>1. /\ Len(tries') = n /\ DOMAIN tries' = 1 .. n /\ n \notin DOMAIN tries
      /\ tries'[n] = e /\ score'[n] = Seconds(started[r])
      /\ \A i \in DOMAIN tries : tries'[i] = tries[i] /\ score'[i] = score[i]
      /\ tries' \in Seq(TryRecord(now)) /\ score' \in Seq(Nat) /\ Len(score') = n
  <2>1. /\ tries \in Seq(TryRecord(now)) /\ e \in TryRecord(now)
        /\ tries' = Append(tries, e)
    BY <1>0 DEF RedisInv, RedisTypeOK, TryRecord, Execute
  <2>2. /\ score \in Seq(Nat) /\ Len(score) = Len(tries) /\ Seconds(started[r]) \in Nat
        /\ score' = Append(score, Seconds(started[r]))
    BY <1>0, Rounding DEF RedisInv, RedisTypeOK, Execute
  <2> HIDE DEF e
  <2> QED
    BY <1>0, <2>1, <2>2
<1>2. /\ members' = [members EXCEPT ![key[r]] = Rest(r) \cup {n}]
      /\ expires' = [expires EXCEPT ![key[r]] = now + W]
      /\ key' = [key EXCEPT ![r] = NoKey] /\ started' = [started EXCEPT ![r] = 0]
  BY DEF Execute
<1>3. Rest(r) \subseteq members[key[r]]
  BY DEF Rest, Alive
<1>4. /\ Seconds(started[r]) * Second \in Nat
      /\ Seconds(started[r]) * Second <= now
      /\ now <= Seconds(started[r]) * Second + MaxDelay + Second - 1
  <2>1. /\ Seconds(started[r]) \in Nat /\ Seconds(started[r]) * Second <= started[r]
        /\ started[r] < Seconds(started[r]) * Second + Second
    BY <1>0, Rounding
  <2>2. now <= started[r] + MaxDelay
    BY DEF RedisInv, Timely
  <2>3. Seconds(started[r]) * Second \in Nat
    BY <1>0, <2>1
  <2> QED
    BY <1>0, <2>1, <2>2, <2>3
<1> HIDE DEF W
<1>5. RedisTypeOK'
  <2>1. members' \in [Keys -> SUBSET (1 .. Len(tries'))]
    BY <1>0, <1>1, <1>2, <1>3
  <2>2. \A k \in Keys : \A i \in members'[k] : tries'[i].key = k
    BY <1>0, <1>1, <1>2, <1>3
  <2>3. expires' \in [Keys -> Nat] /\ key' \in [Requests -> Keys \cup {NoKey}]
        /\ started' \in [Requests -> 0 .. now']
    BY <1>0, <1>2
  <2> QED
    BY <1>0, <1>1, <2>1, <2>2, <2>3 DEF RedisTypeOK, TryRecord
<1>6. Timely'
  BY <1>0, <1>2 DEF RedisInv, Timely
<1>7. Scored'
  <2> SUFFICES ASSUME NEW i \in DOMAIN tries'
               PROVE  /\ score'[i] * Second <= tries'[i].at
                      /\ tries'[i].at <= score'[i] * Second + MaxDelay + Second - 1
    BY DEF Scored
  <2>1. CASE i = n
    <3>1. score'[i] = Seconds(started[r]) /\ tries'[i].at = now
      BY <1>1, <2>1
    <3> QED
      BY <1>4, <3>1
  <2>2. CASE i \in DOMAIN tries
    BY <1>1, <2>2 DEF RedisInv, Scored
  <2> QED
    BY <1>0, <1>1, <2>1, <2>2
<1>8. Kept'
  <2> SUFFICES ASSUME NEW i \in DOMAIN tries'
               PROVE  /\ tries'[i].at + W <= expires'[tries'[i].key]
                      /\ tries'[i].at + (W - (MaxDelay + Second - 1)) > now
                           => i \in members'[tries'[i].key]
    BY <1>0 DEF Kept, W
  <2>1. CASE i = n
    BY <1>0, <1>1, <1>2, <2>1
  <2>2. CASE i \in DOMAIN tries
    <3>1. /\ tries'[i] = tries[i] /\ tries[i].key \in Keys /\ tries[i].at \in 0 .. now
          /\ tries[i].at + W <= expires[tries[i].key]
      BY <1>0, <1>1, <2>2 DEF RedisInv, Kept, TryRecord, W
    <3>2. CASE tries[i].key = key[r]
      <4>1. tries[i].at + (W - (MaxDelay + Second - 1)) > now => i \in Rest(r)
        BY <2>2, <3>2, RestHasRecent DEF W
      <4> QED
        BY <1>0, <1>2, <3>1, <3>2, <4>1
    <3>3. CASE tries[i].key # key[r]
      <4>1. tries[i].at + (W - (MaxDelay + Second - 1)) > now => i \in members[tries[i].key]
        BY <2>2 DEF RedisInv, Kept, W
      <4> QED
        BY <1>0, <1>2, <3>1, <3>3, <4>1
    <3> QED
      BY <3>2, <3>3
  <2> QED
    BY <1>0, <1>1, <2>1, <2>2
<1> QED
  BY <1>5, <1>6, <1>7, <1>8 DEF RedisInv

\* Time passes: no request waits longer than MaxDelay, fewer tries count.
LEMMA RedisTickKeeps ==
  ASSUME RedisInv, RedisTick
  PROVE  RedisInv'
<1>0. /\ now \in Nat /\ now' = now + 1 /\ MaxDelay \in Nat
      /\ Second \in Nat \ {0} /\ Window * Second \in Nat
      /\ \A i \in DOMAIN tries : tries[i] \in TryRecord(now)
      /\ started \in [Requests -> 0 .. now]
      /\ UNCHANGED <<members, score, expires, key, started, tries>>
  BY Types, Comparison DEF RedisInv, RedisTick
<1>1. tries \in Seq(TryRecord(now'))
  <2>1. tries \in Seq(TryRecord(now)) /\ \A x \in TryRecord(now) : x \in TryRecord(now')
    BY <1>0 DEF RedisInv, RedisTypeOK, TryRecord
  <2> QED
    BY <2>1
<1>2. RedisTypeOK'
  BY <1>0, <1>1 DEF RedisInv, RedisTypeOK, TryRecord
<1>3. Timely'
  BY <1>0 DEF RedisInv, Timely, RedisTick
<1>4. Scored'
  BY <1>0 DEF RedisInv, Scored
<1>5. Kept'
  BY <1>0 DEF RedisInv, Kept, TryRecord
<1> QED
  BY <1>2, <1>3, <1>4, <1>5 DEF RedisInv

\* Reading the clock, and a pipeline that Redis never gets.
LEMMA ReadClockKeeps ==
  ASSUME RedisInv, NEW r \in Requests, NEW k \in Keys, ReadClock(r, k)
  PROVE  RedisInv'
<1>1. RedisTypeOK'
  BY DEF RedisInv, RedisTypeOK, ReadClock
<1>2. Timely'
  BY LimiterAssumption, RedisAssumption DEF RedisInv, RedisTypeOK, Timely, ReadClock
<1>3. Scored' /\ Kept'
  BY DEF RedisInv, Scored, Kept, ReadClock
<1> QED
  BY <1>1, <1>2, <1>3 DEF RedisInv

LEMMA LosePipelineKeeps ==
  ASSUME RedisInv, NEW r \in Requests, LosePipeline(r)
  PROVE  RedisInv'
<1>1. RedisTypeOK'
  BY DEF RedisInv, RedisTypeOK, LosePipeline
<1>2. Timely'
  BY DEF RedisInv, RedisTypeOK, Timely, LosePipeline
<1>3. Scored' /\ Kept'
  BY DEF RedisInv, Scored, Kept, LosePipeline
<1> QED
  BY <1>1, <1>2, <1>3 DEF RedisInv

LEMMA RedisInitHolds == RedisInit => RedisInv
  BY LimiterAssumption, RedisAssumption DEF RedisInit, RedisInv, RedisTypeOK, Timely, Scored, Kept

\* The strengthened invariant holds in every reachable state.
THEOREM RedisInvariance == RedisSpec => []RedisInv
<1>1. RedisInv /\ [RedisNext]_redisVars => RedisInv'
  <2>1. ASSUME RedisInv, NEW r \in Requests, RedisAdmit(r) \/ RedisRefuse(r) \/ LoseAnswer(r)
        PROVE  RedisInv'
    BY <2>1, ExecuteKeeps DEF RedisAdmit, RedisRefuse, LoseAnswer
  <2>2. ASSUME RedisInv, UNCHANGED redisVars
        PROVE  RedisInv'
    BY <2>2 DEF redisVars, RedisInv, RedisTypeOK, Timely, Scored, Kept
  <2> QED
    BY <2>1, <2>2, RedisTickKeeps, ReadClockKeeps, LosePipelineKeeps DEF RedisNext
<1> QED
  BY <1>1, RedisInitHolds, PTL DEF RedisSpec

\* Every variable stays in its type, and a sorted set has the tries of its key.
THEOREM RedisTypeCorrect == RedisSpec => []RedisTypeOK
<1>1. RedisInv => RedisTypeOK
  BY DEF RedisInv
<1> QED
  BY <1>1, RedisInvariance, PTL

\* The instance has a copy of Cardinality.
LEMMA RedisSameCardinality == \A S : RedisPromise!Cardinality(S) = Cardinality(S)
  BY Zenon DEF RedisPromise!Cardinality, Cardinality

\* Tries that count are finitely many.
LEMMA FewerTries ==
  ASSUME RedisTypeOK, NEW S \in SUBSET DOMAIN tries, NEW T \in SUBSET S
  PROVE  Cardinality(S) \in Nat /\ Cardinality(T) \in Nat
         /\ Cardinality(T) <= Cardinality(S)
<1>1. IsFiniteSet(DOMAIN tries)
  BY Types, FS_Interval
<1>2. IsFiniteSet(S) /\ IsFiniteSet(T)
  BY <1>1, FS_Subset
<1> QED
  BY <1>2, FS_Subset, FS_CardinalityType

\* All workers together admit at most Limit tries of a key in a window that is
\* shorter than it should be by the delay of a pipeline and less than a second;
\* they refuse one only for Limit tries, refused ones included, in a window
\* that is longer by the delay.
THEOREM RedisRefinement == RedisSpec => RedisImplementsRateLimit
<1>1. RedisInit => RedisPromise!Init
  BY DEF RedisInit, RedisPromise!Init
<1>2. RedisInv /\ [RedisNext]_redisVars => [RedisPromise!Next]_(RedisPromise!vars)
  <2>1. ASSUME RedisTick
        PROVE  RedisPromise!Tick
    BY <2>1 DEF RedisTick, RedisPromise!Tick
  <2>2. ASSUME RedisInv, NEW r \in Requests, RedisAdmit(r)
        PROVE  key[r] \in Keys /\ RedisPromise!Admit(key[r])
    <3> DEFINE S == RedisPromise!Recent(key[r], {"admitted"},
                                   Window * Second - (MaxDelay + Second - 1))
    <3>1. key[r] \in Keys /\ key[r] # NoKey
      BY <2>2, Types DEF RedisInv, RedisAdmit
    <3>2. S \subseteq Rest(r)
      BY <2>2, <3>1, RestHasRecent DEF RedisPromise!Recent
    <3>3. Rest(r) \subseteq DOMAIN tries
      BY <2>2, <3>1, RestIsRecent
    <3> HIDE DEF S
    <3>4. Cardinality(S) < Limit
      BY <2>2, <3>2, <3>3, FewerTries, LimiterAssumption, RedisAssumption DEF RedisInv, RedisAdmit
    <3> QED
      BY <2>2, <3>1, <3>4, RedisSameCardinality DEF RedisAdmit, Execute,
        RedisPromise!Admit, RedisPromise!Record, S
  <2>3. ASSUME RedisInv, NEW r \in Requests, RedisRefuse(r)
        PROVE  key[r] \in Keys /\ RedisPromise!Refuse(key[r])
    <3> DEFINE S == RedisPromise!Recent(key[r], RedisPromise!Answers, Window * Second + MaxDelay)
    <3>1. key[r] \in Keys /\ key[r] # NoKey
      BY <2>3, Types DEF RedisInv, RedisRefuse
    <3>2. \A i \in DOMAIN tries : tries[i].answer \in RedisPromise!Answers
      BY <2>3, Types DEF RedisInv, TryRecord, RedisPromise!Answers
    <3>3. Rest(r) \subseteq S /\ S \subseteq DOMAIN tries
      BY <2>3, <3>1, <3>2, RestIsRecent DEF RedisPromise!Recent
    <3> HIDE DEF S
    <3>4. Cardinality(S) >= Limit
      BY <2>3, <3>3, FewerTries, LimiterAssumption, RedisAssumption DEF RedisInv, RedisRefuse
    <3> QED
      BY <2>3, <3>1, <3>4, RedisSameCardinality DEF RedisRefuse, Execute,
        RedisPromise!Refuse, RedisPromise!Record, S
  <2>4. ASSUME RedisInv, NEW r \in Requests, LoseAnswer(r)
        PROVE  key[r] \in Keys /\ RedisPromise!Err(key[r])
    <3>1. key[r] \in Keys
      BY <2>4, Types DEF RedisInv, LoseAnswer
    <3> QED
      BY <2>4, <3>1 DEF LoseAnswer, Execute, RedisPromise!Err, RedisPromise!Record
  <2>5. ASSUME NEW r \in Requests, NEW k \in Keys, ReadClock(r, k)
        PROVE  UNCHANGED RedisPromise!vars
    BY <2>5 DEF ReadClock, RedisPromise!vars
  <2>6. ASSUME UNCHANGED redisVars
        PROVE  UNCHANGED RedisPromise!vars
    BY <2>6 DEF redisVars, RedisPromise!vars
  <2>7. ASSUME NEW r \in Requests, LosePipeline(r)
        PROVE  UNCHANGED RedisPromise!vars
    BY <2>7 DEF LosePipeline, RedisPromise!vars
  <2> QED
    BY <2>1, <2>2, <2>3, <2>4, <2>5, <2>6, <2>7 DEF RedisNext, RedisPromise!Next
<1> QED
  BY <1>1, <1>2, RedisInvariance, PTL DEF RedisSpec, RedisImplementsRateLimit, RedisPromise!Spec

=============================================================================
