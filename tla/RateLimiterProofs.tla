------------------------- MODULE RateLimiterProofs -------------------------
(***************************************************************************)
(* Theorems about RateLimiter, for any set of coroutines, any concurrency, *)
(* any spacing and any pauses.                                             *)
(***************************************************************************)
EXTENDS RateLimiter, FiniteSetTheorems, SequenceTheorems, TLAPS

\* TypeOK without the upper bound on permits, which is no matter of types: it
\* follows from PermitsAccounted.
Types ==
  /\ pc \in [Requests -> Locations]
  /\ permits \in Nat
  /\ semQueue \in Seq(Requests)
  /\ lockHolder \subseteq Requests
  /\ lockQueue \in Seq(Requests)
  /\ sleepLeft \in 0..(MinInterval + MaxPause)
  /\ nextStart \in 0..MinInterval
  /\ pausedFor \in 0..MaxPause
  /\ sinceStart \in 0..MinInterval
  /\ promised \subseteq 1..MaxPause

\* Taking an element out of a queue leaves a queue of the same coroutines.
LEMMA WithoutType ==
  ASSUME NEW S, NEW q \in Seq(S), NEW i \in 1..Len(q)
  PROVE  Without(q, i) \in Seq(S)
  <1>1. SubSeq(q, 1, i - 1) \in Seq(S)
    BY SubSeqProperties
  <1>2. SubSeq(q, i + 1, Len(q)) \in Seq(S)
    BY SubSeqProperties
  <1>3. QED
    BY <1>1, <1>2, ConcatProperties DEF Without

\* The countdowns and the later of two deadlines stay within their bounds.
LEMMA TimerBounds ==
  ASSUME NEW m \in Nat, NEW n \in Nat, NEW a \in 0..m, NEW b \in 0..n
  PROVE  /\ Less(a) \in 0..m
         /\ Later(a, b) \in 0..(m + n)
  BY DEF Less, Later

\* Passing the gate, or going to sleep at it, keeps the types.
LEMMA GateTypes ==
  ASSUME Types, NEW r \in Requests, PassGate(r) \/ SleepAtGate(r)
  PROVE  /\ pc' \in [Requests -> Locations]
         /\ lockHolder' \subseteq Requests
         /\ sleepLeft' \in 0..(MinInterval + MaxPause)
         /\ nextStart' \in 0..MinInterval
         /\ pausedFor' \in 0..MaxPause
         /\ sinceStart' \in 0..MinInterval
         /\ promised' \subseteq 1..MaxPause
  <1>1. CASE PassGate(r)
    <2>1. "run" \in Locations
      BY DEF Locations
    <2>2. pc' \in [Requests -> Locations]
      BY <1>1, <2>1 DEF PassGate, Types
    <2>3. QED
      BY <1>1, <2>2, LimitAssumption DEF PassGate, Types
  <1>2. CASE SleepAtGate(r)
    <2>1. "sleep" \in Locations
      BY DEF Locations
    <2>2. pc' \in [Requests -> Locations]
      BY <1>2, <2>1 DEF SleepAtGate, Types
    <2>3. sleepLeft' \in 0..(MinInterval + MaxPause)
      BY <1>2, LimitAssumption, TimerBounds DEF SleepAtGate, Wait, Types
    <2>4. QED
      BY <1>2, <2>2, <2>3 DEF SleepAtGate, Types
  <1>3. QED
    BY <1>1, <1>2

LEMMA Typing == Spec => []Types
  <1>1. Init => Types
    BY LimitAssumption DEF Init, Types, Locations
  <1>2. Types /\ [Next]_vars => Types'
    <2> SUFFICES ASSUME Types, [Next]_vars PROVE Types'
      OBVIOUS
    <2>1. ASSUME NEW r \in Requests, Enter(r) PROVE Types'
      BY <2>1 DEF Enter, Types, Locations, timers
    <2>2. ASSUME NEW r \in Requests, Acquire(r) PROVE Types'
      BY <2>2 DEF Acquire, Types, Locations, timers
    <2>3. ASSUME NEW r \in Requests, TakeLock(r) PROVE Types'
      <3>1. lockQueue' \in Seq(Requests) /\ permits' \in Nat /\ semQueue' \in Seq(Requests)
        BY <2>3 DEF TakeLock, Types
      <3>2. QED
        BY <2>3, <3>1, GateTypes DEF TakeLock, Types
    <2>4. ASSUME NEW r \in Requests, Wake(r) PROVE Types'
      BY <2>4, GateTypes DEF Wake, Types
    <2>5. ASSUME NEW r \in Requests, Exit(r) PROVE Types'
      BY <2>5 DEF Exit, Types, Locations, timers
    <2>6. ASSUME NEW r \in Requests, CancelAtSemaphore(r) PROVE Types'
      BY <2>6, WithoutType DEF CancelAtSemaphore, Types, Locations, timers
    <2>7. ASSUME NEW r \in Requests, CancelAtLock(r) PROVE Types'
      BY <2>7, WithoutType DEF CancelAtLock, Types, Locations, timers
    <2>8. ASSUME NEW r \in Requests, CancelAsleep(r) PROVE Types'
      BY <2>8 DEF CancelAsleep, Types, Locations, timers
    <2>9. ASSUME NEW s \in 1..MaxPause, Pause(s) PROVE Types'
      BY <2>9, LimitAssumption DEF Pause, Later, Types
    <2>10. CASE Tick
      BY <2>10, LimitAssumption DEF Tick, Less, Types
    <2>11. CASE UNCHANGED vars
      BY <2>11 DEF vars, timers, Types
    <2>12. QED
      BY <2>1, <2>2, <2>3, <2>4, <2>5, <2>6, <2>7, <2>8, <2>9, <2>10, <2>11
      DEF Next, Cancel
  <1>3. QED
    BY <1>1, <1>2, PTL DEF Spec

----------------------------------------------------------------------------
(* Permits *)

\* Any set of coroutines picked from Requests is finite and can be counted.
LEMMA Countable ==
  ASSUME NEW S, S \subseteq Requests
  PROVE  IsFiniteSet(S) /\ Cardinality(S) \in Nat
  BY RequestsAssumption, FS_Subset, FS_CardinalityType

\* One coroutine more or fewer in such a set counts as one more or fewer.
LEMMA CountOne ==
  ASSUME NEW S, S \subseteq Requests, NEW r
  PROVE  /\ r \notin S => Cardinality(S \cup {r}) = Cardinality(S) + 1
         /\ r \in S => Cardinality(S \ {r}) = Cardinality(S) - 1
  BY Countable, FS_AddElement, FS_RemoveElement

\* The semaphore's permits are neither lost nor made, by any interleaving of
\* entries, exits and cancellations at each await of __aenter__.
THEOREM PermitsNeverLost == Spec => []PermitsAccounted
  <1>1. Init => PermitsAccounted
    <2> SUFFICES ASSUME Init PROVE PermitsAccounted
      OBVIOUS
    <2>1. Holding = {}
      BY DEF Init, Holding
    <2>2. QED
      BY <2>1, FS_EmptySet, LimitAssumption DEF Init, PermitsAccounted
  <1>2. Types /\ PermitsAccounted /\ [Next]_vars => PermitsAccounted'
    <2> SUFFICES ASSUME Types, PermitsAccounted, [Next]_vars PROVE PermitsAccounted'
      OBVIOUS
    <2>0. /\ Holding \subseteq Requests
          /\ Cardinality(Holding) \in Nat
      <3>1. Holding \subseteq Requests
        BY DEF Holding
      <3>2. QED
        BY <3>1, Countable
    <2> USE LimitAssumption DEF PermitsAccounted
    <2>a. ASSUME permits' = permits, Holding' = Holding PROVE PermitsAccounted'
      BY <2>a
    <2>b. ASSUME NEW r \in Requests, r \in Holding, permits' = permits + 1,
                 Holding' = Holding \ {r}
          PROVE  PermitsAccounted'
      <3>1. Cardinality(Holding') = Cardinality(Holding) - 1
        BY <2>b, <2>0, CountOne
      <3>2. QED
        BY <2>b, <2>0, <3>1 DEF Types
    <2>1. ASSUME NEW r \in Requests, Enter(r) PROVE PermitsAccounted'
      BY <2>1, <2>a DEF Enter, Types, Holding
    <2>2. ASSUME NEW r \in Requests, Acquire(r) PROVE PermitsAccounted'
      <3>1. Holding' = Holding \cup {r} /\ r \notin Holding
        BY <2>2 DEF Acquire, Types, Holding
      <3>2. Cardinality(Holding') = Cardinality(Holding) + 1
        BY <3>1, <2>0, CountOne
      <3>3. QED
        BY <2>2, <3>2, <2>0 DEF Acquire, Types
    <2>3. ASSUME NEW r \in Requests, TakeLock(r) PROVE PermitsAccounted'
      BY <2>3, <2>a DEF TakeLock, PassGate, SleepAtGate, Types, Holding
    <2>4. ASSUME NEW r \in Requests, Wake(r) PROVE PermitsAccounted'
      BY <2>4, <2>a DEF Wake, PassGate, SleepAtGate, Types, Holding
    <2>5. ASSUME NEW r \in Requests, Exit(r) PROVE PermitsAccounted'
      BY <2>5, <2>b DEF Exit, Types, Holding
    <2>6. ASSUME NEW r \in Requests, CancelAtSemaphore(r) PROVE PermitsAccounted'
      BY <2>6, <2>a DEF CancelAtSemaphore, Types, Holding
    <2>7. ASSUME NEW r \in Requests, CancelAtLock(r) PROVE PermitsAccounted'
      BY <2>7, <2>b DEF CancelAtLock, Types, Holding
    <2>8. ASSUME NEW r \in Requests, CancelAsleep(r) PROVE PermitsAccounted'
      BY <2>8, <2>b DEF CancelAsleep, Types, Holding
    <2>9. ASSUME NEW s \in 1..MaxPause, Pause(s) PROVE PermitsAccounted'
      BY <2>9, <2>a DEF Pause, Holding
    <2>10. CASE Tick
      BY <2>10, <2>a DEF Tick, Holding
    <2>11. CASE UNCHANGED vars
      BY <2>11, <2>a DEF vars, Holding
    <2>12. QED
      BY <2>1, <2>2, <2>3, <2>4, <2>5, <2>6, <2>7, <2>8, <2>9, <2>10, <2>11
      DEF Next, Cancel
  <1>3. QED
    BY <1>1, <1>2, Typing, PTL DEF Spec

\* The type invariant, now with the semaphore never above its initial value.
THEOREM TypeCorrect == Spec => []TypeOK
  <1>1. Types /\ PermitsAccounted => TypeOK
    <2> SUFFICES ASSUME Types, PermitsAccounted PROVE TypeOK
      OBVIOUS
    <2>1. Cardinality(Holding) \in Nat
      <3>1. Holding \subseteq Requests
        BY DEF Holding
      <3>2. QED
        BY <3>1, Countable
    <2>2. permits \in 0..Concurrency
      BY <2>1, LimitAssumption DEF Types, PermitsAccounted
    <2>3. QED
      BY <2>2 DEF Types, TypeOK
  <1>2. QED
    BY <1>1, Typing, PermitsNeverLost, PTL

----------------------------------------------------------------------------
(* The gate *)

\* The lock is held by the one coroutine asleep at the gate, and by nobody once
\* that coroutine has started or was cancelled.
THEOREM GateNeverStuck == Spec => []GateHeldBySleeper
  <1>1. Init => GateHeldBySleeper
    BY DEF Init, GateHeldBySleeper
  <1>2. Types /\ GateHeldBySleeper /\ [Next]_vars => GateHeldBySleeper'
    <2> SUFFICES ASSUME Types, GateHeldBySleeper, [Next]_vars PROVE GateHeldBySleeper'
      OBVIOUS
    <2> USE DEF GateHeldBySleeper, Types
    <2>1. ASSUME NEW r \in Requests, Enter(r) PROVE GateHeldBySleeper'
      BY <2>1 DEF Enter
    <2>2. ASSUME NEW r \in Requests, Acquire(r) PROVE GateHeldBySleeper'
      BY <2>2 DEF Acquire
    <2>3. ASSUME NEW r \in Requests, TakeLock(r) PROVE GateHeldBySleeper'
      BY <2>3 DEF TakeLock, PassGate, SleepAtGate
    <2>4. ASSUME NEW r \in Requests, Wake(r) PROVE GateHeldBySleeper'
      BY <2>4 DEF Wake, PassGate, SleepAtGate
    <2>5. ASSUME NEW r \in Requests, Exit(r) PROVE GateHeldBySleeper'
      BY <2>5 DEF Exit
    <2>6. ASSUME NEW r \in Requests, CancelAtSemaphore(r) PROVE GateHeldBySleeper'
      BY <2>6 DEF CancelAtSemaphore
    <2>7. ASSUME NEW r \in Requests, CancelAtLock(r) PROVE GateHeldBySleeper'
      BY <2>7 DEF CancelAtLock
    <2>8. ASSUME NEW r \in Requests, CancelAsleep(r) PROVE GateHeldBySleeper'
      BY <2>8 DEF CancelAsleep
    <2>9. ASSUME NEW s \in 1..MaxPause, Pause(s) PROVE GateHeldBySleeper'
      BY <2>9 DEF Pause
    <2>10. CASE Tick
      BY <2>10 DEF Tick
    <2>11. CASE UNCHANGED vars
      BY <2>11 DEF vars
    <2>12. QED
      BY <2>1, <2>2, <2>3, <2>4, <2>5, <2>6, <2>7, <2>8, <2>9, <2>10, <2>11
      DEF Next, Cancel
  <1>3. QED
    BY <1>1, <1>2, Typing, PTL DEF Spec

----------------------------------------------------------------------------
(* The promise *)

\* Why a passed gate keeps the promise: the limiter's deadlines bound what was
\* promised.  The time to the next start is at least what is missing of the
\* spacing, and the pause still lasts at least as long as any that was asked for.
DeadlinesBound ==
  /\ nextStart + sinceStart >= MinInterval
  /\ \A p \in promised : p <= pausedFor

LEMMA DeadlinesBoundAlways == Spec => []DeadlinesBound
  <1>1. Init => DeadlinesBound
    BY LimitAssumption DEF Init, DeadlinesBound
  <1>2. Types /\ DeadlinesBound /\ [Next]_vars => DeadlinesBound'
    <2> SUFFICES ASSUME Types, DeadlinesBound, [Next]_vars PROVE DeadlinesBound'
      OBVIOUS
    <2> USE LimitAssumption DEF Types, DeadlinesBound
    <2>0. ASSUME UNCHANGED <<nextStart, pausedFor, sinceStart, promised>> PROVE DeadlinesBound'
      BY <2>0
    <2>g. ASSUME NEW r \in Requests, PassGate(r) \/ SleepAtGate(r) PROVE DeadlinesBound'
      <3>1. CASE PassGate(r)
        BY <3>1 DEF PassGate
      <3>2. CASE SleepAtGate(r)
        BY <3>2, <2>0 DEF SleepAtGate
      <3>3. QED
        BY <2>g, <3>1, <3>2
    <2>1. ASSUME NEW r \in Requests, Enter(r) \/ Acquire(r) \/ Exit(r) \/ Cancel(r)
          PROVE  DeadlinesBound'
      BY <2>1, <2>0 DEF Enter, Acquire, Exit, Cancel, CancelAtSemaphore, CancelAtLock,
         CancelAsleep, timers
    <2>2. ASSUME NEW r \in Requests, TakeLock(r) \/ Wake(r) PROVE DeadlinesBound'
      BY <2>2, <2>g DEF TakeLock, Wake
    <2>3. ASSUME NEW s \in 1..MaxPause, Pause(s) PROVE DeadlinesBound'
      BY <2>3 DEF Pause, Later
    <2>4. CASE Tick
      BY <2>4 DEF Tick, Less
    <2>5. CASE UNCHANGED vars
      BY <2>5, <2>0 DEF vars, timers
    <2>6. QED
      BY <2>1, <2>2, <2>3, <2>4, <2>5 DEF Next
  <1>3. QED
    BY <1>1, <1>2, Typing, PTL DEF Spec

\* A request that passes the gate begins, as Pacing allows it to.
LEMMA GateBegins ==
  ASSUME Types, PermitsAccounted, DeadlinesBound,
         NEW r \in Requests, pc[r] \in {"lock", "sleep"}, PassGate(r)
  PROVE  Pacer!Begin(r)
  <1>1. /\ r \notin Running
        /\ Running' = Running \cup {r}
    BY DEF PassGate, Running, Types
  <1>2. Cardinality(Running) < Concurrency
    <2>1. Running \cup {r} \subseteq Holding /\ Holding \subseteq Requests
      BY DEF Running, Holding
    <2>2. /\ IsFiniteSet(Holding) /\ Cardinality(Holding) \in Nat
          /\ Cardinality(Running) \in Nat
          /\ Cardinality(Running \cup {r}) = Cardinality(Running) + 1
      BY <2>1, <1>1, Countable, CountOne
    <2>3. Cardinality(Running \cup {r}) <= Cardinality(Holding)
      BY <2>1, <2>2, FS_Subset
    <2>4. Cardinality(Holding) <= Concurrency
      BY <2>2, LimitAssumption DEF Types, PermitsAccounted
    <2>5. QED
      BY <2>2, <2>3, <2>4, LimitAssumption
  <1>3. nextStart = 0 /\ pausedFor = 0
    BY DEF PassGate, Wait, Later, Types
  <1>4. sinceStart = MinInterval
    BY <1>3, LimitAssumption DEF Types, DeadlinesBound
  <1>5. promised = {}
    BY <1>3, LimitAssumption DEF Types, DeadlinesBound
  <1>6. sinceStart' = 0 /\ promised' = promised
    BY DEF PassGate
  <1>7. Pacer!Cardinality(Running) = Cardinality(Running)
    BY DEF Pacer!Cardinality, Cardinality
  <1>8. QED
    BY <1>1, <1>2, <1>4, <1>5, <1>6, <1>7 DEF Pacer!Begin

\* The limiter implements Pacing: it never runs more than Concurrency requests,
\* never starts two closer than MinInterval, and starts none inside a pause, even
\* one asked for while a request already slept at the gate.
THEOREM KeepsPace == Spec => Paced
  <1>1. Init => Pacer!Init
    BY DEF Init, Pacer!Init, Running
  <1>2. Types /\ PermitsAccounted /\ DeadlinesBound /\ [Next]_vars
          => [Pacer!Next]_(Pacer!vars)
    <2> SUFFICES ASSUME Types, PermitsAccounted, DeadlinesBound, [Next]_vars
                 PROVE  Pacer!Next \/ UNCHANGED Pacer!vars
      OBVIOUS
    <2> USE DEF Pacer!Next, Pacer!vars
    <2>a. ASSUME Running' = Running, UNCHANGED <<sinceStart, promised>>
          PROVE  UNCHANGED Pacer!vars
      BY <2>a
    <2>1. ASSUME NEW r \in Requests, Enter(r) PROVE UNCHANGED Pacer!vars
      BY <2>1, <2>a DEF Enter, Running, Types, timers
    <2>2. ASSUME NEW r \in Requests, Acquire(r) PROVE UNCHANGED Pacer!vars
      BY <2>2, <2>a DEF Acquire, Running, Types, timers
    <2>3. ASSUME NEW r \in Requests, TakeLock(r) PROVE Pacer!Begin(r) \/ UNCHANGED Pacer!vars
      <3>1. CASE PassGate(r)
        BY <2>3, <3>1, GateBegins DEF TakeLock
      <3>2. CASE SleepAtGate(r)
        BY <2>3, <3>2, <2>a DEF TakeLock, SleepAtGate, Running, Types
      <3>3. QED
        BY <2>3, <3>1, <3>2 DEF TakeLock
    <2>4. ASSUME NEW r \in Requests, Wake(r) PROVE Pacer!Begin(r) \/ UNCHANGED Pacer!vars
      <3>1. CASE PassGate(r)
        BY <2>4, <3>1, GateBegins DEF Wake
      <3>2. CASE SleepAtGate(r)
        BY <2>4, <3>2, <2>a DEF Wake, SleepAtGate, Running, Types
      <3>3. QED
        BY <2>4, <3>1, <3>2 DEF Wake
    <2>5. ASSUME NEW r \in Requests, Exit(r) PROVE Pacer!Finish(r)
      BY <2>5 DEF Exit, Pacer!Finish, Running, Types, timers
    <2>6. ASSUME NEW r \in Requests, Cancel(r) PROVE UNCHANGED Pacer!vars
      BY <2>6, <2>a DEF Cancel, CancelAtSemaphore, CancelAtLock, CancelAsleep, Running,
         Types, timers
    <2>7. ASSUME NEW s \in 1..MaxPause, Pause(s) PROVE Pacer!AskPause(s)
      BY <2>7 DEF Pause, Pacer!AskPause, Running
    <2>8. CASE Tick
      BY <2>8 DEF Tick, Pacer!Elapse, Running
    <2>9. CASE UNCHANGED vars
      BY <2>9, <2>a DEF vars, timers, Running
    <2>10. QED
      BY <2>1, <2>2, <2>3, <2>4, <2>5, <2>6, <2>7, <2>8, <2>9 DEF Next
  <1>3. QED
    BY <1>1, <1>2, Typing, PermitsNeverLost, DeadlinesBoundAlways, PTL
    DEF Spec, Paced, Pacer!Spec
=============================================================================
