---------------------------- MODULE RateLimiter ----------------------------
(***************************************************************************)
(* http.RateLimiter: an asyncio.Semaphore bounds how many requests run, an *)
(* asyncio.Lock lets one of them at a time through the gate, and the gate  *)
(* waits for the later of two deadlines, the earliest next start and the   *)
(* end of a pause.  A pause may be asked for at any moment, also while the *)
(* coroutine at the gate sleeps, so it looks again each time it wakes.     *)
(*                                                                         *)
(* Every await of __aenter__ is a step of its own.  A coroutine may be     *)
(* cancelled at each of them.  Both asyncio primitives serve their waiters *)
(* first come, first served; they are library code, modelled from how      *)
(* __aenter__ and __aexit__ use them.                                      *)
(*                                                                         *)
(* A deadline of time.monotonic() is kept as the ticks left until it: 0    *)
(* stands for every deadline that has passed (paused_for is exactly this). *)
(***************************************************************************)
EXTENDS Naturals, Sequences, FiniteSets

CONSTANTS
  Requests,     \* the coroutines that use the limiter
  Concurrency,  \* RateLimit.concurrency, at least 1 after max(1, .)
  MinInterval,  \* RateLimit.min_interval in ticks
  MaxPause      \* bound: the longest pause asked for, in ticks

ASSUME RequestsAssumption == IsFiniteSet(Requests)
ASSUME LimitAssumption ==
  /\ Concurrency \in Nat \ {0}
  /\ MinInterval \in Nat
  /\ MaxPause \in Nat

VARIABLES
  pc,         \* where each coroutine is
  permits,    \* the semaphore's value
  semQueue,   \* coroutines waiting for the semaphore, in order
  lockHolder, \* the coroutine that holds the lock, as a set of at most one
  lockQueue,  \* coroutines waiting for the lock, in order
  sleepLeft,  \* ticks left of the sleep of the coroutine at the gate
  nextStart,  \* ticks left until _next_start
  pausedFor,  \* ticks left until _paused_until
  sinceStart, \* history: ticks since the last start, counted up to MinInterval
  promised    \* history: ticks left of each pause that was asked for

timers == <<sleepLeft, nextStart, pausedFor, sinceStart, promised>>
vars == <<pc, permits, semQueue, lockHolder, lockQueue, timers>>

Locations == {"idle", "sem", "lock", "sleep", "run"}

\* The requests between __aenter__'s end and __aexit__.
Running == {r \in Requests : pc[r] = "run"}

\* The requests that hold a permit of the semaphore.
Holding == {r \in Requests : pc[r] \in {"lock", "sleep", "run"}}

Later(a, b) == IF a >= b THEN a ELSE b
Less(n) == IF n > 0 THEN n - 1 ELSE 0
Without(q, i) == SubSeq(q, 1, i - 1) \o SubSeq(q, i + 1, Len(q))

Init ==
  /\ pc = [r \in Requests |-> "idle"]
  /\ permits = Concurrency
  /\ semQueue = << >>
  /\ lockHolder = {}
  /\ lockQueue = << >>
  /\ sleepLeft = 0
  /\ nextStart = 0
  /\ pausedFor = 0
  /\ sinceStart = MinInterval
  /\ promised = {}

----------------------------------------------------------------------------
(* __aenter__ *)

Enter(r) ==
  /\ pc[r] = "idle"
  /\ pc' = [pc EXCEPT ![r] = "sem"]
  /\ semQueue' = Append(semQueue, r)
  /\ UNCHANGED <<permits, lockHolder, lockQueue, timers>>

\* await self._sem.acquire(), then the request to lock.
Acquire(r) ==
  /\ pc[r] = "sem"
  /\ permits > 0
  /\ semQueue # << >> /\ Head(semQueue) = r
  /\ permits' = permits - 1
  /\ semQueue' = Tail(semQueue)
  /\ pc' = [pc EXCEPT ![r] = "lock"]
  /\ lockQueue' = Append(lockQueue, r)
  /\ UNCHANGED <<lockHolder, timers>>

\* How long the coroutine at the gate has to wait.
Wait == Later(nextStart, pausedFor)

\* The end of the while loop: the request starts, and the lock is released.
PassGate(r) ==
  /\ Wait = 0
  /\ nextStart' = MinInterval
  /\ lockHolder' = {}
  /\ pc' = [pc EXCEPT ![r] = "run"]
  /\ sinceStart' = 0
  /\ UNCHANGED <<sleepLeft, pausedFor, promised>>

\* One more turn of the while loop: sleep for the time left, holding the lock.
SleepAtGate(r) ==
  /\ Wait > 0
  /\ sleepLeft' = Wait
  /\ lockHolder' = {r}
  /\ pc' = [pc EXCEPT ![r] = "sleep"]
  /\ UNCHANGED <<nextStart, pausedFor, sinceStart, promised>>

TakeLock(r) ==
  /\ pc[r] = "lock"
  /\ lockHolder = {}
  /\ lockQueue # << >> /\ Head(lockQueue) = r
  /\ lockQueue' = Tail(lockQueue)
  /\ PassGate(r) \/ SleepAtGate(r)
  /\ UNCHANGED <<permits, semQueue>>

\* Mistake: the gate waits once, without looking again when it wakes.
WakeWithoutLook(r) ==
  /\ pc[r] = "sleep"
  /\ sleepLeft = 0
  /\ nextStart' = MinInterval
  /\ lockHolder' = {}
  /\ pc' = [pc EXCEPT ![r] = "run"]
  /\ sinceStart' = 0
  /\ UNCHANGED <<sleepLeft, pausedFor, promised, permits, semQueue, lockQueue>>

Wake(r) ==
  /\ pc[r] = "sleep"
  /\ sleepLeft = 0
  /\ PassGate(r) \/ SleepAtGate(r)
  /\ UNCHANGED <<permits, semQueue, lockQueue>>

----------------------------------------------------------------------------
(* __aexit__, cancellation, pause, time *)

Exit(r) ==
  /\ pc[r] = "run"
  /\ pc' = [pc EXCEPT ![r] = "idle"]
  /\ permits' = permits + 1
  /\ UNCHANGED <<semQueue, lockHolder, lockQueue, timers>>

\* Mistake: a try block around acquire() gives back a permit that was not taken.
CancelReleasesAnyway(r) ==
  /\ pc[r] = "sem"
  /\ \E i \in 1..Len(semQueue) :
       /\ semQueue[i] = r
       /\ semQueue' = Without(semQueue, i)
  /\ pc' = [pc EXCEPT ![r] = "idle"]
  /\ permits' = permits + 1
  /\ UNCHANGED <<lockHolder, lockQueue, timers>>

\* Cancelled in acquire(): no permit was taken, none is given back.
CancelAtSemaphore(r) ==
  /\ pc[r] = "sem"
  /\ \E i \in 1..Len(semQueue) :
       /\ semQueue[i] = r
       /\ semQueue' = Without(semQueue, i)
  /\ pc' = [pc EXCEPT ![r] = "idle"]
  /\ UNCHANGED <<permits, lockHolder, lockQueue, timers>>

\* except BaseException: release().
CancelAtLock(r) ==
  /\ pc[r] = "lock"
  /\ \E i \in 1..Len(lockQueue) :
       /\ lockQueue[i] = r
       /\ lockQueue' = Without(lockQueue, i)
  /\ pc' = [pc EXCEPT ![r] = "idle"]
  /\ permits' = permits + 1
  /\ UNCHANGED <<semQueue, lockHolder, timers>>

\* Mistake: no except clause, so the permit is lost.
CancelKeepingPermit(r) ==
  /\ pc[r] = "sleep"
  /\ lockHolder' = {}
  /\ pc' = [pc EXCEPT ![r] = "idle"]
  /\ UNCHANGED <<permits, semQueue, lockQueue, timers>>

\* async with self._lock releases the lock, the except clause the permit.
CancelAsleep(r) ==
  /\ pc[r] = "sleep"
  /\ lockHolder' = {}
  /\ pc' = [pc EXCEPT ![r] = "idle"]
  /\ permits' = permits + 1
  /\ UNCHANGED <<semQueue, lockQueue, timers>>

Cancel(r) == CancelAtSemaphore(r) \/ CancelAtLock(r) \/ CancelAsleep(r)

Pause(s) ==
  /\ pausedFor' = Later(pausedFor, s)
  /\ promised' = promised \cup {s}
  /\ UNCHANGED <<pc, permits, semQueue, lockHolder, lockQueue, sleepLeft, nextStart, sinceStart>>

Tick ==
  /\ sleepLeft' = Less(sleepLeft)
  /\ nextStart' = Less(nextStart)
  /\ pausedFor' = Less(pausedFor)
  /\ sinceStart' = IF sinceStart < MinInterval THEN sinceStart + 1 ELSE sinceStart
  /\ promised' = {p \in 1..MaxPause : p + 1 \in promised}
  /\ UNCHANGED <<pc, permits, semQueue, lockHolder, lockQueue>>

Next ==
  \/ \E r \in Requests :
       Enter(r) \/ Acquire(r) \/ TakeLock(r) \/ Wake(r) \/ Exit(r) \/ Cancel(r)
  \/ \E s \in 1..MaxPause : Pause(s)
  \/ Tick

\* The event loop runs whatever can run, time passes, and requests end (aiohttp
\* has a timeout).  Nobody has to enter, to be cancelled or to ask for a pause.
Fairness ==
  /\ WF_vars(Tick)
  /\ \A r \in Requests :
       WF_vars(Acquire(r)) /\ WF_vars(TakeLock(r)) /\ WF_vars(Wake(r)) /\ WF_vars(Exit(r))

Spec == Init /\ [][Next]_vars
FairSpec == Spec /\ Fairness

----------------------------------------------------------------------------
(* Properties *)

\* Every variable keeps to its values: no deadline is farther away than the longest
\* wait that __aenter__ and pause can set.
TypeOK ==
  /\ pc \in [Requests -> Locations]
  /\ permits \in 0..Concurrency
  /\ semQueue \in Seq(Requests)
  /\ lockHolder \subseteq Requests
  /\ lockQueue \in Seq(Requests)
  /\ sleepLeft \in 0..(MinInterval + MaxPause)
  /\ nextStart \in 0..MinInterval
  /\ pausedFor \in 0..MaxPause
  /\ sinceStart \in 0..MinInterval
  /\ promised \subseteq 1..MaxPause

\* No interleaving of entries, exits and cancellations loses a permit or makes
\* one: each is free or held by one request that will give it back.
PermitsAccounted == permits + Cardinality(Holding) = Concurrency

\* The lock is held exactly while some coroutine sleeps at the gate, and then by
\* one of them only: a cancelled sleeper does not leave the gate shut.
GateHeldBySleeper ==
  /\ lockHolder = {r \in Requests : pc[r] = "sleep"}
  /\ \A r, s \in Requests : pc[r] = "sleep" /\ pc[s] = "sleep" => r = s

\* The limiter keeps its promise: every step of it is a step of Pacing or leaves
\* Pacing's state alone.  No start exceeds the concurrency, comes too soon after
\* the one before, or falls into any pause asked for, however late it was asked.
Pacer == INSTANCE Pacing WITH running <- Running
Paced == Pacer!Spec

\* Once pauses stop, every coroutine that enters gets its turn, unless cancelled:
\* no wakeup is lost between the semaphore, the lock and the sleep.
Served ==
  <>[](pausedFor = 0) => \A r \in Requests : (pc[r] = "sem") ~> (pc[r] \in {"run", "idle"})
=============================================================================
