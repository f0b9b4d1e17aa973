------------------------------- MODULE Pacing -------------------------------
(***************************************************************************)
(* What a rate limiter promises to whoever issues requests through it, and *)
(* nothing of how it keeps the promise: no more than Concurrency requests  *)
(* run at once, two starts are at least MinInterval apart, and no request  *)
(* starts before every pause asked for so far is over.  RateLimiter is     *)
(* shown to implement this module.                                         *)
(*                                                                         *)
(* Time passes in ticks.  A deadline is kept as the ticks left until it,   *)
(* so the state stays finite although time does not end.                   *)
(***************************************************************************)
EXTENDS Naturals, FiniteSets

CONSTANTS
  Requests,     \* the coroutines that enter the limiter
  Concurrency,  \* RateLimit.concurrency
  MinInterval,  \* RateLimit.min_interval, in ticks
  MaxPause      \* the longest pause anyone asks for, in ticks

VARIABLES
  running,      \* the requests between their start and their end
  sinceStart,   \* ticks since the last start, counted up to MinInterval
  promised      \* ticks left of every pause asked for and not yet over

vars == <<running, sinceStart, promised>>

Init ==
  /\ running = {}
  /\ sinceStart = MinInterval
  /\ promised = {}

Begin(r) ==
  /\ r \notin running
  /\ Cardinality(running) < Concurrency
  /\ sinceStart = MinInterval
  /\ promised = {}
  /\ running' = running \cup {r}
  /\ sinceStart' = 0
  /\ UNCHANGED promised

Finish(r) ==
  /\ r \in running
  /\ running' = running \ {r}
  /\ UNCHANGED <<sinceStart, promised>>

AskPause(s) ==
  /\ promised' = promised \cup {s}
  /\ UNCHANGED <<running, sinceStart>>

Elapse ==
  /\ sinceStart' = IF sinceStart < MinInterval THEN sinceStart + 1 ELSE sinceStart
  /\ promised' = {p \in 1..MaxPause : p + 1 \in promised}
  /\ UNCHANGED running

Next ==
  \/ \E r \in Requests : Begin(r) \/ Finish(r)
  \/ \E s \in 1..MaxPause : AskPause(s)
  \/ Elapse

Spec == Init /\ [][Next]_vars
=============================================================================
