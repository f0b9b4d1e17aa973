----------------------------- MODULE SubmitMany -----------------------------
(***************************************************************************)
(* bulk.submit_many: the workers of bulk.run_bulk take a call's URLs in    *)
(* order, look for a recent submission, and otherwise submit through the   *)
(* limiter with the bounded retries of http.Transport; a rate-limit answer *)
(* pauses the limiter and is retried, a quota answer stops the call.       *)
(* Calls overlap over one client: they share its limiter and its cache.    *)
(* The process may crash, and a later call then finds what the cache holds.*)
(* A call of the database may fail, which is the result of the item it is  *)
(* for, or, of a final save, of submit_many.                               *)
(*                                                                         *)
(* Of the limiter only what Pacing promises is used: a POST starts outside *)
(* every pause, with at most Concurrency POSTs in flight.                  *)
(***************************************************************************)
EXTENDS Naturals, Sequences, FiniteSets

CONSTANTS
  Calls,        \* calls of submit_many
  Urls,         \* URLs
  Inputs,       \* what the calls may be given: URLs in input order, after dedupe
  ReuseRecent,  \* the calls with reuse_recent
  Concurrency,  \* effective_spn_limit.concurrency
  Retries,      \* spn_rate_limit_retries
  MaxAttempts,  \* RetryPolicy.max_attempts
  MaxLost,      \* bound: answers of the Archive lost on the way
  MaxCrashes,   \* bound: crashes of the process
  MaxFailures   \* bound: calls of the database that fail

ASSUME InputsAssumption ==
  /\ IsFiniteSet(Calls) /\ ReuseRecent \subseteq Calls
  /\ Inputs \subseteq [Calls -> Seq(Urls)]
  /\ \A input \in Inputs, c \in Calls : \A m, n \in 1..Len(input[c]) :
       input[c][m] = input[c][n] => m = n
ASSUME LimitsAssumption ==
  /\ Concurrency \in Nat \ {0}
  /\ Retries \in Nat
  /\ MaxAttempts \in Nat \ {0}
  /\ MaxLost \in Nat /\ MaxCrashes \in Nat /\ MaxFailures \in Nat

\* One URL of one call is an item of run_bulk.
Items == Calls \X Urls

\* The Archive numbers the jobs it makes of an item.
NoJob == << >>
Jobs == Items \X (Nat \ {0})

VARIABLES
  input,     \* the URLs of each call
  phase,     \* where each call is
  next,      \* position in the input of the worker loop, then of the final saves
  quota,     \* calls whose quota dict is set
  pc,        \* where each item is
  attempt,   \* rate-limited attempts of the item so far
  tries,     \* transport attempts of this submission
  sub,       \* the item's submission: what it is about to save or has returned
  paused,    \* whether the limiter is paused
  rows,      \* the submissions table
  accepted,  \* the Archive: jobs it made
  lost,      \* history: jobs whose answer never arrived
  unsaved,   \* history: jobs whose answer arrived, and whose save failed or was cut off
  late,      \* history: POSTs each call started after its quota was set
  crashes,
  failures   \* calls of the database that failed

calls == <<input, phase, next, quota>>
items == <<pc, attempt, tries, sub>>
archive == <<accepted, lost, unsaved>>
vars == <<calls, items, paused, rows, archive, late, crashes, failures>>

\* A submission, without its URL.  "reused" is one that recent_submission found.
Sub(code, job) == [code |-> code, job |-> job]
NotAccepted == {"rate", "quota", "refused", "network", "skipped"}

\* The row _upsert_submission writes of it.
Row(i, s) == [url |-> i[2], code |-> IF s.code = "reused" THEN "pending" ELSE s.code,
              job |-> s.job]

ItemOf(j) == j[1]
ItemAt(c, n) == <<c, input[c][n]>>
Mine(c) == {ItemAt(c, n) : n \in 1..Len(input[c])}
Active(c) == {i \in Items : i[1] = c /\ pc[i] \notin {"todo", "done"}}

Init ==
  /\ input \in Inputs
  /\ phase = [c \in Calls |-> "idle"]
  /\ next = [c \in Calls |-> 1]
  /\ quota = {}
  /\ pc = [i \in Items |-> "todo"]
  /\ attempt = [i \in Items |-> 0]
  /\ tries = [i \in Items |-> 1]
  /\ sub = [i \in Items |-> Sub("none", NoJob)]
  /\ paused = FALSE
  /\ rows = {}
  /\ accepted = {}
  /\ lost = {}
  /\ unsaved = {}
  /\ late = [c \in Calls |-> 0]
  /\ crashes = 0
  /\ failures = 0

----------------------------------------------------------------------------
(* The call and its workers *)

Call(c) ==
  /\ phase[c] = "idle"
  /\ phase' = [phase EXCEPT ![c] = "running"]
  /\ UNCHANGED <<input, next, quota, items, paused, rows, archive, late, crashes, failures>>

\* run_bulk: a worker that is free takes the next index.
TakeItem(c) ==
  /\ phase[c] = "running"
  /\ next[c] <= Len(input[c])
  /\ Cardinality(Active(c)) < Concurrency
  /\ pc' = [pc EXCEPT ![ItemAt(c, next[c])] = "check"]
  /\ next' = [next EXCEPT ![c] = @ + 1]
  /\ UNCHANGED <<input, phase, quota, attempt, tries, sub, paused, rows, archive, late, crashes, failures>>

\* gather() is over; the results without a row of their own are saved next.
Gathered(c) ==
  /\ phase[c] = "running"
  /\ next[c] > Len(input[c])
  /\ \A i \in Mine(c) : pc[i] = "done"
  /\ phase' = [phase EXCEPT ![c] = "saving"]
  /\ next' = [next EXCEPT ![c] = 1]
  /\ UNCHANGED <<input, quota, items, paused, rows, archive, late, crashes, failures>>

\* Mistake: only the network errors are saved at the end.
UnsavedNetworkOnly == {"network"}

\* The codes of results that client.submit did not save.
Unsaved == {"network", "skipped"}

\* One turn of the loop over the failed results.
SaveNextFailed(c) ==
  /\ phase[c] = "saving"
  /\ next[c] <= Len(input[c])
  /\ LET i == ItemAt(c, next[c]) IN
       rows' = IF sub[i].code \in Unsaved THEN rows \cup {Row(i, sub[i])} ELSE rows
  /\ next' = [next EXCEPT ![c] = @ + 1]
  /\ UNCHANGED <<input, phase, quota, items, paused, archive, late, crashes, failures>>

\* A final save raises, and so does submit_many: the caller gets no result at all.
FinalSaveFails(c) ==
  /\ phase[c] = "saving"
  /\ next[c] <= Len(input[c])
  /\ sub[ItemAt(c, next[c])].code \in Unsaved
  /\ failures < MaxFailures
  /\ failures' = failures + 1
  /\ phase' = [phase EXCEPT ![c] = "raised"]
  /\ UNCHANGED <<input, next, quota, items, paused, rows, archive, late, crashes>>

Return(c) ==
  /\ phase[c] = "saving"
  /\ next[c] > Len(input[c])
  /\ phase' = [phase EXCEPT ![c] = "returned"]
  /\ UNCHANGED <<input, next, quota, items, paused, rows, archive, late, crashes, failures>>

----------------------------------------------------------------------------
(* one(url) *)

\* The item has its result; the worker goes on to the next index.
Finish(i, s) ==
  /\ sub' = [sub EXCEPT ![i] = s]
  /\ pc' = [pc EXCEPT ![i] = "done"]

\* recent_submission: the rows of a URL's pending jobs (none of them ends here; one
\* that had succeeded would be found and reused alike).
Recent(u) == {r \in rows : r.url = u /\ r.code = "pending"}

CheckRecent(i) ==
  /\ pc[i] = "check"
  /\ \/ /\ i[1] \notin ReuseRecent \/ Recent(i[2]) = {}
        /\ pc' = [pc EXCEPT ![i] = "loop"]
        /\ UNCHANGED sub
     \/ /\ i[1] \in ReuseRecent
        /\ \E r \in Recent(i[2]) : Finish(i, Sub("reused", r.job))
  /\ UNCHANGED <<calls, attempt, tries, paused, rows, archive, late, crashes, failures>>

\* Mistake: the quota is looked at once, before the first attempt.
LoopChecksQuotaOnce(i) ==
  /\ pc[i] = "loop"
  /\ \/ i[1] \in quota /\ attempt[i] = 0 /\ Finish(i, Sub("skipped", NoJob)) /\ UNCHANGED tries
     \/ /\ i[1] \notin quota \/ attempt[i] > 0
        /\ pc' = [pc EXCEPT ![i] = "gate"]
        /\ tries' = [tries EXCEPT ![i] = 1]
        /\ UNCHANGED sub
  /\ UNCHANGED <<calls, attempt, paused, rows, archive, late, crashes, failures>>

\* The head of the attempt loop, up to the limiter.
LoopHead(i) ==
  /\ pc[i] = "loop"
  /\ \/ i[1] \in quota /\ Finish(i, Sub("skipped", NoJob)) /\ UNCHANGED tries
     \/ /\ i[1] \notin quota
        /\ pc' = [pc EXCEPT ![i] = "gate"]
        /\ tries' = [tries EXCEPT ![i] = 1]
        /\ UNCHANGED sub
  /\ UNCHANGED <<calls, attempt, paused, rows, archive, late, crashes, failures>>

\* The limiter lets the request through.
StartPost(i) ==
  /\ pc[i] = "gate"
  /\ ~paused
  /\ Cardinality({k \in Items : pc[k] = "post"}) < Concurrency
  /\ pc' = [pc EXCEPT ![i] = "post"]
  /\ late' = IF i[1] \in quota THEN [late EXCEPT ![i[1]] = @ + 1] ELSE late
  /\ UNCHANGED <<calls, attempt, tries, sub, paused, rows, archive, crashes, failures>>

\* The job the Archive makes of the POST, if it takes it.
NewJob(i) == <<i, Cardinality({j \in accepted : ItemOf(j) = i}) + 1>>

\* parse_submit_response made a submission of the answer, which client.submit saves.
Answer(i, s) ==
  /\ pc[i] = "post"
  /\ sub' = [sub EXCEPT ![i] = s]
  /\ pc' = [pc EXCEPT ![i] = "save"]
  /\ UNCHANGED <<calls, attempt, tries, paused, rows, late, crashes, failures>>

Accepted(i) ==
  /\ Answer(i, Sub("pending", NewJob(i)))
  /\ accepted' = accepted \cup {NewJob(i)}
  /\ UNCHANGED <<lost, unsaved>>

\* 429 or user-session-limit, a daily quota, or any other refusal.
Refused(i) ==
  /\ \E code \in {"rate", "quota", "refused"} : Answer(i, Sub(code, NoJob))
  /\ UNCHANGED archive

\* The attempt failed: try again, or give up with the last answer (a server error,
\* which is a refusal) or with TransportError, which run_bulk makes the item's result.
TryAgainOrGiveUp(i) ==
  /\ pc[i] = "post"
  /\ \/ /\ tries[i] < MaxAttempts
        /\ tries' = [tries EXCEPT ![i] = @ + 1]
        /\ pc' = [pc EXCEPT ![i] = "gate"]
        /\ UNCHANGED sub
     \/ /\ tries[i] = MaxAttempts
        /\ \/ Finish(i, Sub("network", NoJob))
           \/ /\ sub' = [sub EXCEPT ![i] = Sub("refused", NoJob)]
              /\ pc' = [pc EXCEPT ![i] = "save"]
        /\ UNCHANGED tries
  /\ UNCHANGED <<calls, attempt, paused, rows, late, crashes, failures>>

\* A connection that breaks, a timeout, a server error: before the Archive took the
\* request, or after, when only the answer is lost.
PostFails(i) ==
  /\ TryAgainOrGiveUp(i)
  /\ UNCHANGED archive

AnswerLost(i) ==
  /\ Cardinality(lost) < MaxLost
  /\ TryAgainOrGiveUp(i)
  /\ accepted' = accepted \cup {NewJob(i)}
  /\ lost' = lost \cup {NewJob(i)}
  /\ UNCHANGED unsaved

\* Mistake: refusals are saved, a pending job only once its end is known.
SaveFinalOnly(i) ==
  /\ pc[i] = "save"
  /\ rows' = IF sub[i].code = "pending" THEN rows ELSE rows \cup {Row(i, sub[i])}
  /\ pc' = [pc EXCEPT ![i] = "judge"]
  /\ UNCHANGED <<calls, attempt, tries, sub, paused, archive, late, crashes, failures>>

\* save_submission, before submit_many looks at the answer.
Save(i) ==
  /\ pc[i] = "save"
  /\ rows' = rows \cup {Row(i, sub[i])}
  /\ pc' = [pc EXCEPT ![i] = "judge"]
  /\ UNCHANGED <<calls, attempt, tries, sub, paused, archive, late, crashes, failures>>

\* The job that was answered and is in no row yet.
InHand(i) == IF pc[i] = "save" /\ sub[i].code = "pending" THEN {sub[i].job} ELSE {}

\* recent_submission or save_submission raises: run_bulk makes on_error's network-error
\* of it, whatever the Archive answered, and the answer pauses and stops nothing.
DatabaseFails(i) ==
  /\ pc[i] = "save" \/ (pc[i] = "check" /\ i[1] \in ReuseRecent)
  /\ failures < MaxFailures
  /\ failures' = failures + 1
  /\ unsaved' = unsaved \cup InHand(i)
  /\ Finish(i, Sub("network", NoJob))
  /\ UNCHANGED <<calls, attempt, tries, paused, rows, accepted, lost, late, crashes>>

\* Mistake: any answer without an end is asked for again.
RetriedPending == {"rate", "pending"}

\* RATE_LIMIT_ERRORS: answers after which the item may be submitted again.
Retried == {"rate"}

\* Mistake: one retry more than configured.
RetryLeftInclusive(i) == attempt[i] <= Retries

RetryLeft(i) == attempt[i] < Retries

\* Mistake: a retry is not counted.
SameAttempt(n) == n

NextAttempt(n) == n + 1

\* The rest of the loop body.
Judge(i) ==
  /\ pc[i] = "judge"
  /\ paused' = (paused \/ sub[i].code \in Retried)
  /\ quota' = IF sub[i].code = "quota" THEN quota \cup {i[1]} ELSE quota
  /\ IF sub[i].code \in Retried /\ RetryLeft(i)
       THEN /\ attempt' = [attempt EXCEPT ![i] = NextAttempt(@)]
            /\ pc' = [pc EXCEPT ![i] = "loop"]
       ELSE /\ pc' = [pc EXCEPT ![i] = "done"]
            /\ UNCHANGED attempt
  /\ UNCHANGED <<input, phase, next, tries, sub, rows, archive, late, crashes, failures>>

----------------------------------------------------------------------------

PauseOver ==
  /\ paused
  /\ paused' = FALSE
  /\ UNCHANGED <<calls, items, rows, archive, late, crashes, failures>>

Alive(c) == phase[c] \in {"running", "saving"}

\* The process ends, with every call in it and all they knew.
Crash ==
  /\ crashes < MaxCrashes
  /\ crashes' = crashes + 1
  /\ phase' = [c \in Calls |-> IF Alive(c) THEN "crashed" ELSE phase[c]]
  /\ pc' = [i \in Items |-> IF Alive(i[1]) THEN "done" ELSE pc[i]]
  /\ attempt' = [i \in Items |-> IF Alive(i[1]) THEN 0 ELSE attempt[i]]
  /\ tries' = [i \in Items |-> IF Alive(i[1]) THEN 1 ELSE tries[i]]
  /\ sub' = [i \in Items |-> IF Alive(i[1]) THEN Sub("none", NoJob) ELSE sub[i]]
  /\ quota' = {c \in quota : ~Alive(c)}
  /\ paused' = FALSE
  /\ unsaved' = unsaved \cup UNION {InHand(i) : i \in Items}
  /\ UNCHANGED <<input, next, rows, accepted, lost, late, failures>>

Over == \A c \in Calls : phase[c] \in {"returned", "raised", "crashed"}
Terminated == Over /\ ~paused /\ UNCHANGED vars

CallStep(c) ==
  TakeItem(c) \/ Gathered(c) \/ SaveNextFailed(c) \/ FinalSaveFails(c) \/ Return(c)

ItemStep(i) ==
  \/ CheckRecent(i) \/ LoopHead(i) \/ StartPost(i)
  \/ Accepted(i) \/ Refused(i) \/ PostFails(i) \/ AnswerLost(i)
  \/ Save(i) \/ DatabaseFails(i) \/ Judge(i)

Next ==
  \/ \E c \in Calls : Call(c) \/ CallStep(c)
  \/ \E i \in Items : ItemStep(i)
  \/ PauseOver
  \/ Crash
  \/ Terminated

Spec == Init /\ [][Next]_vars

\* The event loop runs what can run, requests end, and pauses are finite.  No item
\* has to be favoured: some step of a call is taken as long as one is possible.
Fairness ==
  /\ WF_vars(PauseOver)
  /\ \A c \in Calls : WF_vars(CallStep(c) \/ \E u \in Urls : ItemStep(<<c, u>>))

FairSpec == Spec /\ Fairness

----------------------------------------------------------------------------
(* Properties *)

Submissions == [code : {"none", "pending", "reused"} \cup NotAccepted, job : Jobs \cup {NoJob}]

\* Every variable keeps to its values: neither the loop over rate limits nor the
\* transport goes beyond its last attempt, and only what was accepted can be lost.
TypeOK ==
  /\ input \in Inputs
  /\ phase \in [Calls -> {"idle", "running", "saving", "returned", "raised", "crashed"}]
  /\ next \in [Calls -> Nat] /\ \A c \in Calls : next[c] \in 1..(Len(input[c]) + 1)
  /\ quota \subseteq Calls
  /\ pc \in [Items -> {"todo", "check", "loop", "gate", "post", "save", "judge", "done"}]
  /\ attempt \in [Items -> 0..Retries]
  /\ tries \in [Items -> 1..MaxAttempts]
  /\ sub \in [Items -> Submissions]
  /\ paused \in BOOLEAN
  /\ rows \subseteq [url : Urls, code : {"pending"} \cup NotAccepted, job : Jobs \cup {NoJob}]
  /\ lost \subseteq accepted /\ unsaved \subseteq accepted \ lost /\ accepted \subseteq Jobs
  /\ late \in [Calls -> Nat]
  /\ crashes \in 0..MaxCrashes /\ failures \in 0..MaxFailures

Stored(j) == [url |-> ItemOf(j)[2], code |-> "pending", job |-> j] \in rows

\* No job is orphaned but in two ways: its answer was lost, or the answer arrived and
\* then its save failed (client.py:148) or was cut off by a crash.  Every other job the
\* Archive made is in the cache or about to be saved, also one of a call that crashed.
JobsAccounted ==
  \A j \in accepted \ (lost \cup unsaved) :
    Stored(j) \/ (pc[ItemOf(j)] = "save" /\ sub[ItemOf(j)].job = j)

\* However often an item was rate limited and retried, the Archive answered it with one
\* job at most.  That job is its result, but for one whose save failed: then the item is
\* told as a network error (bulk.py:131-132 and 268-269).
ResultIsTheJob ==
  \A i \in Items : (pc[i] = "done" /\ phase[i[1]] # "crashed") =>
    LET answered == {j \in accepted \ lost : ItemOf(j) = i}
    IN  \/ answered = {} /\ sub[i].code # "pending"
        \/ answered = {sub[i].job} /\ sub[i].code = "pending"
        \/ \E j \in unsaved : answered = {j} /\ sub[i].code = "network"

\* When a call returns, the cache tells of each URL what the caller was told.
ResultsRecorded ==
  \A c \in Calls : phase[c] = "returned" => \A i \in Mine(c) : Row(i, sub[i]) \in rows

\* A quota answer that was saved stops the call: each of the other workers may still send
\* the one submission it had begun, with its transport attempts, and nothing more is sent.
QuotaStops == \A c \in Calls : late[c] <= (Concurrency - 1) * MaxAttempts

\* Every call returns or raises, through rate limits, pauses, quotas, failing requests
\* and a failing database, unless the process ends.
CallReturns ==
  \A c \in Calls :
    (phase[c] = "running") ~> (phase[c] \in {"returned", "raised", "crashed"})
=============================================================================
