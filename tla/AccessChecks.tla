---------------------------- MODULE AccessChecks ----------------------------
(***************************************************************************)
(* check_access for one capture, alone or in check_access_many: the table  *)
(* of earlier checks answers in the Archive's place while they are recent; *)
(* otherwise HEAD is sent, then GET if that failed, each through Transport *)
(* with its bounded attempts.  A result is told at once, and stored later: *)
(* a batch keeps it in its buffer.  Where the database fails, the call     *)
(* ends with that error instead.                                           *)
(*                                                                         *)
(* Checks of different captures share only the limiter, for which a        *)
(* request may wait as long as it likes here.                              *)
(***************************************************************************)
EXTENDS Integers, FiniteSets

CONSTANTS
  Calls,       \* calls of check_access, single ones or those of a batch
  Sites,       \* what the Archive may do with the capture
  Attempts,    \* max(1, RetryPolicy.max_attempts)
  Ttl,         \* Config.ttl.access_check
  Latency,     \* how long an answer of the Archive may take to be read
  MaxTime,     \* bound: ticks of the clock
  MaxChanges,  \* bound: changes of the Archive's mind
  MaxCalls     \* bound: calls that are begun

\* serves: the capture; headless: but not to HEAD; elsewhere: redirects to another
\* capture; offsite: redirects to a page that is no capture; gone: an error such as 404;
\* throttles: one of the statuses that are retried; breaks: no answer at all.
ASSUME SitesAssumption ==
  Sites # {} /\ Sites \subseteq {"serves", "headless", "elsewhere", "offsite", "gone",
                                 "throttles", "breaks"}
ASSUME AttemptsAssumption == Attempts \in Nat \ {0}
ASSUME TimesAssumption ==
  Ttl \in Nat /\ Latency \in Nat /\ MaxTime \in Nat /\ MaxChanges \in Nat /\ MaxCalls \in Nat

VARIABLES
  now,
  site,     \* what the Archive does with the capture
  changes,
  table,    \* access_checks: the rows of this capture
  begun,
  pc,       \* where each call is
  method,   \* of its request
  attempt,  \* at this request, from 1
  resp,     \* the answer to the last attempt
  heardAt,  \* when the Archive gave it
  told,     \* the AccessCheck that the call returns
  was,      \* history: what the Archive did in each tick
  toldAt,   \* history: when the result was told
  failures, \* history: attempts of each method that met a failure worth a retry
  refused,  \* history: the calls whose HEAD was refused outright
  newest    \* history: the time of the newest answer in the table when the call began,
            \* unless that was pruned since

history == <<was, toldAt, failures, refused, newest>>
request == <<method, attempt, resp, heardAt>>
vars == <<now, site, changes, table, begun, pc, request, told, history>>

Times == 0..MaxTime
Never == -1
Methods == {"HEAD", "GET"}

\* Response.status and Response.url, as far as they are told apart; "none" and "nowhere"
\* are those of a TransportError.
Responses == [status : {"ok", "refused", "retry", "none"},
              to : {"here", "elsewhere", "offsite", "nowhere"}]

Rows == [at : Times, status : {"ok", "refused", "retry", "none"},
         to : {"here", "elsewhere", "offsite", "nowhere"}]

NoResponse == [status |-> "none", to |-> "nowhere"]
NoRow == [at |-> 0, status |-> "none", to |-> "nowhere"]

Response(s, m) ==
  CASE s = "breaks" -> NoResponse
    [] s = "throttles" -> [status |-> "retry", to |-> "here"]
    [] s = "gone" \/ (s = "headless" /\ m = "HEAD") -> [status |-> "refused", to |-> "here"]
    [] s = "serves" \/ (s = "headless" /\ m = "GET") -> [status |-> "ok", to |-> "here"]
    [] s \in {"elsewhere", "offsite"} -> [status |-> "ok", to |-> s]

\* AccessCheck.accessible: a redirect to a page without a timestamp does not count.
Accessible(row) == row.status = "ok" /\ row.to # "elsewhere"

HasError(row) == row.status = "none"

----------------------------------------------------------------------------
Init ==
  /\ now = 0
  /\ site \in Sites
  /\ changes = 0
  /\ table = {}
  /\ begun = 0
  /\ pc = [c \in Calls |-> "idle"]
  /\ method = [c \in Calls |-> "HEAD"]
  /\ attempt = [c \in Calls |-> 1]
  /\ resp = [c \in Calls |-> NoResponse]
  /\ heardAt = [c \in Calls |-> 0]
  /\ told = [c \in Calls |-> NoRow]
  /\ was = [t \in Times |-> IF t = 0 THEN {site} ELSE {}]
  /\ toldAt = [c \in Calls |-> 0]
  /\ failures = [c \in Calls |-> [m \in Methods |-> 0]]
  /\ refused = {}
  /\ newest = [c \in Calls |-> Never]

\* Requests time out, and an answer is read soon after it was given.
Tick ==
  /\ now < MaxTime
  /\ \A c \in Calls : pc[c] = "heard" => now < heardAt[c] + Latency
  /\ now' = now + 1
  /\ was' = [was EXCEPT ![now + 1] = {site}]
  /\ UNCHANGED <<site, changes, table, begun, pc, request, told, toldAt, failures, refused,
                 newest>>

SiteChanges ==
  /\ changes < MaxChanges
  /\ changes' = changes + 1
  /\ site' \in Sites \ {site}
  /\ was' = [was EXCEPT ![now] = @ \cup {site'}]
  /\ UNCHANGED <<now, table, begun, pc, request, told, toldAt, failures, refused, newest>>

\* prune: history that is older than the cutoff is deleted, and nobody is owed it any more.
Prune(cutoff) ==
  /\ table' = {r \in table : r.at >= cutoff}
  /\ table' # table
  /\ newest' = [c \in Calls |-> IF newest[c] < cutoff THEN Never ELSE newest[c]]
  /\ UNCHANGED <<now, site, changes, begun, pc, request, told, was, toldAt, failures, refused>>

\* Transport.request begins with its first attempt; HEAD is what a check begins with.
Request(c, m) ==
  /\ method' = [method EXCEPT ![c] = m]
  /\ attempt' = [attempt EXCEPT ![c] = 1]
  /\ resp' = [resp EXCEPT ![c] = NoResponse]
  /\ heardAt' = [heardAt EXCEPT ![c] = 0]

IsNewest(t) ==
  IF \A r \in table : HasError(r)
  THEN t = Never
  ELSE \E r \in table : /\ ~HasError(r) /\ r.at = t
                        /\ \A q \in table : ~HasError(q) => q.at <= t

\* client.check_access: an unforced call looks into the table first.
CheckAccess(c) ==
  /\ pc[c] \in {"idle", "done", "failed"}
  /\ begun < MaxCalls
  /\ begun' = begun + 1
  /\ \E first \in {"look", "send"} : pc' = [pc EXCEPT ![c] = first]
  /\ Request(c, "HEAD")
  /\ \E t \in Times \cup {Never} :
       IsNewest(t) /\ newest' = [newest EXCEPT ![c] = t]
  /\ UNCHANGED <<now, site, changes, table, told, was, toldAt, failures, refused>>

\* The result is what the caller, or its progress callback, is told.
Tell(c, row) ==
  /\ told' = [told EXCEPT ![c] = row]
  /\ toldAt' = [toldAt EXCEPT ![c] = now]

\* Mistake: failed requests answer for the Archive, too.
ReusableWithErrors == {r \in table : r.at >= now - Ttl}

Reusable == {r \in table : r.at >= now - Ttl /\ ~HasError(r)}

\* Mistake: the rows are not ordered.
RecentInAnyOrder == Reusable

\* recent_access_check: ORDER BY checked_at DESC LIMIT 1
recent_access_check == {r \in Reusable : \A q \in Reusable : q.at <= r.at}

Look(c) ==
  /\ pc[c] = "look"
  /\ \/ \E r \in recent_access_check :
          /\ Tell(c, r)
          /\ pc' = [pc EXCEPT ![c] = "done"]
     \/ /\ Reusable = {}
        /\ pc' = [pc EXCEPT ![c] = "send"]
        /\ UNCHANGED <<told, toldAt>>
  /\ UNCHANGED <<now, site, changes, table, begun, request, was, failures, refused, newest>>

----------------------------------------------------------------------------
(* Transport.request *)

\* Network errors and the statuses of RetryPolicy.retry_statuses
Transient(r) == r.status \in {"none", "retry"}

\* The limiter has let the request through; the Archive answers, or the connection breaks.
Answered(c) ==
  /\ pc[c] = "send"
  /\ pc' = [pc EXCEPT ![c] = "heard"]
  /\ resp' = [resp EXCEPT ![c] = Response(site, method[c])]
  /\ heardAt' = [heardAt EXCEPT ![c] = now]
  /\ failures' = IF Transient(Response(site, method[c]))
                 THEN [failures EXCEPT ![c][method[c]] = @ + 1]
                 ELSE failures
  /\ refused' = IF method[c] = "HEAD" /\ Response(site, "HEAD").status = "refused"
                THEN refused \cup {c} ELSE refused
  /\ UNCHANGED <<now, site, changes, table, begun, method, attempt, told, was, toldAt, newest>>

\* Mistake: the last attempt is not made.
AgainLess(c) == Transient(resp[c]) /\ attempt[c] + 1 < Attempts

\* Mistake: there is always another attempt.
AgainForEver(c) == Transient(resp[c])

Again(c) == Transient(resp[c]) /\ attempt[c] < Attempts

\* The permit of the limiter is given back before the sleep, however long that is.
Backoff(c) ==
  /\ pc[c] = "heard" /\ Again(c)
  /\ pc' = [pc EXCEPT ![c] = "backoff"]
  /\ UNCHANGED <<now, site, changes, table, begun, request, told, history>>

NextAttempt(c) ==
  /\ pc[c] = "backoff"
  /\ pc' = [pc EXCEPT ![c] = "send"]
  /\ attempt' = [attempt EXCEPT ![c] = @ + 1]
  /\ UNCHANGED <<now, site, changes, table, begun, method, resp, heardAt, told, history>>

----------------------------------------------------------------------------
(* access.check_access *)

\* Mistake: what HEAD says is final.
HeadIsFinal(c) == TRUE

\* The first request succeeded, or there is no other to try.
Final(c) == method[c] = "GET" \/ resp[c].status = "ok"

FallBack(c) ==
  /\ pc[c] = "heard" /\ ~Again(c) /\ ~Final(c)
  /\ pc' = [pc EXCEPT ![c] = "send"]
  /\ Request(c, "GET")
  /\ UNCHANGED <<now, site, changes, table, begun, told, history>>

\* _result, or the AccessCheck of a TransportError
Conclude(c) ==
  /\ pc[c] = "heard" /\ ~Again(c) /\ Final(c)
  /\ pc' = [pc EXCEPT ![c] = "store"]
  /\ Tell(c, [at |-> now, status |-> resp[c].status, to |-> resp[c].to])
  /\ Request(c, "HEAD")
  /\ UNCHANGED <<now, site, changes, table, begun, was, failures, refused, newest>>

Forget(c) ==
  /\ failures' = [failures EXCEPT ![c] = [m \in Methods |-> 0]]
  /\ refused' = refused \ {c}

\* add_access_checks, by the call itself or by a flush of the batch's buffer
Store(c) ==
  /\ pc[c] = "store"
  /\ pc' = [pc EXCEPT ![c] = "done"]
  /\ table' = table \cup {told[c]}
  /\ Forget(c)
  /\ UNCHANGED <<now, site, changes, begun, request, told, was, toldAt, newest>>

\* The result stays as it was told, and is not stored: record=False; a chunk with it is
\* refused when another item of the batch is added, or at the end of the batch, which then
\* raises, so that only the progress callback was told; or the process ends.
NotStored(c) ==
  /\ pc[c] = "store"
  /\ pc' = [pc EXCEPT ![c] = "done"]
  /\ Forget(c)
  /\ UNCHANGED <<now, site, changes, table, begun, request, told, was, toldAt, newest>>

\* recent_access_check raises, or add_access_checks does, for the item whose add flushed
\* the buffer.  A batch makes on_error's AccessCheck of that, whatever the Archive had
\* answered; a single call raises.  Either way the error is all that the caller gets.
DatabaseFails(c) ==
  /\ pc[c] \in {"look", "store"}
  /\ pc' = [pc EXCEPT ![c] = "failed"]
  /\ Tell(c, [NoRow EXCEPT !.at = now])
  /\ Forget(c)
  /\ UNCHANGED <<now, site, changes, table, begun, request, was, newest>>

Proceed(c) ==
  \/ Look(c)
  \/ Answered(c)
  \/ Backoff(c)
  \/ NextAttempt(c)
  \/ FallBack(c)
  \/ Conclude(c)
  \/ Store(c)
  \/ NotStored(c)
  \/ DatabaseFails(c)

Next ==
  \/ Tick
  \/ SiteChanges
  \/ \E cutoff \in Times : Prune(cutoff)
  \/ \E c \in Calls : CheckAccess(c) \/ Proceed(c)

Spec == Init /\ [][Next]_vars

----------------------------------------------------------------------------
(* Properties *)

\* Every variable keeps to its values; a request has made at most Attempts attempts.
TypeOK ==
  /\ now \in Times
  /\ site \in Sites
  /\ changes \in 0..MaxChanges
  /\ table \subseteq Rows
  /\ begun \in 0..MaxCalls
  /\ pc \in [Calls -> {"idle", "look", "send", "heard", "backoff", "store", "done", "failed"}]
  /\ method \in [Calls -> Methods]
  /\ attempt \in [Calls -> 1..Attempts]
  /\ resp \in [Calls -> Responses]
  /\ heardAt \in [Calls -> Times]
  /\ told \in [Calls -> Rows]
  /\ was \in [Times -> SUBSET Sites]
  /\ toldAt \in [Calls -> Times]
  /\ failures \in [Calls -> [Methods -> 0..Attempts]]
  /\ refused \subseteq Calls
  /\ newest \in [Calls -> Times \cup {Never}]

\* The call has a result of the Archive's, told or about to be.
HasTold(c) == pc[c] \in {"store", "done"}

\* The Archive gave this answer to a GET at some time from first to last.
GivenBetween(row, first, last) ==
  \E t \in Times : /\ first <= t /\ t <= last
                   /\ \E s \in was[t] :
                        /\ Response(s, "GET").status = row.status
                        /\ Response(s, "GET").to = row.to
                        /\ Accessible(row) <=> s \in {"serves", "headless", "offsite"}

\* What a check tells of the Archive, it did and said of the capture within the TTL
\* (access.py:19-33, cache.py:543-553): an outage during which every attempt failed is told
\* as long as the TTL and no longer; a network error is told only to the call that met it.
\* A HEAD that is refused where GET is served is never told.  A call that met an error of
\* the database is told that error alone (bulk.py:577-585), which is nothing the Archive
\* said; so it is not stored, and nobody else is told it: every row is an answer.
TellsTheTruth ==
  /\ \A r \in table : GivenBetween(r, r.at - Latency, r.at)
  /\ \A c \in Calls :
       HasTold(c) =>
         LET age == IF HasError(told[c]) THEN Latency ELSE Ttl + Latency
         IN  GivenBetween(told[c], toldAt[c] - age, toldAt[c])

\* A failure that may pass is told to the call that met it only after all attempts of
\* GET met one, and all those of HEAD unless that was refused (http.py:152-188,
\* access.py:49-65): no shorter outage makes a capture inaccessible.  (The error of a
\* failing database does, in a batch: see DatabaseFails.)
OutlastsRetries ==
  \A c \in Calls :
    pc[c] = "store" /\ Transient(told[c]) =>
      /\ failures[c]["GET"] = Attempts
      /\ failures[c]["HEAD"] = Attempts \/ c \in refused

\* Nobody is told an older answer than was already stored when the call began, in
\* whatever order the buffers of concurrent batches reach the table (bulk.py:571-575),
\* unless that one was pruned meanwhile.
NeverGoesBack == \A c \in Calls : HasTold(c) => told[c].at >= newest[c]
=============================================================================
