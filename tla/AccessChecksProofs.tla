------------------------- MODULE AccessChecksProofs -------------------------
(***************************************************************************)
(* What check_access tells, for any number of calls, attempts and lengths  *)
(* of the TTL: the counts of the failed attempts, the answer that the      *)
(* caller is owed, and what the Archive did when an answer was given.      *)
(***************************************************************************)
EXTENDS AccessChecks, TLAPS

Statuses == {"idle", "look", "send", "heard", "backoff", "store", "done", "failed"}
Requesting == {"send", "heard", "backoff"}

\* A method is given up after all of its attempts, or because it was refused.
GivenUp(c) == failures[c]["HEAD"] = Attempts \/ c \in refused

\* failures counts the failed attempts of the request under way and of the one before.
Counted(c) ==
  /\ pc[c] \in {"idle", "look", "done", "failed"} =>
       /\ failures[c]["HEAD"] = 0 /\ failures[c]["GET"] = 0
       /\ c \notin refused
  /\ pc[c] = "look" => method[c] = "HEAD" /\ attempt[c] = 1
  /\ pc[c] \in Requesting =>
       /\ method[c] = "HEAD" => failures[c]["GET"] = 0
       /\ method[c] = "GET" => GivenUp(c)
  /\ pc[c] = "send" => failures[c][method[c]] = attempt[c] - 1
  /\ pc[c] = "backoff" => failures[c][method[c]] = attempt[c] /\ attempt[c] < Attempts
  /\ pc[c] = "heard" /\ Transient(resp[c]) => failures[c][method[c]] = attempt[c]
  /\ pc[c] = "heard" /\ method[c] = "HEAD" /\ resp[c].status = "refused" => c \in refused
  /\ pc[c] = "store" /\ Transient(told[c]) => failures[c]["GET"] = Attempts /\ GivenUp(c)

Counts == TypeOK /\ \A c \in Calls : Counted(c)

LEMMA ResponseTyped ==
  ASSUME NEW s \in Sites, NEW m \in Methods PROVE Response(s, m) \in Responses
BY SitesAssumption DEF Response, Responses, NoResponse, Methods

LEMMA CountsInit == Init => Counts
<1> SUFFICES ASSUME Init PROVE Counts
  OBVIOUS
<1>1. 0 \in Times /\ 1 \in 1..Attempts /\ 0 \in 0..Attempts
  BY AttemptsAssumption, TimesAssumption DEF Times
<1>2. NoResponse \in Responses /\ NoRow \in Rows
  BY <1>1 DEF NoResponse, NoRow, Responses, Rows
<1>3. TypeOK
  BY <1>1, <1>2, TimesAssumption DEF Init, TypeOK, Methods, Never
<1>4. \A c \in Calls : Counted(c)
  BY DEF Init, Counted, Requesting, Methods, Transient
<1> QED
  BY <1>3, <1>4 DEF Counts

\* The other calls' counts are theirs alone.
LEMMA OthersCounted ==
  ASSUME Counts, NEW c \in Calls, NEW d \in Calls, c # d,
         pc'[d] = pc[d], method'[d] = method[d], attempt'[d] = attempt[d],
         resp'[d] = resp[d], told'[d] = told[d], failures'[d] = failures[d],
         d \in refused' <=> d \in refused
  PROVE  Counted(d)'
BY DEF Counts, Counted, GivenUp, Transient

LEMMA CountsUnchanged ==
  ASSUME Counts, TypeOK', UNCHANGED <<pc, method, attempt, resp, told, failures, refused>>
  PROVE  Counts'
BY DEF Counts, Counted, GivenUp, Transient

----------------------------------------------------------------------------
(* The surroundings of a call *)

LEMMA TickCounts == ASSUME Counts, Tick PROVE Counts'
<1>1. now + 1 \in Times
  BY TimesAssumption DEF Tick, Counts, TypeOK, Times
<1>2. TypeOK'
  BY <1>1 DEF Tick, Counts, TypeOK, request
<1> QED
  BY <1>2, CountsUnchanged DEF Tick, request

LEMMA SiteChangesCounts == ASSUME Counts, SiteChanges PROVE Counts'
<1>1. changes' \in 0..MaxChanges
  BY TimesAssumption DEF SiteChanges, Counts, TypeOK
<1>2. TypeOK'
  BY <1>1 DEF SiteChanges, Counts, TypeOK, request
<1> QED
  BY <1>2, CountsUnchanged DEF SiteChanges, request

LEMMA PruneCounts == ASSUME Counts, NEW cutoff \in Times, Prune(cutoff) PROVE Counts'
<1>1. newest' \in [Calls -> Times \cup {Never}]
  BY DEF Prune, Counts, TypeOK
<1>2. TypeOK'
  BY <1>1 DEF Prune, Counts, TypeOK, request
<1> QED
  BY <1>2, CountsUnchanged DEF Prune, request

----------------------------------------------------------------------------
(* The steps of a call *)

LEMMA RequestTyped ==
  ASSUME TypeOK, NEW c \in Calls, NEW m \in Methods, Request(c, m)
  PROVE  /\ method' \in [Calls -> Methods] /\ attempt' \in [Calls -> 1..Attempts]
         /\ resp' \in [Calls -> Responses] /\ heardAt' \in [Calls -> Times]
         /\ method'[c] = m /\ attempt'[c] = 1 /\ resp'[c] = NoResponse
         /\ \A d \in Calls : d # c => /\ method'[d] = method[d] /\ attempt'[d] = attempt[d]
                                      /\ resp'[d] = resp[d] /\ heardAt'[d] = heardAt[d]
<1>1. 1 \in 1..Attempts /\ 0 \in Times /\ NoResponse \in Responses
  BY AttemptsAssumption, TimesAssumption DEF Times, NoResponse, Responses
<1> QED
  BY <1>1 DEF Request, TypeOK

LEMMA CheckAccessCounts == ASSUME Counts, NEW c \in Calls, CheckAccess(c) PROVE Counts'
<1>1. PICK first \in {"look", "send"} : pc' = [pc EXCEPT ![c] = first]
  BY DEF CheckAccess
<1>2. newest' \in [Calls -> Times \cup {Never}]
  BY DEF CheckAccess, Counts, TypeOK
<1>3. Request(c, "HEAD") /\ "HEAD" \in Methods /\ TypeOK
  BY DEF CheckAccess, Methods, Counts
<1>4. begun' \in 0..MaxCalls
  BY TimesAssumption DEF CheckAccess, Counts, TypeOK
<1>5. pc' \in [Calls -> Statuses]
  BY <1>1 DEF Counts, TypeOK, Statuses
<1>6. TypeOK'
  BY <1>2, <1>3, <1>4, <1>5, RequestTyped DEF CheckAccess, TypeOK, Statuses
<1>7. Counted(c)'
  <2>1. failures[c]["HEAD"] = 0 /\ failures[c]["GET"] = 0 /\ c \notin refused
    BY DEF CheckAccess, Counts, Counted
  <2>2. failures' = failures /\ refused' = refused
    BY DEF CheckAccess
  <2>3. method'[c] = "HEAD" /\ attempt'[c] = 1
    BY <1>3, RequestTyped
  <2>4. pc'[c] = first
    BY <1>1 DEF Counts, TypeOK
  <2> QED
    BY <2>1, <2>2, <2>3, <2>4 DEF Counted, Requesting
<1>8. ASSUME NEW d \in Calls, d # c PROVE Counted(d)'
  BY <1>1, <1>3, <1>8, RequestTyped, OthersCounted DEF CheckAccess
<1> QED
  BY <1>6, <1>7, <1>8 DEF Counts

LEMMA LookCounts == ASSUME Counts, NEW c \in Calls, Look(c) PROVE Counts'
<1>1. /\ pc[c] = "look"
      /\ UNCHANGED <<now, site, changes, table, begun, method, attempt, resp, heardAt, was,
                     failures, refused, newest>>
  BY DEF Look, request
<1>2. CASE \E r \in recent_access_check : Tell(c, r) /\ pc' = [pc EXCEPT ![c] = "done"]
  <2>1. PICK r \in recent_access_check : Tell(c, r) /\ pc' = [pc EXCEPT ![c] = "done"]
    BY <1>2
  <2>2. r \in Rows
    BY DEF recent_access_check, Reusable, Counts, TypeOK
  <2>3. TypeOK'
    BY <1>1, <2>1, <2>2 DEF Tell, Counts, TypeOK
  <2>4. \A d \in Calls : d # c => Counted(d)'
    BY <1>1, <2>1, OthersCounted DEF Tell, Counts, TypeOK
  <2>5. Counted(c)'
    BY <1>1, <2>1 DEF Counts, TypeOK, Counted, Requesting
  <2> QED
    BY <2>3, <2>4, <2>5 DEF Counts
<1>3. CASE pc' = [pc EXCEPT ![c] = "send"] /\ UNCHANGED <<told, toldAt>>
  <2>1. TypeOK'
    BY <1>1, <1>3 DEF Counts, TypeOK
  <2>2. \A d \in Calls : d # c => Counted(d)'
    BY <1>1, <1>3, OthersCounted DEF Counts, TypeOK
  <2>3. Counted(c)'
    BY <1>1, <1>3 DEF Counts, TypeOK, Counted, Requesting
  <2> QED
    BY <2>1, <2>2, <2>3 DEF Counts
<1> QED
  BY <1>2, <1>3 DEF Look

LEMMA AnsweredCounts == ASSUME Counts, NEW c \in Calls, Answered(c) PROVE Counts'
<1> DEFINE m == method[c]
           r == Response(site, m)
<1>1. m \in Methods /\ site \in Sites /\ r \in Responses
  BY ResponseTyped DEF Counts, TypeOK
<1>2. /\ pc[c] = "send" /\ pc' = [pc EXCEPT ![c] = "heard"]
      /\ resp' = [resp EXCEPT ![c] = r] /\ heardAt' = [heardAt EXCEPT ![c] = now]
      /\ failures' = IF Transient(r) THEN [failures EXCEPT ![c][m] = @ + 1] ELSE failures
      /\ refused' = IF m = "HEAD" /\ r.status = "refused" THEN refused \cup {c} ELSE refused
      /\ UNCHANGED <<now, site, changes, table, begun, method, attempt, told, was, toldAt,
                     newest>>
  BY DEF Answered
<1>3. failures[c][m] = attempt[c] - 1
  BY <1>2 DEF Counts, Counted
<1>4. attempt[c] \in 1..Attempts
  BY DEF Counts, TypeOK
<1> HIDE DEF r, m
<1>5. failures' \in [Calls -> [Methods -> 0..Attempts]]
  <2>1. failures[c][m] + 1 \in 0..Attempts
    BY <1>3, <1>4, AttemptsAssumption
  <2> QED
    BY <1>1, <1>2, <2>1 DEF Counts, TypeOK
<1>6. TypeOK'
  BY <1>1, <1>2, <1>5 DEF Counts, TypeOK
<1>7. \A d \in Calls : d # c => Counted(d)'
  BY <1>2, OthersCounted DEF Counts, TypeOK
<1>8. Counted(c)'
  <2>1. /\ pc'[c] = "heard" /\ resp'[c] = r /\ method'[c] = m /\ attempt'[c] = attempt[c]
    BY <1>2 DEF Counts, TypeOK, m
  <2>2. Transient(r) => failures'[c][m] = attempt[c]
    <3>1. ASSUME Transient(r) PROVE failures'[c][m] = failures[c][m] + 1
      BY <1>1, <1>2, <3>1 DEF Counts, TypeOK
    <3> QED
      BY <1>3, <1>4, <3>1
  <2>3. \A n \in Methods : n # m => failures'[c][n] = failures[c][n]
    BY <1>2 DEF Counts, TypeOK
  <2>4. c \in refused => c \in refused'
    BY <1>2
  <2>5. m = "HEAD" => failures'[c]["GET"] = 0
    BY <1>2, <2>3 DEF Counts, Counted, Requesting, Methods, m
  <2>6. m = "GET" => GivenUp(c)'
    BY <1>2, <2>3, <2>4 DEF Counts, Counted, Requesting, GivenUp, Methods, m
  <2>7. m = "HEAD" /\ r.status = "refused" => c \in refused'
    BY <1>2
  <2> QED
    BY <2>1, <2>2, <2>5, <2>6, <2>7 DEF Counted
<1> QED
  BY <1>6, <1>7, <1>8 DEF Counts

LEMMA BackoffCounts == ASSUME Counts, NEW c \in Calls, Backoff(c) PROVE Counts'
<1>1. /\ pc[c] = "heard" /\ Transient(resp[c]) /\ attempt[c] < Attempts
      /\ pc' = [pc EXCEPT ![c] = "backoff"]
      /\ UNCHANGED <<now, site, changes, table, begun, method, attempt, resp, heardAt, told,
                     was, toldAt, failures, refused, newest>>
  BY DEF Backoff, Again, request, history
<1>2. TypeOK'
  BY <1>1 DEF Counts, TypeOK
<1>3. \A d \in Calls : d # c => Counted(d)'
  BY <1>1, OthersCounted DEF Counts, TypeOK
<1>4. Counted(c)'
  BY <1>1 DEF Counts, TypeOK, Counted, Requesting, GivenUp
<1> QED
  BY <1>2, <1>3, <1>4 DEF Counts

LEMMA NextAttemptCounts == ASSUME Counts, NEW c \in Calls, NextAttempt(c) PROVE Counts'
<1>1. /\ pc[c] = "backoff" /\ pc' = [pc EXCEPT ![c] = "send"]
      /\ attempt' = [attempt EXCEPT ![c] = @ + 1]
      /\ UNCHANGED <<now, site, changes, table, begun, method, resp, heardAt, told,
                     was, toldAt, failures, refused, newest>>
  BY DEF NextAttempt, history
<1>2. failures[c][method[c]] = attempt[c] /\ attempt[c] < Attempts
  BY <1>1 DEF Counts, Counted
<1>3. attempt[c] + 1 \in 1..Attempts /\ attempt[c] = (attempt[c] + 1) - 1
  BY <1>2, AttemptsAssumption DEF Counts, TypeOK
<1>4. TypeOK'
  BY <1>1, <1>3 DEF Counts, TypeOK
<1>5. \A d \in Calls : d # c => Counted(d)'
  BY <1>1, OthersCounted DEF Counts, TypeOK
<1>6. Counted(c)'
  <2>1. pc'[c] = "send" /\ attempt'[c] = attempt[c] + 1
    BY <1>1 DEF Counts, TypeOK
  <2> QED
    BY <1>1, <1>2, <1>3, <2>1 DEF Counts, Counted, Requesting, GivenUp
<1> QED
  BY <1>4, <1>5, <1>6 DEF Counts

\* When there is no other attempt, the request failed in every attempt or not at all.
LEMMA AllAttempts ==
  ASSUME Counts, NEW c \in Calls, pc[c] = "heard", ~Again(c), Transient(resp[c])
  PROVE  failures[c][method[c]] = Attempts
<1>1. failures[c][method[c]] = attempt[c] /\ attempt[c] \in 1..Attempts
  BY DEF Counts, Counted, TypeOK
<1>2. ~(attempt[c] < Attempts)
  BY DEF Again
<1> QED
  BY <1>1, <1>2, AttemptsAssumption

LEMMA FallBackCounts == ASSUME Counts, NEW c \in Calls, FallBack(c) PROVE Counts'
<1>1. /\ pc[c] = "heard" /\ ~Again(c) /\ method[c] = "HEAD" /\ resp[c].status # "ok"
      /\ pc' = [pc EXCEPT ![c] = "send"] /\ Request(c, "GET")
      /\ UNCHANGED <<now, site, changes, table, begun, told, was, toldAt, failures, refused,
                     newest>>
  BY DEF FallBack, Final, history, Counts, TypeOK, Methods
<1>2. "GET" \in Methods /\ TypeOK
  BY DEF Methods, Counts
<1>3. GivenUp(c)
  <2>1. CASE Transient(resp[c])
    BY <1>1, <2>1, AllAttempts DEF GivenUp
  <2>2. CASE ~Transient(resp[c])
    <3>1. resp[c].status = "refused"
      BY <1>1, <2>2 DEF Transient, Counts, TypeOK, Responses
    <3> QED
      BY <1>1, <3>1 DEF Counts, Counted, GivenUp
  <2> QED
    BY <2>1, <2>2
<1>4. TypeOK'
  BY <1>1, <1>2, RequestTyped DEF TypeOK
<1>5. \A d \in Calls : d # c => Counted(d)'
  BY <1>1, <1>2, RequestTyped, OthersCounted DEF TypeOK
<1>6. Counted(c)'
  <2>1. method'[c] = "GET" /\ attempt'[c] = 1 /\ pc'[c] = "send"
    BY <1>1, <1>2, RequestTyped DEF TypeOK
  <2>2. failures[c]["GET"] = 0
    BY <1>1 DEF Counts, Counted, Requesting
  <2> QED
    BY <1>1, <1>3, <2>1, <2>2 DEF Counted, Requesting, GivenUp
<1> QED
  BY <1>4, <1>5, <1>6 DEF Counts

LEMMA ConcludeCounts == ASSUME Counts, NEW c \in Calls, Conclude(c) PROVE Counts'
<1> DEFINE row == [at |-> now, status |-> resp[c].status, to |-> resp[c].to]
<1>1. /\ pc[c] = "heard" /\ ~Again(c) /\ (method[c] = "GET" \/ resp[c].status = "ok")
      /\ pc' = [pc EXCEPT ![c] = "store"] /\ Request(c, "HEAD")
      /\ told' = [told EXCEPT ![c] = row] /\ toldAt' = [toldAt EXCEPT ![c] = now]
      /\ UNCHANGED <<now, site, changes, table, begun, was, failures, refused, newest>>
  BY DEF Conclude, Final, Tell
<1>2. "HEAD" \in Methods /\ TypeOK
  BY DEF Methods, Counts
<1>3. row \in Rows
  BY DEF Counts, TypeOK, Rows, Responses
<1>4. row.status = resp[c].status
  OBVIOUS
<1> HIDE DEF row
<1>5. TypeOK'
  BY <1>1, <1>2, <1>3, RequestTyped DEF TypeOK
<1>6. \A d \in Calls : d # c => Counted(d)'
  BY <1>1, <1>2, RequestTyped, OthersCounted DEF TypeOK
<1>7. Counted(c)'
  <2>1. pc'[c] = "store" /\ told'[c] = row
    BY <1>1, <1>2 DEF TypeOK
  <2>2. Transient(row) => failures[c]["GET"] = Attempts /\ GivenUp(c)
    <3>1. ASSUME Transient(row) PROVE method[c] = "GET" /\ Transient(resp[c])
      BY <1>1, <1>4, <3>1 DEF Transient
    <3>2. pc[c] \in Requesting
      BY <1>1 DEF Requesting
    <3> QED
      BY <1>1, <3>1, <3>2, AllAttempts DEF Counts, Counted
  <2> QED
    BY <1>1, <2>1, <2>2 DEF Counted, GivenUp, Requesting
<1> QED
  BY <1>5, <1>6, <1>7 DEF Counts

LEMMA EndCounts ==
  ASSUME Counts, NEW c \in Calls, Store(c) \/ NotStored(c) PROVE Counts'
<1> DEFINE none == [m \in Methods |-> 0]
<1>1. /\ pc[c] = "store" /\ pc' = [pc EXCEPT ![c] = "done"]
      /\ failures' = [failures EXCEPT ![c] = none] /\ refused' = refused \ {c}
      /\ table' \subseteq table \cup {told[c]}
      /\ UNCHANGED <<now, site, changes, begun, method, attempt, resp, heardAt, told, was,
                     toldAt, newest>>
  BY DEF Store, NotStored, Forget, request
<1>2. none \in [Methods -> 0..Attempts] /\ none["HEAD"] = 0 /\ none["GET"] = 0
  BY AttemptsAssumption DEF Methods
<1> HIDE DEF none
<1>3. TypeOK'
  BY <1>1, <1>2 DEF Counts, TypeOK
<1>4. \A d \in Calls : d # c => Counted(d)'
  BY <1>1, OthersCounted DEF Counts, TypeOK
<1>5. Counted(c)'
  <2>1. pc'[c] = "done" /\ failures'[c] = none /\ c \notin refused'
    BY <1>1 DEF Counts, TypeOK
  <2> QED
    BY <1>2, <2>1 DEF Counted, Requesting
<1> QED
  BY <1>3, <1>4, <1>5 DEF Counts

LEMMA DatabaseFailsCounts ==
  ASSUME Counts, NEW c \in Calls, DatabaseFails(c) PROVE Counts'
<1> DEFINE none == [m \in Methods |-> 0]
           row == [NoRow EXCEPT !.at = now]
<1>1. /\ pc' = [pc EXCEPT ![c] = "failed"]
      /\ told' = [told EXCEPT ![c] = row] /\ toldAt' = [toldAt EXCEPT ![c] = now]
      /\ failures' = [failures EXCEPT ![c] = none] /\ refused' = refused \ {c}
      /\ UNCHANGED <<now, site, changes, table, begun, method, attempt, resp, heardAt, was,
                     newest>>
  BY DEF DatabaseFails, Tell, Forget, request
<1>2. none \in [Methods -> 0..Attempts] /\ none["HEAD"] = 0 /\ none["GET"] = 0
  BY AttemptsAssumption DEF Methods
<1>3. row \in Rows
  BY DEF NoRow, Rows, Counts, TypeOK
<1> HIDE DEF none, row
<1>4. TypeOK'
  BY <1>1, <1>2, <1>3 DEF Counts, TypeOK
<1>5. \A d \in Calls : d # c => Counted(d)'
  BY <1>1, OthersCounted DEF Counts, TypeOK
<1>6. Counted(c)'
  <2>1. pc'[c] = "failed" /\ failures'[c] = none /\ c \notin refused'
    BY <1>1 DEF Counts, TypeOK
  <2> QED
    BY <1>2, <2>1 DEF Counted, Requesting
<1> QED
  BY <1>4, <1>5, <1>6 DEF Counts

LEMMA CountsInvariant == Spec => []Counts
<1>1. Init => Counts
  BY CountsInit
<1>2. Counts /\ [Next]_vars => Counts'
  <2> SUFFICES ASSUME Counts, [Next]_vars PROVE Counts'
    OBVIOUS
  <2>1. CASE UNCHANGED vars
    <3>1. TypeOK'
      BY <2>1 DEF vars, request, history, Counts, TypeOK
    <3> QED
      BY <2>1, <3>1, CountsUnchanged DEF vars, request, history
  <2>2. CASE Tick \/ SiteChanges \/ \E cutoff \in Times : Prune(cutoff)
    BY <2>2, TickCounts, SiteChangesCounts, PruneCounts
  <2>3. ASSUME NEW c \in Calls, CheckAccess(c) \/ Proceed(c) PROVE Counts'
    BY <2>3, CheckAccessCounts, LookCounts, AnsweredCounts, BackoffCounts,
       NextAttemptCounts, FallBackCounts, ConcludeCounts, EndCounts,
       DatabaseFailsCounts DEF Proceed
  <2> QED
    BY <2>1, <2>2, <2>3 DEF Next
<1> QED
  BY <1>1, <1>2, PTL DEF Spec

\* Every variable keeps to its values, for any calls and bounds.
THEOREM TypeCorrect == Spec => []TypeOK
<1>1. Counts => TypeOK
  BY DEF Counts
<1> QED
  BY <1>1, CountsInvariant, PTL

\* A failure that may pass is told only after all the attempts it is allowed to outlast.
THEOREM FailureOutlastsRetries == Spec => []OutlastsRetries
<1>1. Counts => OutlastsRetries
  BY DEF Counts, Counted, GivenUp, OutlastsRetries
<1> QED
  BY <1>1, CountsInvariant, PTL

----------------------------------------------------------------------------
(* Nobody is told an older answer *)

\* The answer that a call is owed is in the table, and nothing is from the future.
Owed(c) ==
  /\ newest[c] # Never => \E r \in table : ~HasError(r) /\ r.at = newest[c]
  /\ HasTold(c) => newest[c] <= told[c].at /\ told[c].at <= now

Owing ==
  /\ \A r \in table : r.at <= now
  /\ \A c \in Calls : Owed(c)

LEMMA OthersOwed ==
  ASSUME Counts, Owing, NEW d \in Calls, now <= now', now' \in Nat, table \subseteq table',
         pc'[d] = pc[d], told'[d] = told[d], newest'[d] = newest[d]
  PROVE  Owed(d)'
<1>1. told[d].at \in Nat /\ now \in Nat
  BY TimesAssumption DEF Counts, TypeOK, Rows, Times
<1>2. HasTold(d)' => newest'[d] <= told'[d].at /\ told'[d].at <= now'
  BY <1>1 DEF Owing, Owed, HasTold
<1> QED
  BY <1>2 DEF Owing, Owed

LEMMA OwingInit == Init => Owing
BY DEF Init, Owing, Owed, HasTold

\* Most steps leave what is stored and told alone.
LEMMA OwingKept ==
  ASSUME Counts, Owing, now <= now', now' \in Nat, UNCHANGED <<table, told, newest>>,
         \A c \in Calls : HasTold(c)' => HasTold(c)
  PROVE  Owing'
<1>1. now \in Nat /\ (\A r \in table : r.at \in Nat) /\ (\A c \in Calls : told[c].at \in Nat)
  BY TimesAssumption DEF Counts, TypeOK, Rows, Times
<1>2. \A r \in table : r.at <= now'
  BY <1>1 DEF Owing
<1>3. ASSUME NEW c \in Calls PROVE Owed(c)'
  <2>1. HasTold(c)' => newest'[c] <= told'[c].at /\ told'[c].at <= now'
    BY <1>1 DEF Owing, Owed
  <2> QED
    BY <2>1 DEF Owing, Owed
<1> QED
  BY <1>2, <1>3 DEF Owing

LEMMA OwingPrune ==
  ASSUME Counts, Owing, NEW cutoff \in Times, Prune(cutoff) PROVE Owing'
<1>1. /\ table' = {r \in table : r.at >= cutoff}
      /\ newest' = [c \in Calls |-> IF newest[c] < cutoff THEN Never ELSE newest[c]]
      /\ UNCHANGED <<now, pc, told>>
  BY DEF Prune
<1>2. now \in Nat /\ cutoff \in Nat /\ (\A c \in Calls : told[c].at \in Nat)
      /\ (\A c \in Calls : newest[c] \in Nat \cup {Never})
  BY TimesAssumption DEF Counts, TypeOK, Rows, Times
<1>3. \A r \in table' : r.at <= now'
  BY <1>1 DEF Owing
<1>4. ASSUME NEW c \in Calls PROVE Owed(c)'
  <2>1. CASE newest[c] < cutoff
    BY <1>1, <1>2, <2>1 DEF Owing, Owed, HasTold, Never
  <2>2. CASE ~(newest[c] < cutoff)
    <3>1. newest'[c] = newest[c] /\ newest[c] \in Nat /\ cutoff <= newest[c]
      BY <1>1, <1>2, <2>2 DEF Never
    <3>2. newest[c] # Never
      BY <3>1 DEF Never
    <3>3. PICK r \in table : ~HasError(r) /\ r.at = newest[c]
      BY <3>2 DEF Owing, Owed
    <3>4. r \in table'
      BY <1>1, <3>1, <3>3
    <3> QED
      BY <1>1, <3>1, <3>3, <3>4 DEF Owing, Owed, HasTold
  <2> QED
    BY <2>1, <2>2
<1> QED
  BY <1>3, <1>4 DEF Owing

LEMMA OwingCheckAccess ==
  ASSUME Counts, Owing, NEW c \in Calls, CheckAccess(c) PROVE Owing'
<1>1. UNCHANGED <<now, table, told>>
  BY DEF CheckAccess
<1>2. PICK first \in {"look", "send"} : pc' = [pc EXCEPT ![c] = first]
  BY DEF CheckAccess
<1>3. PICK t \in Times \cup {Never} : IsNewest(t) /\ newest' = [newest EXCEPT ![c] = t]
  BY DEF CheckAccess
<1>4. now \in Nat
  BY TimesAssumption DEF Counts, TypeOK, Times
<1>5. Owed(c)'
  <2>1. newest'[c] = t /\ pc'[c] = first
    BY <1>2, <1>3 DEF Counts, TypeOK
  <2>2. t # Never => \E r \in table : ~HasError(r) /\ r.at = t
    BY <1>3 DEF IsNewest
  <2> QED
    BY <1>1, <2>1, <2>2 DEF Owed, HasTold
<1>6. \A d \in Calls : d # c => Owed(d)'
  BY <1>1, <1>2, <1>3, <1>4, OthersOwed DEF Counts, TypeOK
<1> QED
  BY <1>1, <1>5, <1>6 DEF Owing

LEMMA OwingLook == ASSUME Counts, Owing, NEW c \in Calls, Look(c) PROVE Owing'
<1>1. UNCHANGED <<now, table, newest>>
  BY DEF Look
<1>2. now \in Nat /\ newest[c] \in Nat \cup {Never} /\ \A r \in table : r.at \in Nat
  BY TimesAssumption DEF Counts, TypeOK, Rows, Times
<1>3. CASE \E r \in recent_access_check : Tell(c, r) /\ pc' = [pc EXCEPT ![c] = "done"]
  <2>1. PICK r \in recent_access_check : Tell(c, r) /\ pc' = [pc EXCEPT ![c] = "done"]
    BY <1>3
  <2>2. r \in table /\ r.at >= now - Ttl /\ \A q \in Reusable : q.at <= r.at
    BY <2>1 DEF recent_access_check, Reusable
  <2>3. newest[c] <= r.at
    <3>1. CASE newest[c] = Never
      BY <1>2, <2>2, <3>1 DEF Never
    <3>2. CASE newest[c] # Never
      <4>1. PICK n \in table : ~HasError(n) /\ n.at = newest[c]
        BY <3>2 DEF Owing, Owed
      <4>2. CASE n \in Reusable
        BY <2>2, <4>1, <4>2
      <4>3. CASE n \notin Reusable
        <5>1. ~(n.at >= now - Ttl)
          BY <4>1, <4>3 DEF Reusable
        <5> QED
          BY <1>2, <2>2, <4>1, <5>1, TimesAssumption
      <4> QED
        BY <4>2, <4>3
    <3> QED
      BY <3>1, <3>2
  <2>4. told'[c] = r
    BY <2>1 DEF Tell, Counts, TypeOK
  <2>5. Owed(c)'
    BY <1>1, <2>2, <2>3, <2>4 DEF Owing, Owed
  <2>6. \A d \in Calls : d # c => Owed(d)'
    BY <1>1, <1>2, <2>1, OthersOwed DEF Tell, Counts, TypeOK
  <2> QED
    BY <1>1, <2>5, <2>6 DEF Owing
<1>4. CASE pc' = [pc EXCEPT ![c] = "send"] /\ UNCHANGED <<told, toldAt>>
  <2>1. \A d \in Calls : HasTold(d)' => HasTold(d)
    BY <1>4 DEF HasTold, Counts, TypeOK
  <2> QED
    BY <1>1, <1>2, <1>4, <2>1, OwingKept
<1> QED
  BY <1>3, <1>4 DEF Look

LEMMA OwingConclude == ASSUME Counts, Owing, NEW c \in Calls, Conclude(c) PROVE Owing'
<1> DEFINE row == [at |-> now, status |-> resp[c].status, to |-> resp[c].to]
<1>1. UNCHANGED <<now, table, newest>> /\ pc' = [pc EXCEPT ![c] = "store"]
      /\ told' = [told EXCEPT ![c] = row]
  BY DEF Conclude, Tell
<1>2. row.at = now /\ now \in Nat /\ newest[c] \in Nat \cup {Never}
      /\ \A r \in table : r.at \in Nat
  BY TimesAssumption DEF Counts, TypeOK, Times, Rows
<1> HIDE DEF row
<1>3. newest[c] <= now
  <2>1. CASE newest[c] = Never
    BY <1>2, <2>1 DEF Never
  <2>2. CASE newest[c] # Never
    BY <2>2 DEF Owing, Owed
  <2> QED
    BY <2>1, <2>2
<1>4. told'[c] = row
  BY <1>1 DEF Counts, TypeOK
<1>5. Owed(c)'
  BY <1>1, <1>2, <1>3, <1>4 DEF Owing, Owed
<1>6. \A d \in Calls : d # c => Owed(d)'
  BY <1>1, <1>2, OthersOwed DEF Counts, TypeOK
<1> QED
  BY <1>1, <1>5, <1>6 DEF Owing

LEMMA OwingEnd ==
  ASSUME Counts, Owing, NEW c \in Calls, Store(c) \/ NotStored(c) PROVE Owing'
<1>1. /\ UNCHANGED <<now, told, newest>> /\ pc[c] = "store" /\ pc' = [pc EXCEPT ![c] = "done"]
      /\ table \subseteq table' /\ table' \subseteq table \cup {told[c]}
  BY DEF Store, NotStored
<1>2. now \in Nat
  BY TimesAssumption DEF Counts, TypeOK, Times
<1>3. told[c].at <= now /\ newest[c] <= told[c].at
  BY <1>1 DEF Owing, Owed, HasTold
<1>4. \A r \in table' : r.at <= now'
  BY <1>1, <1>3 DEF Owing
<1>5. Owed(c)'
  BY <1>1, <1>3 DEF Owing, Owed
<1>6. \A d \in Calls : d # c => Owed(d)'
  BY <1>1, <1>2, OthersOwed DEF Counts, TypeOK
<1> QED
  BY <1>4, <1>5, <1>6 DEF Owing

\* A call that failed is owed nothing.
LEMMA OwingDatabaseFails ==
  ASSUME Counts, Owing, NEW c \in Calls, DatabaseFails(c) PROVE Owing'
<1>1. /\ UNCHANGED <<now, table, newest>> /\ pc' = [pc EXCEPT ![c] = "failed"]
      /\ \A d \in Calls : d # c => told'[d] = told[d]
  BY DEF DatabaseFails, Tell, Counts, TypeOK
<1>2. now \in Nat
  BY TimesAssumption DEF Counts, TypeOK, Times
<1>3. Owed(c)'
  BY <1>1 DEF Owing, Owed, HasTold, Counts, TypeOK
<1>4. \A d \in Calls : d # c => Owed(d)'
  BY <1>1, <1>2, OthersOwed DEF Counts, TypeOK
<1> QED
  BY <1>1, <1>3, <1>4 DEF Owing

LEMMA OwingStep == Counts /\ Owing /\ [Next]_vars => Owing'
<1> SUFFICES ASSUME Counts, Owing, [Next]_vars PROVE Owing'
  OBVIOUS
<1>1. now \in Nat
  BY TimesAssumption DEF Counts, TypeOK, Times
<1>2. CASE UNCHANGED vars
  BY <1>1, <1>2, OwingKept DEF vars, history, HasTold
<1>3. CASE Tick
  BY <1>1, <1>3, OwingKept DEF Tick, HasTold
<1>4. CASE SiteChanges
  BY <1>1, <1>4, OwingKept DEF SiteChanges, HasTold
<1>5. ASSUME NEW cutoff \in Times, Prune(cutoff) PROVE Owing'
  BY <1>5, OwingPrune
<1>6. ASSUME NEW c \in Calls, Answered(c) \/ Backoff(c) \/ NextAttempt(c) \/ FallBack(c)
      PROVE  Owing'
  <2>1. /\ UNCHANGED <<now, table, told, newest>>
        /\ \E p \in Requesting : pc' = [pc EXCEPT ![c] = p]
    BY <1>6 DEF Answered, Backoff, NextAttempt, FallBack, history, Requesting
  <2>2. \A d \in Calls : HasTold(d)' => HasTold(d)
    BY <2>1 DEF HasTold, Requesting, Counts, TypeOK
  <2> QED
    BY <1>1, <2>1, <2>2, OwingKept
<1> QED
  BY <1>2, <1>3, <1>4, <1>5, <1>6, OwingCheckAccess, OwingLook, OwingConclude, OwingEnd,
     OwingDatabaseFails DEF Next, Proceed

\* Nobody is told an older answer than was stored when the call began.
THEOREM NewestIsTold == Spec => []NeverGoesBack
<1>1. Init => Owing
  BY OwingInit
<1>2. Counts /\ Owing => NeverGoesBack
  <2> SUFFICES ASSUME Counts, Owing, NEW c \in Calls, HasTold(c)
               PROVE  told[c].at >= newest[c]
    BY DEF NeverGoesBack
  <2>1. newest[c] <= told[c].at
    BY DEF Owing, Owed
  <2>2. told[c].at \in Nat /\ newest[c] \in Nat \cup {-1}
    BY TimesAssumption DEF Counts, TypeOK, Rows, Times, Never
  <2> QED
    BY <2>1, <2>2
<1> QED
  BY <1>1, <1>2, OwingStep, CountsInvariant, PTL DEF Spec

----------------------------------------------------------------------------
(* What is told, the Archive did *)

\* A row is stamped soon after the answer it was made from.
RowTrue(row) == GivenBetween(row, row.at - Latency, row.at)

Age(row) == IF HasError(row) THEN Latency ELSE Ttl + Latency

Heard(c) ==
  pc[c] = "heard" =>
    /\ heardAt[c] <= now /\ now <= heardAt[c] + Latency
    /\ \E s \in was[heardAt[c]] : resp[c] = Response(s, method[c])

Truthful(c) ==
  /\ HasTold(c) => /\ toldAt[c] <= now
                   /\ GivenBetween(told[c], toldAt[c] - Age(told[c]), toldAt[c])
  /\ pc[c] = "store" => RowTrue(told[c])

Truth ==
  /\ site \in was[now]
  /\ \A r \in table : RowTrue(r)
  /\ \A c \in Calls : Heard(c) /\ Truthful(c)

\* The past is not changed.
Remembers ==
  /\ now' \in Nat /\ now <= now'
  /\ \A t \in Times : t <= now => was[t] \subseteq was'[t]

LEMMA Numbers ==
  ASSUME Counts
  PROVE  /\ now \in Nat /\ Latency \in Nat /\ Ttl \in Nat
         /\ \A r \in table : r.at \in Nat
         /\ \A c \in Calls : toldAt[c] \in Nat /\ told[c].at \in Nat /\ heardAt[c] \in Nat
         /\ Times \subseteq Nat
BY TimesAssumption DEF Counts, TypeOK, Rows, Times

LEMMA GivenKept ==
  ASSUME now \in Nat, Remembers, NEW row, NEW first, NEW last \in Int, last <= now,
         GivenBetween(row, first, last)
  PROVE  GivenBetween(row, first, last)'
<1>1. PICK t \in Times : /\ first <= t /\ t <= last
                         /\ \E s \in was[t] :
                              /\ Response(s, "GET").status = row.status
                              /\ Response(s, "GET").to = row.to
                              /\ Accessible(row) <=> s \in {"serves", "headless", "offsite"}
  BY DEF GivenBetween
<1>2. t \in Int
  BY TimesAssumption DEF Times
<1>3. was[t] \subseteq was'[t]
  BY <1>1, <1>2 DEF Remembers
<1> QED
  BY <1>1, <1>3 DEF GivenBetween

\* What was given in a time, was given in a longer one.
LEMMA GivenLonger ==
  ASSUME NEW row, NEW first \in Int, NEW last \in Int, NEW from \in Int, NEW to \in Int,
         from <= first, last <= to, GivenBetween(row, first, last)
  PROVE  GivenBetween(row, from, to)
<1>1. \A t \in Times : first <= t /\ t <= last => from <= t /\ t <= to
  BY TimesAssumption DEF Times
<1> QED
  BY <1>1 DEF GivenBetween

LEMMA RowsKept ==
  ASSUME Counts, Owing, Truth, Remembers, NEW r \in table PROVE RowTrue(r)'
<1>1. r.at \in Int /\ r.at <= now /\ now \in Nat
  BY Numbers DEF Owing
<1> QED
  BY <1>1, GivenKept DEF Truth, RowTrue

LEMMA HeardKept ==
  ASSUME Counts, Truth, Remembers, now' = now, NEW d \in Calls,
         pc'[d] = pc[d], method'[d] = method[d], resp'[d] = resp[d], heardAt'[d] = heardAt[d]
  PROVE  Heard(d)'
<1>1. heardAt[d] \in Times
  BY DEF Counts, TypeOK
<1> QED
  BY <1>1 DEF Truth, Heard, Remembers

LEMMA TruthfulKept ==
  ASSUME Counts, Owing, Truth, Remembers, NEW d \in Calls,
         HasTold(d)' => HasTold(d), pc'[d] = "store" => pc[d] = "store",
         told'[d] = told[d], toldAt'[d] = toldAt[d]
  PROVE  Truthful(d)'
<1>1. now \in Nat /\ toldAt[d] \in Int /\ told[d].at \in Int /\ now' \in Nat /\ now <= now'
  BY Numbers DEF Remembers
<1>2. ASSUME HasTold(d)'
      PROVE  toldAt[d] <= now /\ GivenBetween(told[d], toldAt[d] - Age(told[d]), toldAt[d])
  BY <1>2 DEF Truth, Truthful
<1> DEFINE row == told[d]
           last == toldAt[d]
           first == toldAt[d] - Age(told[d])
<1>3. ASSUME NEW ro, NEW fi, NEW la \in Int, la <= now, GivenBetween(ro, fi, la)
      PROVE  GivenBetween(ro, fi, la)'
  BY <1>1, <1>3, GivenKept
<1>4. PICK ro, fi, la : ro = row /\ fi = first /\ la = last
  OBVIOUS
<1>5. ASSUME HasTold(d)' PROVE toldAt'[d] <= now' /\ GivenBetween(ro, fi, la)'
  BY <1>1, <1>2, <1>3, <1>4, <1>5
<1>6. HasTold(d)' => (/\ toldAt[d] <= now
                      /\ GivenBetween(told[d], toldAt[d] - Age(told[d]), toldAt[d]))'
  BY <1>4, <1>5 DEF GivenBetween, Age, HasError
<1>7. ASSUME pc'[d] = "store" PROVE RowTrue(told[d])'
  <2>1. RowTrue(ro) /\ ro.at <= now /\ ro.at \in Int
    BY <1>1, <1>4, <1>7 DEF Truth, Truthful, Owing, Owed, HasTold
  <2>2. RowTrue(ro)'
    BY <1>3, <2>1 DEF RowTrue
  <2> QED
    BY <1>4, <2>2 DEF RowTrue, GivenBetween, Accessible
<1> QED
  BY <1>6, <1>7 DEF Truthful

LEMMA TruthInit == Init => Truth
<1> SUFFICES ASSUME Init PROVE Truth
  OBVIOUS
<1>1. 0 \in Times
  BY TimesAssumption DEF Times
<1> QED
  BY <1>1 DEF Init, Truth, Heard, Truthful, HasTold

LEMMA TruthTick == ASSUME Counts, Owing, Truth, Tick PROVE Truth'
<1>1. /\ now < MaxTime /\ now' = now + 1 /\ was' = [was EXCEPT ![now + 1] = {site}]
      /\ UNCHANGED <<site, table, pc, method, attempt, resp, heardAt, told, toldAt>>
  BY DEF Tick, request
<1>2. now \in Nat /\ now' \in Times /\ was \in [Times -> SUBSET Sites]
  BY <1>1, TimesAssumption DEF Counts, TypeOK, Times
<1>3. ASSUME NEW t \in Times, t <= now PROVE was'[t] = was[t] /\ t # now + 1
  BY <1>1, <1>2, <1>3, TimesAssumption DEF Times
<1>4. Remembers
  BY <1>1, <1>2, <1>3 DEF Remembers
<1>5. site' \in was'[now']
  BY <1>1, <1>2
<1>6. ASSUME NEW c \in Calls PROVE Heard(c)'
  <2>1. heardAt[c] \in Times /\ heardAt[c] \in Nat /\ Latency \in Nat
    BY Numbers DEF Counts, TypeOK
  <2>2. CASE pc[c] = "heard"
    <3>1. now < heardAt[c] + Latency
      BY <2>2 DEF Tick
    <3>2. heardAt[c] <= now /\ \E s \in was[heardAt[c]] : resp[c] = Response(s, method[c])
      BY <2>2 DEF Truth, Heard
    <3>3. now + 1 <= heardAt[c] + Latency /\ heardAt[c] <= now + 1
      BY <1>2, <2>1, <3>1, <3>2
    <3> QED
      BY <1>1, <1>3, <2>1, <3>2, <3>3 DEF Heard
  <2>3. CASE pc[c] # "heard"
    BY <1>1, <2>3 DEF Heard
  <2> QED
    BY <2>2, <2>3
<1>7. \A c \in Calls : Truthful(c)'
  BY <1>1, <1>4, TruthfulKept DEF HasTold
<1>8. \A r \in table' : RowTrue(r)'
  BY <1>1, <1>4, RowsKept
<1> QED
  BY <1>5, <1>6, <1>7, <1>8 DEF Truth

\* Steps that let the Archive and the other calls be
LEMMA TruthKept ==
  ASSUME Counts, Owing, Truth, Remembers, now' = now, table' \subseteq table,
         site' \in was'[now], UNCHANGED <<told, toldAt>>,
         \A d \in Calls : (HasTold(d)' => HasTold(d)) /\ (pc'[d] = "store" => pc[d] = "store"),
         \A d \in Calls : Heard(d)'
  PROVE  Truth'
<1>1. \A d \in Calls : Truthful(d)'
  BY TruthfulKept
<1>2. \A r \in table' : RowTrue(r)'
  BY RowsKept
<1> QED
  BY <1>1, <1>2 DEF Truth

LEMMA SameRemembers ==
  ASSUME Counts, now' = now, was' = was PROVE Remembers
BY Numbers DEF Remembers

LEMMA TruthSiteChanges == ASSUME Counts, Owing, Truth, SiteChanges PROVE Truth'
<1>1. /\ was' = [was EXCEPT ![now] = @ \cup {site'}]
      /\ UNCHANGED <<now, table, pc, method, attempt, resp, heardAt, told, toldAt>>
  BY DEF SiteChanges, request
<1>2. now \in Nat /\ now \in Times /\ was \in [Times -> SUBSET Sites]
  BY Numbers DEF Counts, TypeOK
<1>3. \A t \in Times : was[t] \subseteq was'[t]
  BY <1>1, <1>2
<1>4. Remembers /\ site' \in was'[now]
  BY <1>1, <1>2, <1>3 DEF Remembers
<1>5. \A d \in Calls : Heard(d)'
  BY <1>1, <1>4, HeardKept
<1> QED
  BY <1>1, <1>4, <1>5, TruthKept DEF HasTold

\* Steps of one call that tell nothing and hear nothing
LEMMA TruthSilent ==
  ASSUME Counts, Owing, Truth, NEW c \in Calls, NEW p \in {"look", "send", "backoff"},
         pc' = [pc EXCEPT ![c] = p], UNCHANGED <<now, site, table, told, toldAt, was>>,
         \A d \in Calls : d # c => /\ method'[d] = method[d] /\ resp'[d] = resp[d]
                                   /\ heardAt'[d] = heardAt[d]
  PROVE  Truth'
<1>1. Remembers /\ site' \in was'[now]
  BY SameRemembers DEF Truth
<1>2. pc'[c] = p /\ \A d \in Calls : d # c => pc'[d] = pc[d]
  BY DEF Counts, TypeOK
<1>3. \A d \in Calls : (HasTold(d)' => HasTold(d)) /\ (pc'[d] = "store" => pc[d] = "store")
  BY <1>2 DEF HasTold
<1>4. \A d \in Calls : d # c => Heard(d)'
  BY <1>1, <1>2, HeardKept
<1>5. Heard(c)'
  BY <1>2 DEF Heard
<1> QED
  BY <1>1, <1>3, <1>4, <1>5, TruthKept

LEMMA TruthAnswered == ASSUME Counts, Owing, Truth, NEW c \in Calls, Answered(c) PROVE Truth'
<1> DEFINE r == Response(site, method[c])
<1>1. /\ pc' = [pc EXCEPT ![c] = "heard"] /\ resp' = [resp EXCEPT ![c] = r]
      /\ heardAt' = [heardAt EXCEPT ![c] = now]
      /\ UNCHANGED <<now, site, table, method, told, was, toldAt>>
  BY DEF Answered
<1>2. Remembers /\ site \in was[now]
  BY <1>1, SameRemembers DEF Truth
<1>3. \A d \in Calls : d # c => Heard(d)'
  BY <1>1, <1>2, HeardKept DEF Counts, TypeOK
<1>4. Heard(c)'
  <2>1. heardAt'[c] = now /\ resp'[c] = r /\ now \in Nat /\ Latency \in Nat
    BY <1>1, Numbers DEF Counts, TypeOK
  <2>2. heardAt'[c] <= now' /\ now' <= heardAt'[c] + Latency
    BY <1>1, <2>1
  <2>3. \E s \in was'[heardAt'[c]] : resp'[c] = Response(s, method'[c])
    BY <1>1, <1>2, <2>1
  <2> QED
    BY <2>2, <2>3 DEF Heard
<1>5. \A d \in Calls : (HasTold(d)' => HasTold(d)) /\ (pc'[d] = "store" => pc[d] = "store")
  BY <1>1 DEF HasTold, Counts, TypeOK
<1> QED
  BY <1>1, <1>2, <1>3, <1>4, <1>5, TruthKept

LEMMA TruthLook == ASSUME Counts, Owing, Truth, NEW c \in Calls, Look(c) PROVE Truth'
<1>1. UNCHANGED <<now, site, table, method, attempt, resp, heardAt, was>>
  BY DEF Look, request
<1>2. CASE \E r \in recent_access_check : Tell(c, r) /\ pc' = [pc EXCEPT ![c] = "done"]
  <2>1. PICK r \in recent_access_check : Tell(c, r) /\ pc' = [pc EXCEPT ![c] = "done"]
    BY <1>2
  <2>2. r \in table /\ r.at >= now - Ttl /\ ~HasError(r)
    BY <2>1 DEF recent_access_check, Reusable
  <2>3. /\ r.at \in Nat /\ r.at <= now /\ now \in Nat /\ Ttl \in Nat /\ Latency \in Nat
        /\ Age(r) = Ttl + Latency
    BY <2>2, Numbers DEF Owing, Age
  <2>4. GivenBetween(r, r.at - Latency, r.at)
    BY <2>2 DEF Truth, RowTrue
  <2>5. now - Age(r) <= r.at - Latency /\ now - Age(r) \in Int /\ r.at - Latency \in Int
    BY <2>2, <2>3
  <2>6. GivenBetween(r, now - Age(r), now)
    BY <2>3, <2>4, <2>5, GivenLonger
  <2>7. Remembers /\ site' \in was'[now']
    BY <1>1, SameRemembers DEF Truth
  <2>8. GivenBetween(r, now - Age(r), now)'
    BY <1>1, <2>6 DEF GivenBetween, Age, HasError
  <2>9. /\ pc'[c] = "done" /\ told'[c] = r /\ toldAt'[c] = now
        /\ \A d \in Calls : d # c => /\ pc'[d] = pc[d] /\ told'[d] = told[d]
                                     /\ toldAt'[d] = toldAt[d]
    BY <2>1 DEF Tell, Counts, TypeOK
  <2>10. Truthful(c)'
    BY <1>1, <2>3, <2>8, <2>9 DEF Truthful, GivenBetween, Age, HasError
  <2>11. \A d \in Calls : d # c => Truthful(d)'
    BY <2>7, <2>9, TruthfulKept DEF HasTold
  <2>12. \A d \in Calls : Heard(d)'
    BY <1>1, <2>9 DEF Heard, Truth
  <2>13. \A q \in table' : RowTrue(q)'
    BY <1>1, <2>7, RowsKept
  <2> QED
    BY <2>7, <2>10, <2>11, <2>12, <2>13 DEF Truth
<1>3. CASE pc' = [pc EXCEPT ![c] = "send"] /\ UNCHANGED <<told, toldAt>>
  BY <1>1, <1>3, TruthSilent
<1> QED
  BY <1>2, <1>3 DEF Look

\* What is concluded is what a GET would have been answered.
LEMMA TruthConclude == ASSUME Counts, Owing, Truth, NEW c \in Calls, Conclude(c) PROVE Truth'
<1> DEFINE row == [at |-> now, status |-> resp[c].status, to |-> resp[c].to]
<1>1. /\ pc[c] = "heard" /\ (method[c] = "GET" \/ resp[c].status = "ok")
      /\ pc' = [pc EXCEPT ![c] = "store"] /\ Request(c, "HEAD")
      /\ told' = [told EXCEPT ![c] = row] /\ toldAt' = [toldAt EXCEPT ![c] = now]
      /\ UNCHANGED <<now, site, table, was>>
  BY DEF Conclude, Final, Tell
<1>2. "HEAD" \in Methods /\ TypeOK
  BY DEF Methods, Counts
<1>3. /\ heardAt[c] \in Times /\ heardAt[c] \in Nat /\ now \in Nat /\ Latency \in Nat
      /\ Ttl \in Nat /\ heardAt[c] <= now /\ now <= heardAt[c] + Latency
  BY <1>1, <1>2, Numbers DEF Truth, Heard, TypeOK
<1>4. PICK s \in was[heardAt[c]] : resp[c] = Response(s, method[c])
  BY <1>1 DEF Truth, Heard
<1>5. s \in Sites /\ method[c] \in Methods
  BY <1>2, <1>3, <1>4 DEF TypeOK
<1>6. row.at = now /\ row.status = resp[c].status /\ row.to = resp[c].to
  OBVIOUS
<1> HIDE DEF row
<1>7. Response(s, "GET") = resp[c]
  BY <1>1, <1>4, <1>5, SitesAssumption DEF Response, Methods, NoResponse
<1>8. Accessible(row) <=> s \in {"serves", "headless", "offsite"}
  BY <1>5, <1>6, <1>7, SitesAssumption DEF Accessible, Response, NoResponse
<1>9. now - Latency <= heardAt[c]
  BY <1>3
<1>10. GivenBetween(row, now - Latency, now)
  BY <1>3, <1>4, <1>6, <1>7, <1>8, <1>9 DEF GivenBetween
<1>11. Age(row) \in Int /\ Latency <= Age(row)
  BY <1>3 DEF Age
<1>12. now - Age(row) <= now - Latency /\ now - Age(row) \in Int /\ now - Latency \in Int
  BY <1>3, <1>11
<1>13. GivenBetween(row, now - Age(row), now)
  BY <1>3, <1>10, <1>12, GivenLonger
<1>14. Remembers /\ site' \in was'[now']
  BY <1>1, SameRemembers DEF Truth
<1>15. /\ pc'[c] = "store" /\ told'[c] = row /\ toldAt'[c] = now
       /\ \A d \in Calls : d # c => /\ pc'[d] = pc[d] /\ told'[d] = told[d]
                                    /\ toldAt'[d] = toldAt[d]
  BY <1>1, <1>2 DEF TypeOK
<1>16. Truthful(c)'
  BY <1>1, <1>3, <1>6, <1>10, <1>13, <1>15 DEF Truthful, RowTrue, GivenBetween, Age, HasError
<1>17. \A d \in Calls : d # c => Truthful(d)'
  BY <1>14, <1>15, TruthfulKept DEF HasTold
<1>18. \A d \in Calls : d # c => Heard(d)'
  BY <1>1, <1>2, <1>14, <1>15, RequestTyped, HeardKept
<1>19. Heard(c)'
  BY <1>15 DEF Heard
<1>20. \A q \in table' : RowTrue(q)'
  BY <1>1, <1>14, RowsKept
<1> QED
  BY <1>14, <1>16, <1>17, <1>18, <1>19, <1>20 DEF Truth

LEMMA TruthEnd ==
  ASSUME Counts, Owing, Truth, NEW c \in Calls, Store(c) \/ NotStored(c) PROVE Truth'
<1>1. /\ pc[c] = "store" /\ pc' = [pc EXCEPT ![c] = "done"]
      /\ table' \subseteq table \cup {told[c]}
      /\ UNCHANGED <<now, site, method, attempt, resp, heardAt, told, was, toldAt>>
  BY DEF Store, NotStored, request
<1>2. Remembers /\ site' \in was'[now']
  BY <1>1, SameRemembers DEF Truth
<1>3. pc'[c] = "done" /\ \A d \in Calls : d # c => pc'[d] = pc[d]
  BY <1>1 DEF Counts, TypeOK
<1>4. \A d \in Calls : HasTold(d)' => HasTold(d)
  BY <1>1, <1>3 DEF HasTold
<1>5. \A d \in Calls : pc'[d] = "store" => pc[d] = "store"
  BY <1>3
<1>6. \A d \in Calls : Truthful(d)'
  BY <1>1, <1>2, <1>4, <1>5, TruthfulKept
<1>7. \A d \in Calls : Heard(d)'
  BY <1>1, <1>3 DEF Heard, Truth
<1>8. RowTrue(told[c])
  BY <1>1 DEF Truth, Truthful
<1>9. \A q \in table' : RowTrue(q)
  BY <1>1, <1>8 DEF Truth
<1>10. \A q \in table' : RowTrue(q)'
  BY <1>1, <1>9 DEF RowTrue, GivenBetween
<1> QED
  BY <1>2, <1>6, <1>7, <1>10 DEF Truth

\* A call that failed tells nothing of the Archive.
LEMMA TruthDatabaseFails ==
  ASSUME Counts, Owing, Truth, NEW c \in Calls, DatabaseFails(c) PROVE Truth'
<1>1. /\ pc' = [pc EXCEPT ![c] = "failed"]
      /\ UNCHANGED <<now, site, table, method, attempt, resp, heardAt, was>>
      /\ \A d \in Calls : d # c => told'[d] = told[d] /\ toldAt'[d] = toldAt[d]
  BY DEF DatabaseFails, Tell, request, Counts, TypeOK
<1>2. pc'[c] = "failed" /\ \A d \in Calls : d # c => pc'[d] = pc[d]
  BY <1>1 DEF Counts, TypeOK
<1>3. Remembers /\ site' \in was'[now']
  BY <1>1, SameRemembers DEF Truth
<1>4. \A d \in Calls : Heard(d)'
  BY <1>1, <1>2 DEF Heard, Truth
<1>5. Truthful(c)'
  BY <1>2 DEF Truthful, HasTold
<1>6. ASSUME NEW d \in Calls, d # c PROVE Truthful(d)'
  <2>1. (HasTold(d)' => HasTold(d)) /\ (pc'[d] = "store" => pc[d] = "store")
    BY <1>2, <1>6 DEF HasTold
  <2> QED
    BY <1>1, <1>3, <1>6, <2>1, TruthfulKept
<1>7. \A q \in table' : RowTrue(q)'
  BY <1>1, <1>3, RowsKept
<1> QED
  BY <1>3, <1>4, <1>5, <1>6, <1>7 DEF Truth

LEMMA TruthStep == Counts /\ Owing /\ Truth /\ [Next]_vars => Truth'
<1> SUFFICES ASSUME Counts, Owing, Truth, [Next]_vars PROVE Truth'
  OBVIOUS
<1>1. CASE UNCHANGED vars
  <2>1. UNCHANGED <<now, site, table, pc, method, resp, heardAt, told, was, toldAt>>
    BY <1>1 DEF vars, request, history
  <2>2. Remembers /\ site' \in was'[now]
    BY <2>1, SameRemembers DEF Truth
  <2> QED
    BY <2>1, <2>2, TruthKept, HeardKept DEF HasTold
<1>2. ASSUME NEW cutoff \in Times, Prune(cutoff) PROVE Truth'
  <2>1. /\ UNCHANGED <<now, site, pc, method, resp, heardAt, told, was, toldAt>>
        /\ table' \subseteq table
    BY <1>2 DEF Prune, request
  <2>2. Remembers /\ site' \in was'[now]
    BY <2>1, SameRemembers DEF Truth
  <2> QED
    BY <2>1, <2>2, TruthKept, HeardKept DEF HasTold
<1>3. ASSUME NEW c \in Calls, CheckAccess(c) PROVE Truth'
  <2>1. PICK first \in {"look", "send"} : pc' = [pc EXCEPT ![c] = first]
    BY <1>3 DEF CheckAccess
  <2>2. /\ UNCHANGED <<now, site, table, told, was, toldAt>>
        /\ Request(c, "HEAD") /\ "HEAD" \in Methods /\ TypeOK
    BY <1>3 DEF CheckAccess, Methods, Counts
  <2>3. \A d \in Calls : d # c => /\ method'[d] = method[d] /\ resp'[d] = resp[d]
                                  /\ heardAt'[d] = heardAt[d]
    BY <2>2, RequestTyped
  <2> QED
    BY <2>1, <2>2, <2>3, TruthSilent
<1>4. ASSUME NEW c \in Calls, FallBack(c) PROVE Truth'
  <2>1. /\ UNCHANGED <<now, site, table, told, was, toldAt>>
        /\ pc' = [pc EXCEPT ![c] = "send"]
        /\ Request(c, "GET") /\ "GET" \in Methods /\ TypeOK
    BY <1>4 DEF FallBack, Methods, Counts, history
  <2>2. \A d \in Calls : d # c => /\ method'[d] = method[d] /\ resp'[d] = resp[d]
                                  /\ heardAt'[d] = heardAt[d]
    BY <2>1, RequestTyped
  <2> QED
    BY <2>1, <2>2, TruthSilent
<1>5. ASSUME NEW c \in Calls, Backoff(c) \/ NextAttempt(c) PROVE Truth'
  <2>1. /\ UNCHANGED <<now, site, table, told, method, resp, heardAt, was, toldAt>>
        /\ \E p \in {"send", "backoff"} : pc' = [pc EXCEPT ![c] = p]
    BY <1>5 DEF Backoff, NextAttempt, history, request
  <2> QED
    BY <2>1, TruthSilent
<1> QED
  BY <1>1, <1>2, <1>3, <1>4, <1>5, TruthTick, TruthSiteChanges, TruthLook, TruthAnswered,
     TruthConclude, TruthEnd, TruthDatabaseFails DEF Next, Proceed

\* What a check tells of the Archive, it did and said within the TTL; and every row of the
\* table is something the Archive did and said, also where the database failed some calls.
THEOREM ToldIsTrue == Spec => []TellsTheTruth
<1>1. Truth => TellsTheTruth
  <2> SUFFICES ASSUME Truth PROVE TellsTheTruth
    OBVIOUS
  <2>1. \A r \in table : GivenBetween(r, r.at - Latency, r.at)
    BY DEF Truth, RowTrue
  <2>2. \A c \in Calls :
          HasTold(c) => GivenBetween(told[c], toldAt[c] - Age(told[c]), toldAt[c])
    BY DEF Truth, Truthful
  <2> QED
    BY <2>1, <2>2 DEF TellsTheTruth, Age
<1>2. Init => Owing /\ Truth
  BY OwingInit, TruthInit
<1> QED
  BY <1>1, <1>2, OwingStep, TruthStep, CountsInvariant, PTL DEF Spec
=============================================================================
