--------------------------- MODULE HistoryProofs ---------------------------
(***************************************************************************)
(* What prune leaves of a report, and which of two results a report tells, *)
(* for any calls, files and times; that the tables stay typed; and, of the *)
(* database that holds them (Migrations), that its tables are those of the *)
(* version it states, for any processes that open it and any packages.     *)
(***************************************************************************)
EXTENDS History, FiniteSetTheorems, TLAPS

Row == [id : Nat, key : Keys, outcome : Outcomes, at : Nat, seen : Nat]

\* What is stored has a time, and rows are numbered in the order they are stored.
Numbered ==
  /\ now \in Nat
  /\ lastRow \in Nat
  /\ rows \subseteq Row
  /\ \A r \in rows : r.seen < r.id /\ r.id <= lastRow /\ r.at <= now
  /\ seen \in [Calls -> Nat]
  /\ \A c \in Calls : seen[c] <= lastRow
  /\ pc \in [Calls -> {"idle", "find", "ask", "store"}]
  /\ res \in [Calls -> [key : Keys, outcome : Outcomes, capture : Captures \cup {NoCapture},
                        at : Nat]]
  /\ \A c \in Calls : res[c].at <= now
  /\ \A c \in Calls : arg[c].key \in Keys
  /\ arg \in [Calls -> Args]

\* A result is not older than what was stored when its call began.
Stamped ==
  /\ \A c \in Calls : \A r \in rows :
       pc[c] = "store" /\ r.id <= seen[c] => r.at <= res[c].at
  /\ \A q \in rows : \A r \in rows : r.id <= q.seen => r.at <= q.at

\* Every submission has a time.
Dated == \A i \in DOMAIN subs : subs[i].updated \in Nat

IInv == Numbered /\ Stamped /\ Dated

LEMMA InitEstablishes == Init => IInv
<1> SUFFICES ASSUME Init PROVE IInv
  OBVIOUS
<1>1. /\ NoResult \in [key : Keys, outcome : Outcomes, capture : Captures \cup {NoCapture}, at : Nat]
      /\ NoResult.at = 0
  BY DEF NoResult, Keys, Outcomes
<1>2. NoArg \in Args /\ NoArg.key \in Keys
  BY BoundsAssumption DEF NoArg, NoSubmission, Args, Keys
<1> QED
  BY <1>1, <1>2 DEF Init, IInv, Numbered, Stamped, Dated

----------------------------------------------------------------------------
(* Steps that store nothing *)

LEMMA TickPreserves == ASSUME IInv, Tick PROVE IInv'
<1>1. now' = now + 1 /\ UNCHANGED <<subs, lastRow, rows, pc, arg, res, seen>>
  BY DEF Tick, tables, calls
<1>2. now \in Nat /\ now' \in Nat /\ now <= now'
  BY <1>1 DEF IInv, Numbered
<1>3. \A r \in rows : r.at \in Nat /\ r.at <= now
  BY DEF IInv, Numbered, Row
<1>4. \A r \in rows : r.at <= now'
  BY <1>1, <1>2, <1>3
<1>5. Numbered'
  BY <1>1, <1>2, <1>4 DEF IInv, Numbered
<1>6. Stamped' /\ Dated'
  BY <1>1 DEF IInv, Stamped, Dated
<1> QED
  BY <1>5, <1>6 DEF IInv

LEMMA SubmittedPreserves == ASSUME IInv, Submitted PROVE IInv'
<1>1. UNCHANGED <<now, lastRow, rows, pc, arg, res, seen>>
  BY DEF Submitted, calls
<1>2. Numbered' /\ Stamped'
  BY <1>1 DEF IInv, Numbered, Stamped
<1>3. Dated'
  <2>1. PICK s \in {"pending", "not_submitted"} :
          subs' = [i \in DOMAIN subs \cup {Len(jobs')} |->
                     IF i \in DOMAIN subs THEN subs[i]
                     ELSE [status |-> s, submitted |-> now, updated |-> now]]
    BY DEF Submitted
  <2> DEFINE n == Len(jobs')
             new == [status |-> s, submitted |-> now, updated |-> now]
  <2>2. subs' = [i \in DOMAIN subs \cup {n} |-> IF i \in DOMAIN subs THEN subs[i] ELSE new]
    BY <2>1
  <2>3. new.updated \in Nat
    BY DEF IInv, Numbered
  <2> HIDE DEF n, new
  <2>4. ASSUME NEW i \in DOMAIN subs' PROVE subs'[i].updated \in Nat
    <3>1. (subs'[i] = subs[i] /\ i \in DOMAIN subs) \/ subs'[i] = new
      BY <2>2, <2>4
    <3> QED
      BY <2>3, <3>1 DEF IInv, Dated
  <2> QED
    BY <2>4 DEF Dated
<1> QED
  BY <1>2, <1>3 DEF IInv

LEMMA ResolvedPreserves ==
  ASSUME IInv, NEW i \in DOMAIN subs, Resolved(i) PROVE IInv'
<1>1. UNCHANGED <<now, lastRow, rows, pc, arg, res, seen>>
  BY DEF Resolved, calls
<1>2. Numbered' /\ Stamped'
  BY <1>1 DEF IInv, Numbered, Stamped
<1>3. Dated'
  <2>1. PICK s \in {"success", "error"} :
          subs' = [subs EXCEPT ![i] = [status |-> s, submitted |-> @.submitted, updated |-> now]]
    BY DEF Resolved
  <2>2. ASSUME NEW j \in DOMAIN subs' PROVE subs'[j].updated \in Nat
    <3>1. CASE j = i
      BY <2>1, <3>1 DEF IInv, Dated, Numbered
    <3>2. CASE j # i
      BY <2>1, <2>2, <3>2 DEF IInv, Dated
    <3> QED
      BY <3>1, <3>2
  <2> QED
    BY <2>2 DEF Dated
<1> QED
  BY <1>2, <1>3 DEF IInv

LEMMA PrunePreserves ==
  ASSUME IInv, NEW cutoff, Prune(cutoff) PROVE IInv'
<1>1. UNCHANGED <<now, lastRow, pc, arg, res, seen>> /\ rows' \subseteq rows
  BY DEF Prune, calls
<1>2. Numbered' /\ Stamped'
  BY <1>1 DEF IInv, Numbered, Stamped
<1>3. subs' = [i \in DOMAIN subs \ PrunedSubs(cutoff) |-> subs[i]]
  BY DEF Prune
<1>4. Dated'
  BY <1>3 DEF IInv, Dated
<1> QED
  BY <1>2, <1>4 DEF IInv

----------------------------------------------------------------------------
(* The steps of a call *)

LEMMA BeginPreserves == ASSUME IInv, NEW c \in Calls, Begin(c) PROVE IInv'
<1>1. /\ UNCHANGED <<now, subs, lastRow, rows, res>>
      /\ pc' = [pc EXCEPT ![c] = "find"] /\ seen' = [seen EXCEPT ![c] = lastRow]
  BY DEF Begin, tables
<1>2. PICK a \in Arguments : \/ arg' = [arg EXCEPT ![c] = a]
                             \/ arg' = [arg EXCEPT ![c] = Item(a)]
  BY DEF Begin
<1>3. a \in Args /\ Item(a) \in Args
  BY DEF Arguments, Item, Args
<1>4. arg' \in [Calls -> Args]
  BY <1>2, <1>3 DEF IInv, Numbered
<1>5. \A d \in Calls : arg'[d].key \in Keys
  BY <1>4 DEF Args
<1>6. Numbered'
  <2>1. /\ seen' \in [Calls -> Nat] /\ \A d \in Calls : seen'[d] <= lastRow
        /\ pc' \in [Calls -> {"idle", "find", "ask", "store"}]
    BY <1>1 DEF IInv, Numbered
  <2> QED
    BY <1>1, <1>4, <1>5, <2>1 DEF IInv, Numbered
<1>7. Stamped' /\ Dated'
  BY <1>1 DEF IInv, Stamped, Dated, Numbered
<1> QED
  BY <1>6, <1>7 DEF IInv

LEMMA ConcludePreserves ==
  ASSUME IInv, NEW c \in Calls, NEW key \in Keys, NEW outcome \in Outcomes,
         NEW capture \in Captures \cup {NoCapture},
         Conclude(c, Result(key, outcome, capture))
  PROVE  IInv'
<1> DEFINE new == Result(key, outcome, capture)
<1>1. /\ UNCHANGED <<now, subs, lastRow, rows, seen>>
      /\ pc' = [pc EXCEPT ![c] = "store"] /\ res' = [res EXCEPT ![c] = new]
      /\ arg' = [arg EXCEPT ![c] = NoArg]
  BY DEF Conclude, tables
<1>2. /\ new \in [key : Keys, outcome : Outcomes, capture : Captures \cup {NoCapture}, at : Nat]
      /\ new.at = now
  BY DEF Result, IInv, Numbered
<1> HIDE DEF new
<1>3. NoArg \in Args /\ NoArg.key \in Keys
  BY BoundsAssumption DEF NoArg, NoSubmission, Args, Keys
<1>4. Numbered'
  BY <1>1, <1>2, <1>3 DEF IInv, Numbered
<1>5. ASSUME NEW d \in Calls, NEW r \in rows, pc'[d] = "store", r.id <= seen[d]
      PROVE  r.at <= res'[d].at
  <2>1. CASE d = c
    BY <1>1, <1>2, <2>1 DEF IInv, Numbered
  <2>2. CASE d # c
    BY <1>1, <1>5, <2>2 DEF IInv, Numbered, Stamped
  <2> QED
    BY <2>1, <2>2
<1>6. Stamped'
  BY <1>1, <1>5 DEF IInv, Stamped
<1>7. Dated'
  BY <1>1 DEF IInv, Dated
<1> QED
  BY <1>4, <1>6, <1>7 DEF IInv

LEMMA VerdictIsOutcome ==
  ASSUME NEW capture \in Captures \cup {NoCapture}, NEW status
  PROVE  Verdict(capture, status) \in Outcomes
BY DigestAssumption DEF Verdict, Outcomes, Captures

LEMMA FindPreserves == ASSUME IInv, NEW c \in Calls, Find(c) PROVE IInv'
<1>1. PICK capture \in Finds(c) :
        \/ /\ pc' = [pc EXCEPT ![c] = "ask"]
           /\ UNCHANGED <<now, tables, begun, arg, res, seen>>
        \/ Conclude(c, Result(arg[c].key, Verdict(capture, arg[c].submission.status), capture))
  BY DEF Find
<1>2. CASE pc' = [pc EXCEPT ![c] = "ask"] /\ UNCHANGED <<now, tables, begun, arg, res, seen>>
  BY <1>2 DEF IInv, Numbered, Stamped, Dated, tables
<1>3. capture \in Captures \cup {NoCapture} /\ arg[c].key \in Keys
  <2>1. _selection(arg[c]) \subseteq Captures
    <3>1. arg[c] \in Args
      BY DEF IInv, Numbered
    <3>2. arg[c].submission.job \in Captures
      BY <3>1 DEF Args, Captures
    <3>3. 0 \in Captures
      BY BoundsAssumption DEF Captures
    <3> QED
      BY <3>2, <3>3 DEF _selection
  <2> QED
    BY <2>1 DEF Finds, IInv, Numbered
<1>4. Verdict(capture, arg[c].submission.status) \in Outcomes
  BY <1>3, VerdictIsOutcome
<1> QED
  BY <1>1, <1>2, <1>3, <1>4, ConcludePreserves

LEMMA AskPreserves == ASSUME IInv, NEW c \in Calls, Ask(c) PROVE IInv'
<1>1. PICK status : Conclude(c, Result(arg[c].key, Verdict(NoCapture, status), NoCapture))
  BY DEF Ask
<1>2. Verdict(NoCapture, status) \in Outcomes /\ arg[c].key \in Keys
  BY VerdictIsOutcome DEF IInv, Numbered
<1> QED
  BY <1>1, <1>2, ConcludePreserves

LEMMA EndsPreserve ==
  ASSUME IInv, NEW c \in Calls, FindFails(c) \/ HashFails(c) \/ Probed(c)
  PROVE  IInv'
<1>1. CASE FindFails(c)
  <2>1. arg[c].key \in Keys /\ "LOOKUP_ERROR" \in Outcomes
    BY DEF IInv, Numbered, Outcomes
  <2> QED
    BY <1>1, <2>1, ConcludePreserves DEF FindFails
<1>2. CASE Probed(c)
  <2>1. PICK outcome \in {"accessible", "inaccessible"} :
          Conclude(c, Result(Probe, outcome, NoCapture))
    BY <1>2 DEF Probed
  <2>2. Probe \in Keys /\ outcome \in Outcomes
    BY DEF Keys, Outcomes
  <2> QED
    BY <2>1, <2>2, ConcludePreserves
<1>3. CASE HashFails(c)
  <2>1. NoFile \in Keys /\ "FILE_ERROR" \in Outcomes
    BY DEF Keys, Outcomes
  <2>2. NoCapture \in Captures \cup {NoCapture}
    OBVIOUS
  <2> QED
    BY <1>3, <2>1, <2>2, ConcludePreserves DEF HashFails
<1> QED
  BY <1>1, <1>2, <1>3

LEMMA NotStoredPreserves == ASSUME IInv, NEW c \in Calls, NotStored(c) PROVE IInv'
<1>1. /\ UNCHANGED <<now, subs, lastRow, rows, arg>> /\ pc' = [pc EXCEPT ![c] = "idle"]
      /\ res' = [res EXCEPT ![c] = NoResult] /\ seen' = [seen EXCEPT ![c] = 0]
  BY DEF NotStored, Return, tables
<1>2. /\ NoResult \in [key : Keys, outcome : Outcomes, capture : Captures \cup {NoCapture}, at : Nat]
      /\ NoResult.at = 0
  BY DEF NoResult, Keys, Outcomes
<1>3. Numbered'
  BY <1>1, <1>2 DEF IInv, Numbered
<1>4. Stamped' /\ Dated'
  BY <1>1 DEF IInv, Stamped, Dated, Numbered
<1> QED
  BY <1>3, <1>4 DEF IInv

LEMMA StorePreserves == ASSUME IInv, NEW c \in Calls, Store(c) PROVE IInv'
<1> DEFINE new == [id |-> lastRow + 1, key |-> res[c].key, outcome |-> res[c].outcome,
                   at |-> res[c].at, seen |-> seen[c]]
<1>1. /\ UNCHANGED <<now, subs, arg>> /\ pc' = [pc EXCEPT ![c] = "idle"] /\ pc[c] = "store"
      /\ res' = [res EXCEPT ![c] = NoResult] /\ seen' = [seen EXCEPT ![c] = 0]
      /\ lastRow' = lastRow + 1 /\ rows' = rows \cup {new}
  BY DEF Store, Return, NextId
<1>2. /\ new \in Row /\ new.at <= now /\ new.seen < new.id /\ new.id = lastRow + 1
      /\ new.at = res[c].at /\ new.seen = seen[c]
  BY DEF IInv, Numbered, Row
<1> HIDE DEF new
<1>3. NoResult \in [key : Keys, outcome : Outcomes, capture : Captures \cup {NoCapture}, at : Nat]
  BY DEF NoResult, Keys, Outcomes
<1>4. \A r \in rows : r.id \in Nat /\ r.id <= lastRow /\ r.seen \in Nat /\ r.seen <= lastRow
  BY DEF IInv, Numbered, Row
<1>5. \A r \in rows' : r.seen < r.id /\ r.id <= lastRow' /\ r.at <= now'
  BY <1>1, <1>2, <1>4 DEF IInv, Numbered
<1>6. /\ lastRow' \in Nat /\ rows' \subseteq Row /\ now' \in Nat
      /\ seen' \in [Calls -> Nat] /\ \A d \in Calls : seen'[d] <= lastRow'
  BY <1>1, <1>2 DEF IInv, Numbered
<1>7. /\ \A d \in Calls : res'[d].at <= now'
      /\ res' \in [Calls -> [key : Keys, outcome : Outcomes,
                            capture : Captures \cup {NoCapture}, at : Nat]]
  BY <1>1, <1>3 DEF IInv, Numbered, NoResult
<1>8. Numbered'
  BY <1>1, <1>5, <1>6, <1>7 DEF IInv, Numbered
<1>9. ASSUME NEW d \in Calls, NEW r \in rows', pc'[d] = "store", r.id <= seen'[d]
      PROVE  r.at <= res'[d].at
  <2>1. d # c /\ res'[d] = res[d] /\ pc[d] = "store" /\ seen'[d] = seen[d]
    BY <1>1, <1>9 DEF IInv, Numbered
  <2>2. r \in rows
    BY <1>1, <1>2, <1>9, <2>1 DEF IInv, Numbered
  <2> QED
    BY <1>9, <2>1, <2>2 DEF IInv, Stamped
<1>10. ASSUME NEW q \in rows', NEW r \in rows', r.id <= q.seen
       PROVE  r.at <= q.at
  <2>1. CASE q = new
    <3>1. r \in rows
      BY <1>1, <1>2, <1>10, <2>1 DEF IInv, Numbered
    <3> QED
      BY <1>1, <1>2, <1>10, <2>1, <3>1 DEF IInv, Stamped
  <2>2. CASE q # new
    <3>1. q \in rows /\ r \in rows
      BY <1>1, <1>2, <1>4, <1>10, <2>2 DEF IInv, Numbered
    <3> QED
      BY <1>10, <3>1 DEF IInv, Stamped
  <2> QED
    BY <2>1, <2>2
<1>11. Stamped'
  BY <1>9, <1>10 DEF Stamped
<1>12. Dated'
  BY <1>1 DEF IInv, Dated
<1> QED
  BY <1>8, <1>11, <1>12 DEF IInv

----------------------------------------------------------------------------
LEMMA Inductive == IInv /\ [Next]_vars => IInv'
<1> SUFFICES ASSUME IInv, [Next]_vars PROVE IInv'
  OBVIOUS
<1>1. CASE UNCHANGED vars
  BY <1>1 DEF vars, tables, calls, IInv, Numbered, Stamped, Dated
<1>2. CASE Tick
  BY <1>2, TickPreserves
<1>3. CASE Submitted
  BY <1>3, SubmittedPreserves
<1>4. ASSUME NEW i \in DOMAIN subs, Resolved(i) PROVE IInv'
  BY <1>4, ResolvedPreserves
<1>5. ASSUME NEW cutoff \in Times, Prune(cutoff) PROVE IInv'
  BY <1>5, PrunePreserves
<1>6. ASSUME NEW c \in Calls,
             \/ Begin(c) \/ FindFails(c) \/ HashFails(c) \/ Find(c) \/ Ask(c)
             \/ Probed(c) \/ Store(c) \/ NotStored(c)
      PROVE  IInv'
  BY <1>6, BeginPreserves, EndsPreserve, FindPreserves, AskPreserves, StorePreserves,
     NotStoredPreserves
<1> QED
  BY <1>1, <1>2, <1>3, <1>4, <1>5, <1>6 DEF Next

LEMMA Invariant == Spec => []IInv
BY InitEstablishes, Inductive, PTL DEF Spec

\* Who verifies again after a report sees the new verdict in the next one: a report never
\* tells a result that was stored when the call of a result it hides began.
THEOREM LaterCallIsTold == Spec => []LaterCallWins
<1>1. IInv => LaterCallWins
  <2> SUFFICES ASSUME IInv, NEW since \in Times, NEW r \in LatestRows(since), NEW q \in rows,
                      q.key = r.key, ~(q.seen < r.id)
               PROVE  FALSE
    BY DEF LaterCallWins
  <2>1. /\ r \in rows /\ r.at >= since
        /\ \A p \in rows : p.at >= since /\ p.key = r.key => p.id <= r.id
    BY DEF LatestRows, LatestOnly
  <2>2. /\ r.id \in Nat /\ q.id \in Nat /\ q.seen \in Nat /\ r.at \in Nat /\ q.at \in Nat
        /\ q.seen < q.id
    BY <2>1 DEF IInv, Numbered, Row
  <2>3. r.at <= q.at
    BY <2>1, <2>2 DEF IInv, Stamped
  <2>4. since \in Nat
    BY BoundsAssumption DEF Times
  <2> QED
    BY <2>1, <2>2, <2>3, <2>4
<1> QED
  BY <1>1, Invariant, PTL

----------------------------------------------------------------------------
(* prune and the report *)

LEMMA RowsKept ==
  ASSUME IInv, NEW cutoff \in Times, NEW since \in Times, cutoff <= since, Prune(cutoff)
  PROVE  {r \in rows' : r.at >= since} = {r \in rows : r.at >= since}
<1>1. rows' = rows \ {r \in rows : r.at < cutoff}
  BY DEF Prune, PrunedRows
<1>2. cutoff \in Nat /\ since \in Nat /\ \A r \in rows : r.at \in Nat
  BY BoundsAssumption DEF Times, IInv, Numbered, Row
<1> QED
  BY <1>1, <1>2

LEMMA SubsKept ==
  ASSUME IInv, NEW cutoff \in Times, NEW since \in Times, cutoff <= since, Prune(cutoff)
  PROVE  /\ {i \in DOMAIN subs' : subs'[i].updated >= since}
              = {i \in DOMAIN subs : subs[i].updated >= since}
         /\ \A i \in DOMAIN subs' : subs'[i] = subs[i]
<1>1. /\ DOMAIN subs' = DOMAIN subs \ PrunedSubs(cutoff)
      /\ \A i \in DOMAIN subs' : subs'[i] = subs[i]
  BY DEF Prune
<1>2. cutoff \in Nat /\ since \in Nat /\ \A i \in DOMAIN subs : subs[i].updated \in Nat
  BY BoundsAssumption DEF Times, IInv, Dated
<1> QED
  BY <1>1, <1>2 DEF PrunedSubs

LEMMA ReportKept ==
  ASSUME IInv, NEW cutoff \in Times, NEW since \in Times, cutoff <= since, Prune(cutoff)
  PROVE  Report(since)' = Report(since)
<1>1. LatestRows(since)' = LatestRows(since)
  BY RowsKept DEF LatestRows, LatestOnly
<1>2. LatestSub(since)' = LatestSub(since)
  BY SubsKept DEF LatestSub
<1>3. \A i \in LatestSub(since) : i \in DOMAIN subs' /\ subs'[i] = subs[i]
  BY <1>2, SubsKept DEF LatestSub
<1>4. \A key : FirstId(key, since)' = FirstId(key, since)
  <2> SUFFICES ASSUME NEW key PROVE FirstId(key, since)' = FirstId(key, since)
    OBVIOUS
  <2>1. {q \in rows' : q.key = key /\ q.at >= since} = {q \in rows : q.key = key /\ q.at >= since}
    BY RowsKept
  <2> QED
    BY <2>1 DEF FirstId
<1>5. FailedCaptures(since)' = FailedCaptures(since)
  <2>1. FailedVerdicts(since)' = FailedVerdicts(since)
    BY <1>1 DEF FailedVerdicts
  <2>2. LastVerdict(since)' = LastVerdict(since)
    BY <1>4, <2>1 DEF LastVerdict
  <2>3. FailedSub(since)' = FailedSub(since)
    BY <1>2, <1>3 DEF FailedSub
  <2>4. {[of |-> "submission", at |-> subs'[i].updated] : i \in FailedSub(since)'}
          = {[of |-> "submission", at |-> subs[i].updated] : i \in FailedSub(since)}
    BY <1>3, <2>3 DEF FailedSub
  <2> QED
    BY <2>1, <2>2, <2>4 DEF FailedCaptures
<1>6. Entries(since)' = Entries(since)
  BY <1>1 DEF Entries
<1> QED
  BY <1>5, <1>6 DEF Report

\* prune takes nothing from a report about the time since its cutoff, and no pending job.
THEOREM PruneIsSafe == Spec => PruneHidesNothing
<1>1. ASSUME IInv, NEW cutoff \in Times, Prune(cutoff)
      PROVE  /\ \A since \in cutoff..MaxTime : Report(since)' = Report(since)
             /\ \A i \in DOMAIN subs :
                  subs[i].status = "pending" => i \in DOMAIN subs' /\ subs'[i] = subs[i]
  <2>1. ASSUME NEW since \in cutoff..MaxTime PROVE Report(since)' = Report(since)
    <3>1. since \in Times /\ cutoff <= since
      BY BoundsAssumption DEF Times
    <3> QED
      BY <1>1, <3>1, ReportKept
  <2>2. \A i \in DOMAIN subs :
          subs[i].status = "pending" => i \in DOMAIN subs' /\ subs'[i] = subs[i]
    BY <1>1 DEF Prune, PrunedSubs
  <2> QED
    BY <2>1, <2>2
<1>2. IInv => [\A cutoff \in Times :
                 Prune(cutoff) =>
                   /\ \A since \in cutoff..MaxTime : Report(since)' = Report(since)
                   /\ \A i \in DOMAIN subs :
                        subs[i].status = "pending"
                          => i \in DOMAIN subs' /\ subs'[i] = subs[i]]_vars
  BY <1>1
<1> QED
  BY <1>2, Invariant, PTL DEF PruneHidesNothing
----------------------------------------------------------------------------
(* Types *)

\* A submission has one row, which tells what became of it, from when it was made on.
Registered ==
  /\ jobs \in Seq({"pending"} \cup Final) /\ Len(jobs) <= MaxJobs
  /\ DOMAIN subs \subseteq DOMAIN jobs
  /\ \A i \in DOMAIN subs :
       /\ subs[i] \in [status : {"pending"} \cup Final, submitted : Nat, updated : Nat]
       /\ subs[i].status = jobs[i]
       /\ subs[i].submitted <= subs[i].updated /\ subs[i].updated <= now

\* Every row is of a call that is over.
Busy == {c \in Calls : pc[c] # "idle"}
Counted ==
  /\ begun \in Nat /\ begun <= MaxCalls
  /\ IsFiniteSet(Busy) /\ lastRow + Cardinality(Busy) <= begun

OneOfAnId == \A r, q \in rows : r.id = q.id => r = q

TInv == now <= MaxTime /\ Registered /\ Counted /\ OneOfAnId

LEMMA InitTyped == ASSUME Init PROVE TInv
<1>1. Busy = {} /\ IsFiniteSet({}) /\ Cardinality({}) = 0
  BY FS_EmptySet DEF Init, Busy
<1>2. Counted
  BY <1>1, BoundsAssumption DEF Init, Counted
<1>3. Registered
  BY BoundsAssumption DEF Init, Registered
<1> QED
  BY <1>2, <1>3, BoundsAssumption DEF Init, TInv, OneOfAnId

\* Steps that change no submission
LEMMA SubsTyped ==
  ASSUME IInv, TInv, UNCHANGED <<subs, jobs>>, now' \in Nat, now <= now' PROVE Registered'
<1>1. \A i \in DOMAIN subs : subs[i].updated \in Nat /\ subs[i].updated <= now
  BY DEF TInv, Registered
<1>2. \A i \in DOMAIN subs : subs[i].updated <= now'
  BY <1>1 DEF IInv, Numbered
<1> QED
  BY <1>2 DEF TInv, Registered

LEMMA SubmittedTyped == ASSUME IInv, TInv, Submitted PROVE TInv'
<1>1. UNCHANGED <<now, rows, lastRow, begun, pc>> /\ Len(jobs) < MaxJobs
  BY DEF Submitted, calls
<1>2. PICK s \in {"pending", "not_submitted"} :
        /\ jobs' = Append(jobs, s)
        /\ subs' = [i \in DOMAIN subs \cup {Len(jobs')} |->
                     IF i \in DOMAIN subs THEN subs[i]
                     ELSE [status |-> s, submitted |-> now, updated |-> now]]
  BY DEF Submitted
<1>3. /\ jobs \in Seq({"pending"} \cup Final) /\ s \in {"pending"} \cup Final
      /\ DOMAIN subs \subseteq DOMAIN jobs /\ now \in Nat
  BY DEF TInv, Registered, Final, IInv, Numbered
<1>4. /\ jobs' \in Seq({"pending"} \cup Final) /\ Len(jobs') = Len(jobs) + 1 /\ Len(jobs) \in Nat
      /\ DOMAIN jobs = 1..Len(jobs) /\ DOMAIN jobs' = 1..(Len(jobs) + 1)
      /\ jobs'[Len(jobs')] = s /\ \A i \in DOMAIN jobs : jobs'[i] = jobs[i]
  BY <1>2, <1>3
<1> DEFINE new == [status |-> s, submitted |-> now, updated |-> now]
<1>5. /\ new \in [status : {"pending"} \cup Final, submitted : Nat, updated : Nat]
      /\ new.status = s /\ new.submitted = now /\ new.updated = now
  BY <1>3
<1>6. ASSUME NEW i \in DOMAIN subs'
      PROVE  (i \in DOMAIN subs /\ subs'[i] = subs[i]) \/ (i = Len(jobs') /\ subs'[i] = new)
  BY <1>2, <1>6
<1> HIDE DEF new
<1>7. ASSUME NEW i \in DOMAIN subs'
      PROVE  /\ subs'[i] \in [status : {"pending"} \cup Final, submitted : Nat, updated : Nat]
             /\ subs'[i].status = jobs'[i]
             /\ subs'[i].submitted <= subs'[i].updated /\ subs'[i].updated <= now'
  <2>1. CASE i \in DOMAIN subs /\ subs'[i] = subs[i]
    BY <1>1, <1>3, <1>4, <2>1 DEF TInv, Registered
  <2>2. CASE i = Len(jobs') /\ subs'[i] = new
    BY <1>1, <1>3, <1>4, <1>5, <2>2
  <2> QED
    BY <1>6, <2>1, <2>2
<1>8. DOMAIN subs' \subseteq DOMAIN jobs' /\ Len(jobs') <= MaxJobs
  BY <1>1, <1>2, <1>3, <1>4, BoundsAssumption
<1>9. Registered'
  BY <1>4, <1>7, <1>8 DEF Registered
<1> QED
  BY <1>1, <1>9 DEF TInv, Counted, Busy, OneOfAnId

LEMMA ResolvedTyped == ASSUME IInv, TInv, NEW i \in DOMAIN subs, Resolved(i) PROVE TInv'
<1>1. UNCHANGED <<now, rows, lastRow, begun, pc>>
  BY DEF Resolved, calls
<1>2. PICK s \in {"success", "error"} :
        /\ subs' = [subs EXCEPT ![i] = [status |-> s, submitted |-> @.submitted, updated |-> now]]
        /\ jobs' = [jobs EXCEPT ![i] = s]
  BY DEF Resolved
<1>3. /\ jobs \in Seq({"pending"} \cup Final) /\ s \in {"pending"} \cup Final
      /\ DOMAIN subs \subseteq DOMAIN jobs /\ now \in Nat /\ i \in DOMAIN jobs
  BY DEF TInv, Registered, Final, IInv, Numbered
<1>4. /\ jobs' \in Seq({"pending"} \cup Final) /\ Len(jobs') = Len(jobs)
      /\ DOMAIN jobs' = DOMAIN jobs
      /\ jobs'[i] = s /\ \A j \in DOMAIN jobs : j # i => jobs'[j] = jobs[j]
  BY <1>2, <1>3
<1> DEFINE new == [status |-> s, submitted |-> subs[i].submitted, updated |-> now]
<1>5. /\ subs[i].submitted \in Nat /\ subs[i].updated \in Nat
      /\ subs[i].submitted <= subs[i].updated /\ subs[i].updated <= now
  BY DEF TInv, Registered
<1>6. /\ new \in [status : {"pending"} \cup Final, submitted : Nat, updated : Nat]
      /\ new.status = s /\ new.updated = now /\ new.submitted <= new.updated
  BY <1>3, <1>5
<1>7. /\ DOMAIN subs' = DOMAIN subs /\ subs'[i] = new
      /\ \A j \in DOMAIN subs : j # i => subs'[j] = subs[j]
  BY <1>2
<1> HIDE DEF new
<1>8. ASSUME NEW j \in DOMAIN subs
      PROVE  /\ subs'[j] \in [status : {"pending"} \cup Final, submitted : Nat, updated : Nat]
             /\ subs'[j].status = jobs'[j]
             /\ subs'[j].submitted <= subs'[j].updated /\ subs'[j].updated <= now'
  <2>1. CASE j = i
    BY <1>1, <1>3, <1>4, <1>6, <1>7, <2>1
  <2>2. CASE j # i
    BY <1>1, <1>3, <1>4, <1>7, <2>2 DEF TInv, Registered
  <2> QED
    BY <2>1, <2>2
<1>9. Len(jobs') <= MaxJobs /\ DOMAIN subs' \subseteq DOMAIN jobs'
  BY <1>3, <1>4, <1>7 DEF TInv, Registered
<1>10. Registered'
  BY <1>4, <1>7, <1>8, <1>9 DEF Registered
<1> QED
  BY <1>1, <1>10 DEF TInv, Counted, Busy, OneOfAnId

LEMMA PruneTyped == ASSUME IInv, TInv, NEW cutoff, Prune(cutoff) PROVE TInv'
<1>1. UNCHANGED <<now, jobs, lastRow, begun, pc>> /\ rows' \subseteq rows
  BY DEF Prune, calls
<1>2. /\ DOMAIN subs' \subseteq DOMAIN subs
      /\ \A i \in DOMAIN subs' : subs'[i] = subs[i]
  BY DEF Prune
<1>3. Registered'
  BY <1>1, <1>2 DEF TInv, Registered
<1> QED
  BY <1>1, <1>3 DEF TInv, Counted, Busy, OneOfAnId

\* A step of a call that is begun and stores nothing
LEMMA CallTyped ==
  ASSUME IInv, TInv, NEW c \in Calls, pc[c] # "idle", UNCHANGED <<now, tables, begun>>,
         \A d \in Calls : d # c => pc'[d] = pc[d]
  PROVE  TInv'
<1>1. Busy' \subseteq Busy
  BY DEF Busy
<1>2. IsFiniteSet(Busy) /\ Cardinality(Busy) \in Nat
  BY FS_CardinalityType DEF TInv, Counted
<1>3. /\ IsFiniteSet(Busy') /\ Cardinality(Busy') <= Cardinality(Busy)
      /\ Cardinality(Busy') \in Nat
  BY <1>1, <1>2, FS_Subset, FS_CardinalityType
<1>4. lastRow \in Nat /\ lastRow' = lastRow /\ begun' = begun /\ now' = now /\ now \in Nat
  BY DEF IInv, Numbered, tables
<1>5. Counted'
  BY <1>2, <1>3, <1>4 DEF TInv, Counted
<1>6. Registered'
  BY <1>4, SubsTyped DEF tables
<1> QED
  BY <1>4, <1>5, <1>6 DEF TInv, OneOfAnId, tables

LEMMA BeginTyped == ASSUME IInv, TInv, NEW c \in Calls, Begin(c) PROVE TInv'
<1>1. /\ UNCHANGED <<now, subs, jobs, rows, lastRow>> /\ begun' = begun + 1 /\ begun < MaxCalls
      /\ pc' = [pc EXCEPT ![c] = "find"] /\ pc[c] = "idle"
  BY DEF Begin, tables
<1>2. Busy' = Busy \cup {c} /\ c \notin Busy
  BY <1>1 DEF Busy, IInv, Numbered
<1>3. IsFiniteSet(Busy) /\ Cardinality(Busy) \in Nat
  BY FS_CardinalityType DEF TInv, Counted
<1>4. IsFiniteSet(Busy') /\ Cardinality(Busy') = Cardinality(Busy) + 1
  BY <1>2, <1>3, FS_AddElement
<1>5. Counted'
  BY <1>1, <1>3, <1>4, BoundsAssumption DEF TInv, Counted, IInv, Numbered
<1>6. Registered'
  BY <1>1, SubsTyped DEF IInv, Numbered
<1> QED
  BY <1>1, <1>5, <1>6 DEF TInv, OneOfAnId

LEMMA StoreTyped == ASSUME IInv, TInv, NEW c \in Calls, Store(c) PROVE TInv'
<1>1. /\ UNCHANGED <<now, subs, jobs, begun>> /\ lastRow' = lastRow + 1
      /\ pc' = [pc EXCEPT ![c] = "idle"] /\ pc[c] = "store"
  BY DEF Store, Return, NextId
<1>2. Busy' = Busy \ {c} /\ c \in Busy
  BY <1>1 DEF Busy, IInv, Numbered
<1>3. IsFiniteSet(Busy) /\ Cardinality(Busy) \in Nat
  BY FS_CardinalityType DEF TInv, Counted
<1>4. IsFiniteSet(Busy') /\ Cardinality(Busy') = Cardinality(Busy) - 1
  BY <1>2, <1>3, FS_RemoveElement
<1>5. Counted'
  BY <1>1, <1>3, <1>4 DEF TInv, Counted, IInv, Numbered
<1>6. Registered'
  BY <1>1, SubsTyped DEF IInv, Numbered
<1>7. PICK new \in {[id |-> lastRow + 1, key |-> res[c].key, outcome |-> res[c].outcome,
                    at |-> res[c].at, seen |-> seen[c]]} :
        rows' = rows \cup {new} /\ new.id = lastRow + 1
  BY DEF Store, NextId
<1>8. \A r \in rows : r.id \in Nat /\ r.id <= lastRow /\ lastRow \in Nat
  BY DEF IInv, Numbered, Row
<1>9. OneOfAnId'
  BY <1>7, <1>8 DEF TInv, OneOfAnId
<1> QED
  BY <1>1, <1>5, <1>6, <1>9 DEF TInv

LEMMA StepTyped == ASSUME IInv, TInv, [Next]_vars PROVE TInv'
<1>1. CASE UNCHANGED vars
  BY <1>1 DEF vars, tables, calls, TInv, Registered, Counted, Busy, OneOfAnId
<1>2. CASE Tick
  <2>1. UNCHANGED <<subs, jobs, rows, lastRow, begun, pc>> /\ now' = now + 1 /\ now < MaxTime
    BY <1>2 DEF Tick, tables, calls
  <2>2. now' \in Nat /\ now <= now' /\ now' <= MaxTime
    BY <2>1, BoundsAssumption DEF IInv, Numbered
  <2>3. Registered'
    BY <2>1, <2>2, SubsTyped
  <2> QED
    BY <2>1, <2>2, <2>3 DEF TInv, Counted, Busy, OneOfAnId
<1>3. CASE Submitted
  BY <1>3, SubmittedTyped
<1>4. ASSUME NEW i \in DOMAIN subs, Resolved(i) PROVE TInv'
  BY <1>4, ResolvedTyped
<1>5. ASSUME NEW cutoff \in Times, Prune(cutoff) PROVE TInv'
  BY <1>5, PruneTyped
<1>6. ASSUME NEW c \in Calls,
             FindFails(c) \/ HashFails(c) \/ Find(c) \/ Ask(c) \/ Probed(c) \/ NotStored(c)
      PROVE  TInv'
  <2>1. pc[c] # "idle"
    BY <1>6 DEF FindFails, HashFails, Find, Ask, Probed, NotStored
  <2>2. UNCHANGED <<now, tables, begun>> /\ \A d \in Calls : d # c => pc'[d] = pc[d]
    BY <1>6 DEF FindFails, HashFails, Find, Ask, Probed, NotStored, Conclude, Return, IInv, Numbered
  <2> QED
    BY <2>1, <2>2, CallTyped
<1> QED
  BY <1>1, <1>2, <1>3, <1>4, <1>5, <1>6, BeginTyped, StoreTyped DEF Next

\* Every variable keeps to its values: however calls overlap, there are no more rows than
\* calls, no two of them with one id, and the row of a submission tells what became of it.
THEOREM TypeCorrect == Spec => []TypeOK
<1>1. ASSUME IInv, TInv PROVE TypeOK
  <2>1. now \in Nat /\ now <= MaxTime /\ lastRow \in Nat /\ begun \in Nat /\ begun <= MaxCalls
    BY <1>1 DEF IInv, TInv, Numbered, Counted
  <2>2. lastRow <= MaxCalls
    BY <1>1, <2>1, FS_CardinalityType, BoundsAssumption DEF TInv, Counted
  <2>3. \A t \in Nat : t <= now => t \in Times
    BY <2>1, BoundsAssumption DEF Times
  <2>4. Len(jobs) <= MaxJobs /\ \A i \in DOMAIN jobs : jobs[i] \in {"pending"} \cup Final
    BY <1>1 DEF TInv, Registered
  <2>5. ASSUME NEW i \in DOMAIN subs
        PROVE  /\ subs[i] \in Submissions /\ subs[i].status = jobs[i]
               /\ subs[i].submitted <= subs[i].updated
    <3>1. /\ subs[i] \in [status : {"pending"} \cup Final, submitted : Nat, updated : Nat]
          /\ subs[i].submitted <= subs[i].updated /\ subs[i].updated <= now
      BY <1>1 DEF TInv, Registered
    <3>2. subs[i].submitted <= now
      BY <2>1, <3>1
    <3>3. subs[i].submitted \in Times /\ subs[i].updated \in Times
      BY <2>3, <3>1, <3>2
    <3> QED
      BY <1>1, <3>1, <3>3 DEF TInv, Registered, Submissions
  <2>6. ASSUME NEW r \in rows
        PROVE  /\ r.id \in 1..lastRow /\ r.seen \in 0..(r.id - 1)
               /\ r.key \in Keys /\ r.outcome \in Outcomes /\ r.at \in Times
    <3>1. /\ r \in Row /\ r.seen < r.id /\ r.id <= lastRow /\ r.at <= now
      BY <1>1 DEF IInv, Numbered
    <3> QED
      BY <2>1, <2>3, <3>1 DEF Row
  <2>7. /\ pc \in [Calls -> {"idle", "find", "ask", "store"}] /\ arg \in [Calls -> Args]
        /\ seen \in [Calls -> Nat] /\ \A c \in Calls : seen[c] <= lastRow
    BY <1>1 DEF IInv, Numbered
  <2>8. seen \in [Calls -> 0..MaxCalls]
    <3>1. \A c \in Calls : seen[c] \in 0..MaxCalls
      BY <2>1, <2>2, <2>7, BoundsAssumption
    <3> QED
      BY <2>7, <3>1
  <2>9. res \in [Calls -> Results]
    <3>1. /\ res \in [Calls -> [key : Keys, outcome : Outcomes,
                               capture : Captures \cup {NoCapture}, at : Nat]]
          /\ \A c \in Calls : res[c].at <= now
      BY <1>1 DEF IInv, Numbered
    <3>2. \A c \in Calls : res[c] \in Results
      BY <2>3, <3>1 DEF Results
    <3> QED
      BY <3>1, <3>2
  <2>10. now \in Times /\ lastRow \in 0..MaxCalls /\ begun \in 0..MaxCalls
    BY <2>1, <2>2, BoundsAssumption DEF Times
  <2> QED
    BY <1>1, <2>4, <2>5, <2>6, <2>7, <2>8, <2>9, <2>10 DEF TypeOK, TInv, Registered, OneOfAnId
<1>2. Init => IInv /\ TInv
  BY InitEstablishes, InitTyped
<1>3. IInv /\ TInv /\ [Next]_vars => (IInv /\ TInv)'
  BY Inductive, StepTyped
<1> QED
  BY <1>1, <1>2, <1>3, PTL DEF Spec
----------------------------------------------------------------------------
(* The versions of the database that holds these tables: whatever processes migrate it at
   once, and wherever they end, it is never left between two of them. *)

CONSTANTS Openers, Scripts, packages
VARIABLES user_version, schema, opener, version

Schema == INSTANCE Migrations WITH pc <- opener

VersionInv == Schema!NeverAhead /\ Schema!SchemaIsVersion

\* A script that applies is the next one, also for a process that read the version long ago.
LEMMA NextScript ==
  ASSUME NEW v \in Nat, NEW u \in Nat, 1..u = 1..v
  PROVE  v = u /\ 1..v \cup {v + 1} = 1..(v + 1)
<1>1. u = 0 \/ u \in 1..u
  OBVIOUS
<1>2. v = 0 \/ v \in 1..v
  OBVIOUS
<1>3. u <= v /\ v <= u
  BY <1>1, <1>2
<1>4. 1..v \cup {v + 1} = 1..(v + 1)
  OBVIOUS
<1> QED
  BY <1>3, <1>4

LEMMA FirstOpened == Schema!Init => VersionInv
BY DEF Schema!Init, VersionInv, Schema!NeverAhead, Schema!SchemaIsVersion

LEMMA ScriptKeepsVersion ==
  ASSUME VersionInv, NEW o \in Openers, Schema!RunScript(o)
  PROVE  VersionInv'
<1> DEFINE target == version[o] + 1
<1>1. /\ version[o] \in Nat /\ user_version \in Nat
      /\ schema = 1..(target - 1) /\ schema = 1..user_version
  BY DEF VersionInv, Schema!NeverAhead, Schema!SchemaIsVersion, Schema!RunScript,
         Schema!Applicable
<1>2. 1..user_version = 1..version[o]
  BY <1>1
<1>3. version[o] = user_version /\ 1..version[o] \cup {target} = 1..target
  BY <1>1, <1>2, NextScript
<1>4. /\ user_version' = target /\ schema' = schema \cup {target}
      /\ version' = [version EXCEPT ![o] = target] /\ opener' = opener /\ opener[o] = "migrates"
  BY DEF Schema!RunScript
<1>5. Schema!SchemaIsVersion'
  BY <1>1, <1>3, <1>4 DEF Schema!SchemaIsVersion
<1>6. user_version' \in Nat /\ version' \in [Openers -> Nat]
  BY <1>1, <1>4 DEF VersionInv, Schema!NeverAhead
<1>7. \A p \in Openers : version'[p] <= user_version'
  BY <1>1, <1>3, <1>4 DEF VersionInv, Schema!NeverAhead
<1>8. \A p \in Openers : opener'[p] = "open" => version'[p] = packages[p]
  BY <1>4 DEF VersionInv, Schema!NeverAhead
<1> QED
  BY <1>4, <1>5, <1>6, <1>7, <1>8 DEF VersionInv, Schema!NeverAhead

\* Only RunScript writes to the database.
LEMMA OpeningKeepsVersion ==
  ASSUME VersionInv, NEW o \in Openers,
         \/ Schema!ReadVersion(o) \/ Schema!ScriptFails(o)
         \/ Schema!Opened(o) \/ Schema!Ends(o)
  PROVE  VersionInv'
<1>1. UNCHANGED <<user_version, schema>>
  BY DEF Schema!ReadVersion, Schema!ScriptFails, Schema!Opened, Schema!Ends
<1>2. Schema!SchemaIsVersion'
  BY <1>1 DEF VersionInv, Schema!SchemaIsVersion
<1>3. CASE Schema!ReadVersion(o)
  BY <1>1, <1>2, <1>3 DEF VersionInv, Schema!NeverAhead, Schema!ReadVersion
<1>4. CASE Schema!ScriptFails(o)
  BY <1>1, <1>2, <1>4 DEF VersionInv, Schema!NeverAhead, Schema!ScriptFails
<1>5. CASE Schema!Opened(o)
  BY <1>1, <1>2, <1>5 DEF VersionInv, Schema!NeverAhead, Schema!Opened
<1>6. CASE Schema!Ends(o)
  BY <1>1, <1>2, <1>6 DEF VersionInv, Schema!NeverAhead, Schema!Ends
<1> QED
  BY <1>3, <1>4, <1>5, <1>6

LEMMA VersionInductive == VersionInv /\ [Schema!Next]_(Schema!vars) => VersionInv'
<1> SUFFICES ASSUME VersionInv, [Schema!Next]_(Schema!vars) PROVE VersionInv'
  OBVIOUS
<1>1. CASE UNCHANGED Schema!vars
  BY <1>1 DEF Schema!vars, VersionInv, Schema!NeverAhead, Schema!SchemaIsVersion
<1>2. CASE Schema!Next
  BY <1>2, ScriptKeepsVersion, OpeningKeepsVersion DEF Schema!Next
<1> QED
  BY <1>1, <1>2

LEMMA VersionKept == Schema!Spec => []VersionInv
BY FirstOpened, VersionInductive, PTL DEF Schema!Spec

\* The database is always at one version: no crash and no race of migrations leaves it
\* with a part of a script's tables (cache.py:251-254).
THEOREM NeverBetweenVersions == Schema!Spec => []Schema!SchemaIsVersion
<1>1. VersionInv => Schema!SchemaIsVersion
  BY DEF VersionInv
<1> QED
  BY <1>1, VersionKept, PTL

\* A cache that has opened finds the tables its package needs, also when another process
\* has run some of the scripts, or when a newer package migrates it afterwards.
THEOREM OpenedIsMigrated == Schema!Spec => []Schema!OpenHasSchema
<1>1. VersionInv => Schema!OpenHasSchema
  <2> SUFFICES ASSUME VersionInv, NEW o \in Openers, opener[o] = "open"
               PROVE  1..packages[o] \subseteq schema
    BY DEF Schema!OpenHasSchema
  <2>1. /\ packages[o] \in Nat /\ user_version \in Nat
        /\ packages[o] <= user_version /\ schema = 1..user_version
    BY DEF VersionInv, Schema!NeverAhead, Schema!SchemaIsVersion
  <2> QED
    BY <2>1
<1> QED
  BY <1>1, VersionKept, PTL
=============================================================================
