------------------------------ MODULE History ------------------------------
(***************************************************************************)
(* The history of one URL: its submissions, whose rows are updated in      *)
(* place, the verifications of its files and the access checks of its      *)
(* capture, whose rows are only added; the verdicts that verify_digest     *)
(* comes to, alone or as an item of verify_many; prune; and the report.    *)
(*                                                                         *)
(* A result is stamped when it is made and stored later, by the call       *)
(* itself or by a flush of the batch's buffer, in any order.               *)
(***************************************************************************)
EXTENDS Integers, Sequences, FiniteSets, FiniteSetsExt

CONSTANTS
  Calls,     \* calls of verify_digest and check_access
  Files,     \* the files that are compared with the captures of the URL
  NoFile,    \* the key of the verifications without a file snapshot
  Probe,     \* the key of the access checks of its capture
  digest,    \* of each capture: "same" as the file's, "other", or "missing"
  MaxJobs,   \* bound: rows of submissions
  MaxCalls,  \* bound: calls that are begun
  MaxTime    \* bound: ticks of the clock

ASSUME KeysAssumption == NoFile \notin Files /\ Probe \notin Files \cup {NoFile}
ASSUME BoundsAssumption == MaxJobs \in Nat /\ MaxCalls \in Nat /\ MaxTime \in Nat
ASSUME DigestAssumption == digest \in [0..MaxJobs -> {"same", "other", "missing"}]

VARIABLES
  now,
  subs,     \* table submissions, by row id
  jobs,     \* what became of each submission, also after its row was pruned
  rows,     \* tables verifications and, with the key Probe, access_checks
  lastRow,  \* the last id that was given to one of these
  begun,
  pc,       \* where each call is
  arg,      \* its arguments
  res,      \* its result
  seen      \* history: the ids that were taken when the call began

tables == <<subs, jobs, rows, lastRow>>
calls == <<begun, pc, arg, res, seen>>
vars == <<now, tables, calls>>

Times == 0..MaxTime
Keys == Files \cup {NoFile, Probe}

\* The capture of a job has its number; 0 is an earlier one.
Captures == 0..MaxJobs
NoCapture == -1

Final == {"success", "error", "not_submitted"}
Submissions == [status : {"pending"} \cup Final, submitted : Times, updated : Times]

\* Outcome, and AccessCheck.accessible
Outcomes == {"MATCH", "MISMATCH", "DIGEST_UNAVAILABLE", "NO_CAPTURE", "CAPTURE_FAILED",
             "LOOKUP_ERROR", "FILE_ERROR", "accessible", "inaccessible"}
Results == [key : Keys, outcome : Outcomes, capture : Captures \cup {NoCapture}, at : Times]

\* An item has either a timestamp, or a selection, or neither of its own; "bulk" is the
\* selection of verify_many.  The submission is an object that the caller got earlier.
NoSubmission == [job |-> 0, status |-> "none"]
Args == [key : Keys, selects : {"timestamp", "selection", "bulk", "nothing"},
         submission : [job : 0..MaxJobs, status : {"none", "pending"} \cup Final]]
NoArg == [key |-> Probe, selects |-> "nothing", submission |-> NoSubmission]

Result(key, outcome, capture) ==
  [key |-> key, outcome |-> outcome, capture |-> capture, at |-> now]
NoResult == [key |-> Probe, outcome |-> "accessible", capture |-> NoCapture, at |-> 0]

----------------------------------------------------------------------------
Init ==
  /\ now = 0
  /\ subs = <<>>
  /\ jobs = <<>>
  /\ rows = {}
  /\ lastRow = 0
  /\ begun = 0
  /\ pc = [c \in Calls |-> "idle"]
  /\ arg = [c \in Calls |-> NoArg]
  /\ res = [c \in Calls |-> NoResult]
  /\ seen = [c \in Calls |-> 0]

Tick ==
  /\ now < MaxTime
  /\ now' = now + 1
  /\ UNCHANGED <<tables, calls>>

----------------------------------------------------------------------------
(* Submissions *)

\* save_submission of a new job, or of a request that the Archive did not take
Submitted ==
  /\ Len(jobs) < MaxJobs
  /\ \E s \in {"pending", "not_submitted"} :
       /\ jobs' = Append(jobs, s)
       /\ subs' = [i \in DOMAIN subs \cup {Len(jobs')} |->
                     IF i \in DOMAIN subs THEN subs[i]
                     ELSE [status |-> s, submitted |-> now, updated |-> now]]
  /\ UNCHANGED <<now, rows, lastRow, calls>>

\* _upsert_submission of a final answer updates the row of the job.
Resolved(i) ==
  /\ subs[i].status = "pending"
  /\ \E s \in {"success", "error"} :
       /\ subs' = [subs EXCEPT ![i] = [status |-> s, submitted |-> @.submitted, updated |-> now]]
       /\ jobs' = [jobs EXCEPT ![i] = s]
  /\ UNCHANGED <<now, rows, lastRow, calls>>

\* latest_submission: ORDER BY updated_at DESC, id DESC LIMIT 1
latest_submission ==
  {i \in DOMAIN subs :
     \A j \in DOMAIN subs : \/ subs[j].updated < subs[i].updated
                            \/ subs[j].updated = subs[i].updated /\ j <= i}

----------------------------------------------------------------------------
(* verify_digest and check_access *)

\* verify_many gives its selection to the items without a timestamp and a selection.
Item(a) == IF a.selects = "nothing" THEN [a EXCEPT !.selects = "bulk"] ELSE a

\* The caller may pass a submission of the URL, as it was when it was returned to the
\* caller; a pending one may have come to its end since.
Arguments ==
  {a \in Args :
     /\ a.selects # "bulk"
     /\ IF a.submission.job = 0
        THEN a.submission = NoSubmission
        ELSE /\ a.submission.job \in DOMAIN jobs
             /\ LET current == jobs[a.submission.job]
                IN  \/ a.submission.status = current
                    \/ a.submission.status = "pending" /\ current # "not_submitted"
     /\ a.key = Probe => a = NoArg}

Begin(c) ==
  /\ pc[c] = "idle"
  /\ begun < MaxCalls
  /\ begun' = begun + 1
  /\ pc' = [pc EXCEPT ![c] = "find"]
  /\ \E a \in Arguments :
       \/ arg' = [arg EXCEPT ![c] = a]
       \/ a.key # Probe /\ arg' = [arg EXCEPT ![c] = Item(a)]
  /\ seen' = [seen EXCEPT ![c] = lastRow]
  /\ UNCHANGED <<now, tables, res>>

\* _selection: an exact timestamp takes this capture alone, a policy any one.
_selection(a) ==
  IF a.selects = "timestamp" THEN {0}
  ELSE IF a.selects \in {"selection", "bulk"} THEN Captures
  ELSE IF a.submission.status = "success" THEN {a.submission.job}
  ELSE Captures

\* CdxClient.find: the index lists a capture some time after it was made, and a cached
\* answer may lack it still longer.
Finds(c) ==
  {NoCapture} \cup {k \in _selection(arg[c]) :
                     k = 0 \/ (k \in DOMAIN jobs /\ jobs[k] = "success")}

\* compare, with the status of the submission or "none"
Verdict(capture, status) ==
  IF capture # NoCapture
  THEN CASE digest[capture] = "missing" -> "DIGEST_UNAVAILABLE"
         [] digest[capture] = "same"    -> "MATCH"
         [] digest[capture] = "other"   -> "MISMATCH"
  ELSE IF status \in {"error", "not_submitted"} THEN "CAPTURE_FAILED" ELSE "NO_CAPTURE"

Conclude(c, r) ==
  /\ pc' = [pc EXCEPT ![c] = "store"]
  /\ arg' = [arg EXCEPT ![c] = NoArg]
  /\ res' = [res EXCEPT ![c] = r]
  /\ UNCHANGED <<now, tables, begun, seen>>

Return(c) ==
  /\ pc' = [pc EXCEPT ![c] = "idle"]
  /\ res' = [res EXCEPT ![c] = NoResult]
  /\ seen' = [seen EXCEPT ![c] = 0]
  /\ UNCHANGED <<begun, arg>>

\* The index cannot be asked.
FindFails(c) ==
  /\ pc[c] = "find" /\ arg[c].key # Probe
  /\ Conclude(c, Result(arg[c].key, "LOOKUP_ERROR", NoCapture))

\* verify_file: a file that cannot be hashed has no snapshot, and so its result is not kept
\* with the others of the file.
HashFails(c) ==
  /\ pc[c] = "find" /\ arg[c].key \in Files
  /\ Conclude(c, Result(NoFile, "FILE_ERROR", NoCapture))

Find(c) ==
  /\ pc[c] = "find" /\ arg[c].key # Probe
  /\ \E capture \in Finds(c) :
       IF capture = NoCapture /\ arg[c].submission = NoSubmission
       THEN /\ pc' = [pc EXCEPT ![c] = "ask"]
            /\ UNCHANGED <<now, tables, begun, arg, res, seen>>
       ELSE Conclude(c, Result(arg[c].key, Verdict(capture, arg[c].submission.status), capture))

\* Nothing was found: the submission in the cache tells why.
Ask(c) ==
  /\ pc[c] = "ask"
  /\ \E status \in IF DOMAIN subs = {} THEN {"none"}
                   ELSE {subs[i].status : i \in latest_submission} :
       Conclude(c, Result(arg[c].key, Verdict(NoCapture, status), NoCapture))

Probed(c) ==
  /\ pc[c] = "find" /\ arg[c].key = Probe
  /\ \E outcome \in {"accessible", "inaccessible"} : Conclude(c, Result(Probe, outcome, NoCapture))

\* Mistake: the last id is taken again.
NextIdAgain == IF lastRow = 0 THEN 1 ELSE lastRow

\* sqlite may use the id of a deleted row again, but never one below a row that is left: only
\* the order of the ids is read, and that is the order of the insertions.
NextId == lastRow + 1

\* add_verifications, add_access_checks
Store(c) ==
  /\ pc[c] = "store"
  /\ Return(c)
  /\ lastRow' = NextId
  /\ rows' = rows \cup {[id |-> NextId, key |-> res[c].key, outcome |-> res[c].outcome,
                         at |-> res[c].at, seen |-> seen[c]]}
  /\ UNCHANGED <<now, subs, jobs>>

\* record=False, or a write that failed, or the end of the process
NotStored(c) ==
  /\ pc[c] = "store"
  /\ Return(c)
  /\ UNCHANGED <<now, tables>>

----------------------------------------------------------------------------
(* prune and report *)

\* Mistake: the age of a submission is that of the job.
PrunedByAge(cutoff) ==
  {i \in DOMAIN subs : subs[i].submitted < cutoff /\ subs[i].status # "pending"}

PrunedSubs(cutoff) ==
  {i \in DOMAIN subs : subs[i].updated < cutoff /\ subs[i].status # "pending"}

\* Mistake: a row as old as the cutoff is deleted, too.
PrunedWithCutoff(cutoff) == {r \in rows : r.at <= cutoff}

PrunedRows(cutoff) == {r \in rows : r.at < cutoff}

Prune(cutoff) ==
  /\ PrunedSubs(cutoff) # {} \/ PrunedRows(cutoff) # {}
  /\ subs' = [i \in DOMAIN subs \ PrunedSubs(cutoff) |-> subs[i]]
  /\ rows' = rows \ PrunedRows(cutoff)
  /\ UNCHANGED <<now, jobs, lastRow, calls>>

\* Mistake: the first row of a key is kept.
FirstOnly(found) == {r \in found : \A q \in found : q.key = r.key => r.id <= q.id}

\* latest_only: the last row of each key replaces those before it.
LatestOnly(found) == {r \in found : \A q \in found : q.key = r.key => q.id <= r.id}

\* verifications(since, latest_only) and access_checks(since, latest_only)
LatestRows(since) == LatestOnly({r \in rows : r.at >= since})

\* The last submission by row id of those updated since
LatestSub(since) ==
  LET found == {i \in DOMAIN subs : subs[i].updated >= since}
  IN  {i \in found : \A j \in found : j <= i}

\* The place of a key in the results before they are sorted: that of its first row
FirstId(key, since) == Min({r.id : r \in {q \in rows : q.key = key /\ q.at >= since}})

FailedVerdicts(since) == {r \in LatestRows(since) : r.outcome = "CAPTURE_FAILED"}

\* The verdicts are sorted from the newest to the oldest, those of one time as they were found.
LastVerdict(since) ==
  {v \in FailedVerdicts(since) :
     \A w \in FailedVerdicts(since) :
       \/ v.at < w.at
       \/ v.at = w.at /\ FirstId(w.key, since) <= FirstId(v.key, since)}

FailedSub(since) == {i \in LatestSub(since) : subs[i].status \in {"error", "not_submitted"}}

\* failed_captures: of the entries of a URL, the submission and then the verdicts, the last
\* replaces the others.
FailedCaptures(since) ==
  IF FailedVerdicts(since) = {}
  THEN {[of |-> "submission", at |-> subs[i].updated] : i \in FailedSub(since)}
  ELSE {[of |-> r.key, at |-> r.at] : r \in LastVerdict(since)}

\* build_report: the entries of the other lists
Entries(since) ==
  {[key |-> r.key, outcome |-> r.outcome, at |-> r.at] :
     r \in {q \in LatestRows(since) : q.outcome \notin {"MATCH", "CAPTURE_FAILED", "accessible"}}}

Report(since) == [failed |-> FailedCaptures(since), others |-> Entries(since)]

----------------------------------------------------------------------------
Next ==
  \/ Tick
  \/ Submitted
  \/ \E i \in DOMAIN subs : Resolved(i)
  \/ \E cutoff \in Times : Prune(cutoff)
  \/ \E c \in Calls : \/ Begin(c) \/ FindFails(c) \/ HashFails(c) \/ Find(c) \/ Ask(c)
                      \/ Probed(c) \/ Store(c) \/ NotStored(c)

Spec == Init /\ [][Next]_vars

----------------------------------------------------------------------------
(* Properties *)

\* Every variable keeps to its values; an id is used once.
TypeOK ==
  /\ now \in Times
  /\ Len(jobs) <= MaxJobs
  /\ \A i \in DOMAIN jobs : jobs[i] \in {"pending"} \cup Final
  /\ DOMAIN subs \subseteq DOMAIN jobs
  /\ \A i \in DOMAIN subs : /\ subs[i] \in Submissions /\ subs[i].status = jobs[i]
                          /\ subs[i].submitted <= subs[i].updated
  /\ lastRow \in 0..MaxCalls
  /\ \A r \in rows : /\ r.id \in 1..lastRow /\ r.seen \in 0..(r.id - 1)
                     /\ r.key \in Keys /\ r.outcome \in Outcomes /\ r.at \in Times
  /\ \A r, q \in rows : r.id = q.id => r = q
  /\ begun \in 0..MaxCalls
  /\ pc \in [Calls -> {"idle", "find", "ask", "store"}]
  /\ arg \in [Calls -> Args]
  /\ res \in [Calls -> Results]
  /\ seen \in [Calls -> 0..MaxCalls]

\* prune takes nothing from a report about the time since its cutoff, and no job that can
\* be resumed (cache.py:597-612 against client.py:400-408 and cache.py:396-402): what a
\* report reads by updated_at and checked_at, prune must delete by these, strictly.
PruneHidesNothing ==
  [][\A cutoff \in Times :
       Prune(cutoff) =>
         /\ \A since \in cutoff..MaxTime : Report(since)' = Report(since)
         /\ \A i \in DOMAIN subs :
              subs[i].status = "pending" => i \in DOMAIN subs' /\ subs'[i] = subs[i]]_vars

\* However results are buffered and rows are pruned, a report never tells a result that was
\* already stored when the call began whose result it hides (cache.py:518-522, 564-565):
\* who verifies again after a report sees the new verdict in the next one, for any since.
LaterCallWins ==
  \A since \in Times : \A r \in LatestRows(since) : \A q \in rows :
    q.key = r.key => q.seen < r.id

\* bulk.py:504-505: "selection applies to items without their own timestamp, selection or
\* successful submission": an item with a successful submission is compared with the
\* capture of this submission or with none.
JudgedByItsCapture ==
  [][\A c \in Calls :
       /\ pc[c] = "find" /\ pc'[c] = "store"
       /\ arg[c].selects \in {"bulk", "nothing"}
       /\ arg[c].submission.status = "success"
       => res'[c].capture \in {arg[c].submission.job, NoCapture}]_vars
=============================================================================
