--------------------------- MODULE CaptureStatus ---------------------------
(***************************************************************************)
(* Following Save Page Now jobs: ArchiveClient.capture_status with         *)
(* _resolve_expired, the polling loop of bulk.wait_for_captures, and the   *)
(* submissions table they read and write.  Any number of coroutines and    *)
(* processes poll the same jobs over one cache; between two awaits of one, *)
(* all the others move, jobs end, the index grows, and the process may     *)
(* crash and be started again.                                             *)
(*                                                                         *)
(* The Archive is modelled from the answers the code handles.  Its clock   *)
(* counts captures: the k-th moment at which the page was captured is k.   *)
(***************************************************************************)
EXTENDS Naturals, FiniteSets

CONSTANTS
  Jobs,       \* job ids of one page
  Pollers,    \* coroutines that ask for a job's status
  Submitted,  \* when the jobs were submitted
  Slack,      \* how far before that a capture may lie (five minutes)
  MaxTime     \* bound: the last capture the page may get

ASSUME JobsAssumption == Jobs # {}
ASSUME BoundsAssumption ==
  /\ Submitted \in Nat /\ Slack \in Nat /\ MaxTime \in Nat
  /\ 0 < Slack /\ Slack < Submitted /\ Submitted <= MaxTime

VARIABLES
  \* the Archive
  outcome,    \* what became of each job
  forgotten,  \* the jobs /save/status no longer knows
  capture,    \* the capture a successful job made, 0 before
  now,        \* the time of the latest capture
  made,       \* every capture of the page
  index,      \* those the CDX index lists
  \* the cache
  rows,       \* the submissions table, by job id
  stored,     \* history: the jobs submit_many had stored before anyone polled
  \* the pollers
  pc, job, how,
  known,      \* the row read at the start of capture_status
  current     \* the submission the poller would return now

archive == <<outcome, forgotten, capture, now, made, index>>
poller == <<pc, job, how, known, current>>
vars == <<archive, rows, stored, poller>>

Times == 0..MaxTime
Sub == [status : {"none", "pending", "success", "error"},
        timestamp : Times, submitted_at : Times, url : {"", "page"}]

\* No row; as a submission, one nothing is known of.
NoRow == [status |-> "none", timestamp |-> 0, submitted_at |-> 0, url |-> ""]

\* A submission as submit_many stores it.
Fresh == [status |-> "pending", timestamp |-> 0, submitted_at |-> Submitted, url |-> "page"]

Exists(s) == s.status # "none"
IsFinal(s) == s.status \in {"success", "error"}

Init ==
  /\ outcome = [j \in Jobs |-> "pending"]
  /\ forgotten = {}
  /\ capture = [j \in Jobs |-> 0]
  /\ now = Submitted
  /\ index = 1..(Submitted - 1)
  /\ made = index
  /\ stored \in SUBSET Jobs
  /\ rows = [j \in Jobs |-> IF j \in stored THEN Fresh ELSE NoRow]
  /\ pc = [p \in Pollers |-> "idle"]
  /\ job = [p \in Pollers |-> CHOOSE j \in Jobs : TRUE]
  /\ how = [p \in Pollers |-> "wait"]
  /\ known = [p \in Pollers |-> NoRow]
  /\ current = [p \in Pollers |-> NoRow]

----------------------------------------------------------------------------
(* The Archive *)

CaptureMade(t) == now' = t /\ made' = made \cup {t}

JobSucceeds(j) ==
  /\ outcome[j] = "pending" /\ now < MaxTime
  /\ CaptureMade(now + 1)
  /\ outcome' = [outcome EXCEPT ![j] = "success"]
  /\ capture' = [capture EXCEPT ![j] = now + 1]
  /\ UNCHANGED <<forgotten, index, rows, stored, poller>>

JobFails(j) ==
  /\ outcome[j] = "pending"
  /\ outcome' = [outcome EXCEPT ![j] = "error"]
  /\ UNCHANGED <<forgotten, capture, now, made, index, rows, stored, poller>>

\* About an hour after it ended, or when the Archive loses it.
Forget(j) ==
  /\ j \notin forgotten
  /\ forgotten' = forgotten \cup {j}
  /\ UNCHANGED <<outcome, capture, now, made, index, rows, stored, poller>>

CapturedByOthers ==
  /\ now < MaxTime
  /\ CaptureMade(now + 1)
  /\ UNCHANGED <<outcome, forgotten, capture, index, rows, stored, poller>>

\* The index lists captures late and in any order.
ListCapture ==
  /\ \E t \in made \ index : index' = index \cup {t}
  /\ UNCHANGED <<outcome, forgotten, capture, now, made, rows, stored, poller>>

----------------------------------------------------------------------------
(* wait_for_captures and the callers of capture_status *)

\* A caller waits for a job ("wait"), or asks once, by id or with a submission.
\* wait_for_captures asks by job id alone, whatever the caller passed to it.
Start(p, j, h) ==
  /\ pc[p] \in {"idle", "done"}
  /\ pc' = [pc EXCEPT ![p] = "read"]
  /\ job' = [job EXCEPT ![p] = j]
  /\ how' = [how EXCEPT ![p] = h]
  /\ current' = [current EXCEPT ![p] = IF h = "id" THEN NoRow ELSE Fresh]
  /\ UNCHANGED <<archive, rows, stored, known>>

\* With no submissions given, the pending rows are waited for.
Resume(p, j) ==
  /\ pc[p] \in {"idle", "done"}
  /\ rows[j].status = "pending"
  /\ pc' = [pc EXCEPT ![p] = "read"]
  /\ job' = [job EXCEPT ![p] = j]
  /\ how' = [how EXCEPT ![p] = "wait"]
  /\ current' = [current EXCEPT ![p] = rows[j]]
  /\ UNCHANGED <<archive, rows, stored, known>>

\* After an answer that is not final: sleep and poll again, or the deadline has come.
PollAgain(p) ==
  /\ pc[p] = "pause"
  /\ pc' = [pc EXCEPT ![p] = "read"]
  /\ UNCHANGED <<archive, rows, stored, job, how, known, current>>

\* Mistake: the deadline is computed anew before each poll, and never comes.
TimeOutNever(p) == FALSE

TimeOut(p) ==
  /\ pc[p] = "pause"
  /\ pc' = [pc EXCEPT ![p] = "done"]
  /\ UNCHANGED <<archive, rows, stored, job, how, known, current>>

----------------------------------------------------------------------------
(* capture_status *)

\* get_submission: a final row is the answer.
ReadKnown(p) ==
  /\ pc[p] = "read"
  /\ LET row == rows[job[p]] IN
       IF IsFinal(row)
         THEN /\ pc' = [pc EXCEPT ![p] = "done"]
              /\ current' = [current EXCEPT ![p] = row]
              /\ UNCHANGED known
         ELSE /\ pc' = [pc EXCEPT ![p] = "ask"]
              /\ known' = [known EXCEPT ![p] = row]
              /\ UNCHANGED current
  /\ UNCHANGED <<archive, rows, stored, job, how>>

\* Mistake: a poll by id does not look at what the cache knows of the job.
PreviousIgnoresRow(p) == IF how[p] = "object" THEN Fresh ELSE NoRow

\* known or the submission that was passed.
Previous(p) ==
  IF Exists(known[p]) THEN known[p] ELSE IF how[p] = "object" THEN Fresh ELSE NoRow

\* parse_status_response keeps the URL and the time of the previous submission;
\* without one, the answer may or may not tell the URL.
Answered(p, status, t, told) ==
  [status |-> status, timestamp |-> t,
   submitted_at |-> IF Exists(Previous(p)) THEN Previous(p).submitted_at ELSE now,
   url |-> IF Previous(p).url # "" THEN Previous(p).url ELSE told]

\* GET /save/status: the Archive answers here, the code acts on it steps later.  A
\* success may come without the time of its capture.
AskStatus(p) ==
  /\ pc[p] = "ask"
  /\ job[p] \notin forgotten
  /\ \E told \in {"", "page"}, t \in {0, capture[job[p]]} :
       current' = [current EXCEPT ![p] = Answered(p, outcome[job[p]], t, told)]
  /\ pc' = [pc EXCEPT ![p] = "save"]
  /\ UNCHANGED <<archive, rows, stored, job, how, known>>

\* Mistake: the expiry is put where the status belongs.
AskExpiredAsStatus(p) ==
  /\ pc[p] = "ask"
  /\ job[p] \in forgotten
  /\ current' = [current EXCEPT ![p] = Answered(p, "status-expired", 0, "")]
  /\ pc' = [pc EXCEPT ![p] = "lookup"]
  /\ UNCHANGED <<archive, rows, stored, job, how, known>>

\* 404 without a JSON body: status-expired, pending as far as it goes.
AskExpired(p) ==
  /\ pc[p] = "ask"
  /\ job[p] \in forgotten
  /\ current' = [current EXCEPT ![p] = Answered(p, "pending", 0, "")]
  /\ pc' = [pc EXCEPT ![p] = "lookup"]
  /\ UNCHANGED <<archive, rows, stored, job, how, known>>

\* TransportError: a wait goes on with what it has, a single call raises.
AskFails(p) ==
  /\ pc[p] = "ask"
  /\ pc' = [pc EXCEPT ![p] = IF how[p] = "wait" THEN "pause" ELSE "done"]
  /\ known' = [known EXCEPT ![p] = NoRow]
  /\ UNCHANGED <<archive, rows, stored, job, how, current>>

\* Mistake: the lookup takes any capture of the page, also one made long before.
AnyListed(t) == index

\* Selection.first_after: what it may find.  It takes the first capture it sees, and
\* what it sees is a part of the index, listed so far or answered from the cache
\* some time ago: any listed capture may be the first of such a part.
FirstAfter(t) == {c \in index : c + Slack >= t}

\* _resolve_expired: without a URL there is nothing to find.
LookupFinds(p) ==
  /\ pc[p] = "lookup"
  /\ current[p].url # ""
  /\ \E c \in FirstAfter(current[p].submitted_at) :
       current' = [current EXCEPT ![p] = [@ EXCEPT !.status = "success", !.timestamp = c]]
  /\ pc' = [pc EXCEPT ![p] = "save"]
  /\ UNCHANGED <<archive, rows, stored, job, how, known>>

LookupFindsNothing(p) ==
  /\ pc[p] = "lookup"
  /\ pc' = [pc EXCEPT ![p] = "save"]
  /\ UNCHANGED <<archive, rows, stored, job, how, known, current>>

\* Mistake: every answer is written.
WorthSavingAlways(p) == TRUE

\* Mistake: only a final answer is written.
WorthSavingFinal(p) == IsFinal(current[p])

\* Mistake: the row is written when it was first seen, and never again.
WorthSavingOnce(p) == ~Exists(known[p])

\* if sub.is_final or known is None
WorthSaving(p) == IsFinal(current[p]) \/ ~Exists(known[p])

\* _upsert_submission by job id, whatever the row has become since it was read.
Save(p) ==
  /\ pc[p] = "save"
  /\ rows' = IF WorthSaving(p) THEN [rows EXCEPT ![job[p]] = current[p]] ELSE rows
  /\ pc' = [pc EXCEPT ![p] =
              IF IsFinal(current[p]) \/ how[p] # "wait" THEN "done" ELSE "pause"]
  /\ known' = [known EXCEPT ![p] = NoRow]
  /\ UNCHANGED <<archive, stored, job, how, current>>

\* A read or a write of the database raises, and the poll ends there: a single call
\* raises, and a wait returns the submission it was given (bulk.on_error), whatever it
\* had learned since.  That one is pending; after the end nothing else of it is read.
CacheFails(p) ==
  /\ pc[p] \in {"read", "lookup", "save"}
  /\ pc' = [pc EXCEPT ![p] = "done"]
  /\ known' = [known EXCEPT ![p] = NoRow]
  /\ current' = [current EXCEPT ![p] = IF how[p] = "wait" THEN Fresh ELSE NoRow]
  /\ UNCHANGED <<archive, rows, stored, job, how>>

\* The process ends; only the database survives.
Crash ==
  /\ pc' = [p \in Pollers |-> "idle"]
  /\ known' = [p \in Pollers |-> NoRow]
  /\ current' = [p \in Pollers |-> NoRow]
  /\ UNCHANGED <<archive, rows, stored, job, how>>

Step(p) ==
  \/ ReadKnown(p) \/ AskStatus(p) \/ AskExpired(p) \/ AskFails(p)
  \/ LookupFinds(p) \/ LookupFindsNothing(p) \/ Save(p)
  \/ CacheFails(p) \/ PollAgain(p) \/ TimeOut(p)

Next ==
  \/ \E j \in Jobs : JobSucceeds(j) \/ JobFails(j) \/ Forget(j)
  \/ CapturedByOthers
  \/ ListCapture
  \/ \E p \in Pollers :
       \/ Step(p)
       \/ \E j \in Jobs : Resume(p, j) \/ \E h \in {"wait", "object", "id"} : Start(p, j, h)
  \/ Crash

Spec == Init /\ [][Next]_vars

\* A poll that has begun goes on: answers come or time out, sleeps end.  A wait
\* has a deadline, so it does not poll again at every pause.  Nothing is asked of
\* the Archive, and nobody has to start a poll.
Fairness == \A p \in Pollers : WF_vars(Step(p)) /\ SF_vars(TimeOut(p))

FairSpec == Spec /\ Fairness

----------------------------------------------------------------------------
(* Properties *)

\* Every variable keeps to its values, and the index lists only captures that were
\* made; what capture_status returns and saves is a submission with all its columns.
TypeOK ==
  /\ outcome \in [Jobs -> {"pending", "success", "error"}]
  /\ forgotten \subseteq Jobs
  /\ capture \in [Jobs -> Times]
  /\ now \in Times
  /\ made \subseteq Times
  /\ index \subseteq made
  /\ rows \in [Jobs -> Sub]
  /\ stored \subseteq Jobs
  /\ pc \in [Pollers -> {"idle", "read", "ask", "lookup", "save", "pause", "done"}]
  /\ job \in [Pollers -> Jobs]
  /\ how \in [Pollers -> {"wait", "object", "id"}]
  /\ known \in [Pollers -> Sub]
  /\ current \in [Pollers -> Sub]

\* Once a stored job is final in the cache it stays final: no answer that was on
\* its way when another poller saved the end of the job turns it back to pending.
FinalStaysFinal ==
  [][\A j \in stored : IsFinal(rows[j]) => IsFinal(rows'[j])]_vars

\* A final answer handed to a caller has left a row in the cache, and for a job that
\* submit_many stored that row is final, however the polls overlap and though saves may
\* fail: a crash after the call returned costs nothing.  For a job the cache did not know,
\* the row may be pending: of two polls that both read that, the one with the pending
\* answer may save last (client.py:167).
FinalAnswerStored ==
  \A p \in Pollers : (pc[p] = "done" /\ IsFinal(current[p])) =>
    /\ Exists(rows[job[p]])
    /\ job[p] \in stored => IsFinal(rows[job[p]])

\* Polling never takes the URL or the submission time from a stored job, though a
\* wait asks by job id only and _upsert_submission overwrites every column.
IdentityKept ==
  \A j \in stored : rows[j].url = "page" /\ rows[j].submitted_at = Submitted

\* A job called successful has a capture of the page, which the job itself made or
\* which is no older than the slack before the submission; or the row names no capture,
\* and then the job did succeed.
SuccessHasCapture ==
  \A j \in stored : rows[j].status = "success" =>
    \/ rows[j].timestamp = 0 /\ outcome[j] = "success"
    \/ rows[j].timestamp \in made /\ rows[j].timestamp + Slack >= Submitted

\* A job whose wait may end without an end of the job can be resumed from the cache,
\* also when the cache had never heard of it: the first answer leaves a row.
WaitedIsResumable ==
  \A p \in Pollers : pc[p] = "pause" /\ current[p].status = "pending" =>
    \/ Exists(rows[job[p]])
    \/ current[p] = Fresh    \* no answer yet: every poll so far has failed

\* Every poll ends.
WaitEnds == \A p \in Pollers : (pc[p] = "read") ~> (pc[p] \in {"done", "idle"})
=============================================================================
