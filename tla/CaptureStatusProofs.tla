------------------------ MODULE CaptureStatusProofs ------------------------
(***************************************************************************)
(* Theorems about CaptureStatus, for any jobs, any pollers, any captures.  *)
(***************************************************************************)
EXTENDS CaptureStatus, TLAPS

\* The submissions the code builds are submissions.
LEMMA BuiltIn ==
  NoRow \in Sub /\ Fresh \in Sub
  BY BoundsAssumption DEF NoRow, Fresh, Sub, Times

\* So is what a status answer is made into.
LEMMA AnsweredType ==
  ASSUME TypeOK, NEW p \in Pollers, NEW t \in Times, NEW told \in {"", "page"},
         NEW s \in {"none", "pending", "success", "error"}
  PROVE  Answered(p, s, t, told) \in Sub
  <1>1. Previous(p) \in Sub
    BY BuiltIn DEF Previous, TypeOK
  <1>2. QED
    BY <1>1 DEF Answered, Sub, TypeOK

\* And what an expired job becomes when its capture is found.
LEMMA FoundType ==
  ASSUME NEW s \in Sub, NEW c \in Times
  PROVE  [s EXCEPT !.status = "success", !.timestamp = c] \in Sub
  BY DEF Sub

\* No step of a poller or of the Archive leaves the types, for any number of jobs and
\* pollers.
THEOREM TypeCorrect == Spec => []TypeOK
  <1>1. Init => TypeOK
    BY JobsAssumption, BoundsAssumption, BuiltIn DEF Init, TypeOK, Times
  <1>2. TypeOK /\ [Next]_vars => TypeOK'
    <2> SUFFICES ASSUME TypeOK, [Next]_vars PROVE TypeOK'
      OBVIOUS
    <2> USE DEF TypeOK
    <2>1. ASSUME NEW j \in Jobs, JobSucceeds(j) PROVE TypeOK'
      BY <2>1, BoundsAssumption DEF JobSucceeds, CaptureMade, Times, poller
    <2>2. ASSUME NEW j \in Jobs, JobFails(j) PROVE TypeOK'
      BY <2>2 DEF JobFails, poller
    <2>3. ASSUME NEW j \in Jobs, Forget(j) PROVE TypeOK'
      BY <2>3 DEF Forget, poller
    <2>4. CASE CapturedByOthers
      BY <2>4, BoundsAssumption DEF CapturedByOthers, CaptureMade, Times, poller
    <2>5. CASE ListCapture
      BY <2>5 DEF ListCapture, poller
    <2>6. ASSUME NEW p \in Pollers, NEW j \in Jobs, NEW h \in {"wait", "object", "id"},
                 Start(p, j, h)
          PROVE  TypeOK'
      BY <2>6, BuiltIn DEF Start, archive
    <2>7. ASSUME NEW p \in Pollers, NEW j \in Jobs, Resume(p, j) PROVE TypeOK'
      BY <2>7 DEF Resume, archive
    <2>8. ASSUME NEW p \in Pollers, PollAgain(p) \/ TimeOut(p) PROVE TypeOK'
      BY <2>8 DEF PollAgain, TimeOut, archive
    <2>9. ASSUME NEW p \in Pollers, ReadKnown(p) PROVE TypeOK'
      BY <2>9 DEF ReadKnown, archive
    <2>10. ASSUME NEW p \in Pollers, AskStatus(p) PROVE TypeOK'
      <3>0. 0 \in Times /\ capture[job[p]] \in Times
        <4>1. 0 \in Times
          BY BoundsAssumption DEF Times
        <4>2. QED
          BY <4>1
      <3>1. PICK told \in {"", "page"}, t \in {0, capture[job[p]]} :
              current' = [current EXCEPT ![p] = Answered(p, outcome[job[p]], t, told)]
        BY <2>10 DEF AskStatus
      <3>2. Answered(p, outcome[job[p]], t, told) \in Sub
        <4>1. t \in Times
          BY <3>0
        <4>2. outcome[job[p]] \in {"none", "pending", "success", "error"}
          OBVIOUS
        <4>3. QED
          BY <4>1, <4>2, AnsweredType
      <3>3. current' \in [Pollers -> Sub]
        BY <3>1, <3>2
      <3>4. QED
        BY <2>10, <3>3 DEF AskStatus, archive
    <2>11. ASSUME NEW p \in Pollers, AskExpired(p) PROVE TypeOK'
      <3>1. Answered(p, "pending", 0, "") \in Sub
        <4>1. 0 \in Times
          BY BoundsAssumption DEF Times
        <4>2. QED
          BY <4>1, AnsweredType
      <3>2. current' \in [Pollers -> Sub]
        BY <2>11, <3>1 DEF AskExpired
      <3>3. QED
        BY <2>11, <3>2 DEF AskExpired, archive
    <2>12. ASSUME NEW p \in Pollers, AskFails(p) PROVE TypeOK'
      BY <2>12, BuiltIn DEF AskFails, archive
    <2>13. ASSUME NEW p \in Pollers, LookupFinds(p) PROVE TypeOK'
      <3>1. PICK c \in index :
              current' = [current EXCEPT ![p] = [@ EXCEPT !.status = "success", !.timestamp = c]]
        BY <2>13 DEF LookupFinds, FirstAfter
      <3>2. c \in Times
        BY <3>1
      <3>3. [current[p] EXCEPT !.status = "success", !.timestamp = c] \in Sub
        BY <3>2, FoundType
      <3>4. current' \in [Pollers -> Sub]
        BY <3>1, <3>3
      <3>5. QED
        BY <2>13, <3>4 DEF LookupFinds, archive
    <2>14. ASSUME NEW p \in Pollers, LookupFindsNothing(p) PROVE TypeOK'
      BY <2>14 DEF LookupFindsNothing, archive
    <2>15. ASSUME NEW p \in Pollers, Save(p) PROVE TypeOK'
      BY <2>15, BuiltIn DEF Save, archive
    <2>16. ASSUME NEW p \in Pollers, CacheFails(p) PROVE TypeOK'
      BY <2>16, BuiltIn DEF CacheFails, archive
    <2>17. CASE Crash
      BY <2>17, BuiltIn DEF Crash, archive
    <2>18. CASE UNCHANGED vars
      BY <2>18 DEF vars, archive, poller
    <2>19. QED
      BY <2>1, <2>2, <2>3, <2>4, <2>5, <2>6, <2>7, <2>8, <2>9, <2>10, <2>11, <2>12,
         <2>13, <2>14, <2>15, <2>16, <2>17, <2>18 DEF Next, Step
  <1>3. QED
    BY <1>1, <1>2, PTL DEF Spec

----------------------------------------------------------------------------
(* What the cache keeps of a job it knows *)

\* A submission of the page, made when the jobs were submitted.
Identified(s) == Exists(s) /\ s.url = "page" /\ s.submitted_at = Submitted

\* A stored job's row, the copy a poller read of it, and the answer the poller is
\* about to save all carry the identity submit_many gave the job.
IdentityInv ==
  /\ stored \subseteq Jobs
  /\ \A j \in stored : Identified(rows[j])
  /\ \A p \in Pollers : job[p] \in stored =>
       /\ pc[p] \in {"ask", "lookup", "save"} => Identified(known[p])
       /\ pc[p] \in {"lookup", "save"} => Identified(current[p])

\* An answer carries the identity of the row that was read before the question.
LEMMA AnsweredIdentified ==
  ASSUME NEW p \in Pollers, NEW s \in {"pending", "success", "error"}, NEW t, NEW told,
         Identified(known[p])
  PROVE  Identified(Answered(p, s, t, told))
  BY DEF Answered, Previous, Identified, Exists

LEMMA IdentityStep == TypeOK /\ IdentityInv /\ [Next]_vars => IdentityInv'
  <1> SUFFICES ASSUME TypeOK, IdentityInv, [Next]_vars PROVE IdentityInv'
    OBVIOUS
  <1> USE DEF TypeOK, IdentityInv
  <1>e. ASSUME UNCHANGED <<rows, stored, poller>> PROVE IdentityInv'
    BY <1>e DEF poller
  <1>1. ASSUME NEW j \in Jobs, JobSucceeds(j) \/ JobFails(j) \/ Forget(j) PROVE IdentityInv'
    BY <1>1, <1>e DEF JobSucceeds, JobFails, Forget
  <1>2. CASE CapturedByOthers \/ ListCapture
    BY <1>2, <1>e DEF CapturedByOthers, ListCapture
  <1>3. ASSUME NEW p \in Pollers, NEW j \in Jobs, NEW h \in {"wait", "object", "id"},
               Start(p, j, h) \/ Resume(p, j)
        PROVE  IdentityInv'
    BY <1>3 DEF Start, Resume
  <1>4. ASSUME NEW p \in Pollers, PollAgain(p) \/ TimeOut(p) \/ AskFails(p) PROVE IdentityInv'
    BY <1>4 DEF PollAgain, TimeOut, AskFails
  <1>5. ASSUME NEW p \in Pollers, ReadKnown(p) PROVE IdentityInv'
    BY <1>5 DEF ReadKnown
  <1>6. ASSUME NEW p \in Pollers, AskStatus(p) PROVE IdentityInv'
    <2>1. PICK told \in {"", "page"}, t \in {0, capture[job[p]]} :
            current' = [current EXCEPT ![p] = Answered(p, outcome[job[p]], t, told)]
      BY <1>6 DEF AskStatus
    <2>2. job[p] \in stored => Identified(current'[p])
      BY <1>6, <2>1, AnsweredIdentified DEF AskStatus
    <2>3. QED
      BY <1>6, <2>1, <2>2 DEF AskStatus
  <1>7. ASSUME NEW p \in Pollers, AskExpired(p) PROVE IdentityInv'
    <2>1. job[p] \in stored => Identified(current'[p])
      BY <1>7, AnsweredIdentified DEF AskExpired
    <2>2. QED
      BY <1>7, <2>1 DEF AskExpired
  <1>8. ASSUME NEW p \in Pollers, LookupFinds(p) PROVE IdentityInv'
    <2>1. PICK c \in index :
            current' = [current EXCEPT ![p] = [@ EXCEPT !.status = "success", !.timestamp = c]]
      BY <1>8 DEF LookupFinds, FirstAfter
    <2>2. job[p] \in stored => Identified(current'[p])
      <3>1. job[p] \in stored => Identified(current[p])
        BY <1>8 DEF LookupFinds
      <3>2. current[p] \in Sub /\ current'[p] = [current[p] EXCEPT !.status = "success", !.timestamp = c]
        BY <2>1
      <3>3. QED
        BY <3>1, <3>2 DEF Identified, Exists, Sub
    <2>3. QED
      BY <1>8, <2>1, <2>2 DEF LookupFinds
  <1>9. ASSUME NEW p \in Pollers, LookupFindsNothing(p) PROVE IdentityInv'
    BY <1>9 DEF LookupFindsNothing
  <1>10. ASSUME NEW p \in Pollers, Save(p) PROVE IdentityInv'
    BY <1>10 DEF Save
  <1>11. ASSUME NEW p \in Pollers, CacheFails(p) PROVE IdentityInv'
    BY <1>11 DEF CacheFails
  <1>12. CASE Crash
    BY <1>12 DEF Crash
  <1>13. CASE UNCHANGED vars
    BY <1>13, <1>e DEF vars
  <1>14. QED
    BY <1>1, <1>2, <1>3, <1>4, <1>5, <1>6, <1>7, <1>8, <1>9, <1>10, <1>11, <1>12, <1>13
    DEF Next, Step

LEMMA IdentityAlways == Spec => []IdentityInv
  <1>1. Init => IdentityInv
    BY DEF Init, IdentityInv, Identified, Exists, Fresh
  <1>2. QED
    BY <1>1, TypeCorrect, IdentityStep, PTL DEF Spec

\* No poll takes the URL or the submission time from a stored job: each answer that
\* is written carries what the poller had read, though a wait asks by job id alone.
THEOREM IdentityNeverLost == Spec => []IdentityKept
  <1>1. IdentityInv => IdentityKept
    BY DEF IdentityInv, IdentityKept, Identified
  <1>2. QED
    BY <1>1, IdentityAlways, PTL

\* What a step may do to the row of a stored job: nothing, or make it final.
LEMMA StoredRowStep ==
  ASSUME TypeOK, IdentityInv, [Next]_vars, NEW j \in stored
  PROVE  rows'[j] = rows[j] \/ IsFinal(rows'[j])
  <1>1. CASE \E p \in Pollers : Save(p)
    <2>1. PICK p \in Pollers : Save(p)
      BY <1>1
    <2>2. CASE job[p] = j
      <3>1. Exists(known[p])
        BY <2>1, <2>2 DEF Save, IdentityInv, Identified
      <3>2. WorthSaving(p) => IsFinal(current[p])
        BY <3>1 DEF WorthSaving
      <3>3. QED
        BY <2>1, <2>2, <3>2 DEF Save, TypeOK
    <2>3. CASE job[p] # j
      BY <2>1, <2>3 DEF Save, TypeOK
    <2>4. QED
      BY <2>2, <2>3
  <1>2. CASE ~\E p \in Pollers : Save(p)
    BY <1>2 DEF Next, vars, Step, JobSucceeds, JobFails, Forget, CapturedByOthers,
       ListCapture, Start, Resume, PollAgain, TimeOut, ReadKnown, AskStatus, AskExpired,
       AskFails, LookupFinds, LookupFindsNothing, CacheFails, Crash
  <1>3. QED
    BY <1>1, <1>2

\* The end of a stored job, once in the cache, is never overwritten by an answer
\* that says pending, in whatever order the answers of many pollers arrive.
THEOREM FinalNeverLost == Spec => FinalStaysFinal
  <1>1. TypeOK /\ IdentityInv /\ [Next]_vars
          => [\A j \in stored : IsFinal(rows[j]) => IsFinal(rows'[j])]_vars
    BY StoredRowStep
  <1>2. QED
    BY <1>1, TypeCorrect, IdentityAlways, PTL DEF Spec, FinalStaysFinal

----------------------------------------------------------------------------
(* What a wait leaves behind *)

\* An answer is never about a job of no status; what was read of a job is still in the
\* cache in some form; and who has had an answer has left a row.
ResumeInv ==
  /\ \A p \in Pollers : pc[p] \in {"lookup", "save"} => Exists(current[p])
  /\ \A p \in Pollers :
       pc[p] \in {"ask", "lookup", "save"} /\ Exists(known[p]) => Exists(rows[job[p]])
  /\ \A p \in Pollers : pc[p] \in {"read", "ask", "pause"} /\ current[p].status = "pending" =>
       Exists(rows[job[p]]) \/ current[p] = Fresh

\* No step takes a row away.
LEMMA RowsStay ==
  ASSUME TypeOK, ResumeInv, [Next]_vars, NEW j \in Jobs, Exists(rows[j])
  PROVE  Exists(rows'[j])
  <1>1. CASE \E p \in Pollers : Save(p)
    <2>1. PICK p \in Pollers : Save(p)
      BY <1>1
    <2>2. rows'[j] = rows[j] \/ rows'[j] = current[p]
      BY <2>1 DEF Save, TypeOK
    <2>3. Exists(current[p])
      BY <2>1 DEF Save, ResumeInv
    <2>4. QED
      BY <2>2, <2>3
  <1>2. CASE ~\E p \in Pollers : Save(p)
    BY <1>2 DEF Next, vars, Step, JobSucceeds, JobFails, Forget, CapturedByOthers,
       ListCapture, Start, Resume, PollAgain, TimeOut, ReadKnown, AskStatus, AskExpired,
       AskFails, LookupFinds, LookupFindsNothing, CacheFails, Crash
  <1>3. QED
    BY <1>1, <1>2

LEMMA AnsweredExists ==
  ASSUME NEW p \in Pollers, NEW s \in {"pending", "success", "error"}, NEW t, NEW told
  PROVE  Exists(Answered(p, s, t, told))
  BY DEF Answered, Exists

LEMMA ResumeStep == TypeOK /\ ResumeInv /\ [Next]_vars => ResumeInv'
  <1> SUFFICES ASSUME TypeOK, ResumeInv, [Next]_vars PROVE ResumeInv'
    OBVIOUS
  <1>0. \A j \in Jobs : Exists(rows[j]) => Exists(rows'[j])
    BY RowsStay
  <1> USE DEF TypeOK, ResumeInv
  <1>e. ASSUME UNCHANGED <<rows, poller>> PROVE ResumeInv'
    BY <1>e DEF poller
  <1>1. ASSUME NEW j \in Jobs, JobSucceeds(j) \/ JobFails(j) \/ Forget(j) PROVE ResumeInv'
    BY <1>1, <1>e DEF JobSucceeds, JobFails, Forget
  <1>2. CASE CapturedByOthers \/ ListCapture
    BY <1>2, <1>e DEF CapturedByOthers, ListCapture
  <1>3. ASSUME NEW p \in Pollers, NEW j \in Jobs, NEW h \in {"wait", "object", "id"},
               Start(p, j, h)
        PROVE  ResumeInv'
    BY <1>3 DEF Start, NoRow
  <1>4. ASSUME NEW p \in Pollers, NEW j \in Jobs, Resume(p, j) PROVE ResumeInv'
    BY <1>4 DEF Resume, Exists
  <1>5. ASSUME NEW p \in Pollers, PollAgain(p) \/ TimeOut(p) PROVE ResumeInv'
    BY <1>5 DEF PollAgain, TimeOut
  <1>6. ASSUME NEW p \in Pollers, AskFails(p) PROVE ResumeInv'
    BY <1>6 DEF AskFails
  <1>7. ASSUME NEW p \in Pollers, ReadKnown(p) PROVE ResumeInv'
    BY <1>7 DEF ReadKnown
  <1>8. ASSUME NEW p \in Pollers, AskStatus(p) PROVE ResumeInv'
    <2>1. Exists(current'[p])
      <3>1. PICK told \in {"", "page"}, t \in {0, capture[job[p]]} :
              current' = [current EXCEPT ![p] = Answered(p, outcome[job[p]], t, told)]
        BY <1>8 DEF AskStatus
      <3>2. Exists(Answered(p, outcome[job[p]], t, told))
        BY AnsweredExists
      <3>3. QED
        BY <3>1, <3>2
    <2>2. QED
      BY <1>8, <2>1 DEF AskStatus
  <1>9. ASSUME NEW p \in Pollers, AskExpired(p) PROVE ResumeInv'
    <2>1. Exists(current'[p])
      BY <1>9, AnsweredExists DEF AskExpired
    <2>2. QED
      BY <1>9, <2>1 DEF AskExpired
  <1>10. ASSUME NEW p \in Pollers, LookupFinds(p) PROVE ResumeInv'
    <2>1. Exists(current'[p])
      <3>1. PICK c : current' = [current EXCEPT ![p] =
                                   [@ EXCEPT !.status = "success", !.timestamp = c]]
        BY <1>10 DEF LookupFinds
      <3>2. current[p] \in Sub
            /\ current'[p] = [current[p] EXCEPT !.status = "success", !.timestamp = c]
        BY <3>1
      <3>3. QED
        BY <3>2 DEF Exists, Sub
    <2>2. QED
      BY <1>10, <2>1 DEF LookupFinds
  <1>11. ASSUME NEW p \in Pollers, LookupFindsNothing(p) PROVE ResumeInv'
    BY <1>11 DEF LookupFindsNothing
  <1>f. ASSUME NEW p \in Pollers, CacheFails(p) PROVE ResumeInv'
    BY <1>f DEF CacheFails
  <1>12. ASSUME NEW p \in Pollers, Save(p) PROVE ResumeInv'
    <2>1. Exists(rows'[job[p]])
      <3>1. Exists(current[p])
        BY <1>12 DEF Save
      <3>2. CASE WorthSaving(p)
        BY <1>12, <3>1, <3>2 DEF Save
      <3>3. CASE ~WorthSaving(p)
        BY <1>12, <3>3 DEF Save, WorthSaving
      <3>4. QED
        BY <3>2, <3>3
    <2>2. /\ job' = job /\ current' = current
          /\ \A q \in Pollers : q # p => pc'[q] = pc[q] /\ known'[q] = known[q]
          /\ pc'[p] \in {"done", "pause"}
      BY <1>12 DEF Save
    <2>3. QED
      BY <1>0, <2>1, <2>2
  <1>13. CASE Crash
    BY <1>13 DEF Crash
  <1>14. CASE UNCHANGED vars
    BY <1>14, <1>e DEF vars
  <1>15. QED
    BY <1>1, <1>2, <1>3, <1>4, <1>5, <1>6, <1>7, <1>8, <1>9, <1>10, <1>11, <1>12, <1>13,
       <1>14, <1>f DEF Next, Step

LEMMA ResumeAlways == Spec => []ResumeInv
  <1>1. Init => ResumeInv
    BY DEF Init, ResumeInv
  <1>2. QED
    BY <1>1, TypeCorrect, ResumeStep, PTL DEF Spec

\* A wait that may end without the end of its job has left a row to go on from, also of a
\* job that the cache had never heard of, unless no answer ever came.
THEOREM WaitsAreResumable == Spec => []WaitedIsResumable
  <1>1. ResumeInv => WaitedIsResumable
    BY DEF ResumeInv, WaitedIsResumable
  <1>2. QED
    BY <1>1, ResumeAlways, PTL

----------------------------------------------------------------------------
(* What a caller was told *)

\* A poll that is still on its way has no final answer, and one that ended with a
\* final answer has left a row, of a stored job a final one.
ToldInv ==
  /\ \A p \in Pollers : pc[p] \in {"read", "ask", "lookup", "pause"} => ~IsFinal(current[p])
  /\ FinalAnswerStored

LEMMA ToldStep ==
  TypeOK /\ IdentityInv /\ ResumeInv /\ ToldInv /\ [Next]_vars => ToldInv'
  <1> SUFFICES ASSUME TypeOK, IdentityInv, ResumeInv, ToldInv, [Next]_vars PROVE ToldInv'
    OBVIOUS
  <1> USE DEF TypeOK, ToldInv, FinalAnswerStored
  <1>0. \A j \in stored : IsFinal(rows[j]) => IsFinal(rows'[j])
    BY StoredRowStep
  <1>r. \A j \in Jobs : Exists(rows[j]) => Exists(rows'[j])
    BY RowsStay
  <1>e. ASSUME UNCHANGED <<rows, stored, poller>> PROVE ToldInv'
    BY <1>e DEF poller
  <1>1. ASSUME NEW j \in Jobs, JobSucceeds(j) \/ JobFails(j) \/ Forget(j) PROVE ToldInv'
    BY <1>1, <1>e DEF JobSucceeds, JobFails, Forget
  <1>2. CASE CapturedByOthers \/ ListCapture
    BY <1>2, <1>e DEF CapturedByOthers, ListCapture
  <1>3. ASSUME NEW p \in Pollers, NEW j \in Jobs, NEW h \in {"wait", "object", "id"},
               Start(p, j, h)
        PROVE  ToldInv'
    BY <1>3 DEF Start, NoRow, Fresh, IsFinal
  <1>4. ASSUME NEW p \in Pollers, NEW j \in Jobs, Resume(p, j) PROVE ToldInv'
    BY <1>4 DEF Resume, IsFinal
  <1>5. ASSUME NEW p \in Pollers, PollAgain(p) \/ TimeOut(p) \/ AskFails(p) PROVE ToldInv'
    BY <1>5 DEF PollAgain, TimeOut, AskFails
  <1>6. ASSUME NEW p \in Pollers, ReadKnown(p) PROVE ToldInv'
    BY <1>6 DEF ReadKnown, Exists, IsFinal
  <1>7. ASSUME NEW p \in Pollers, AskStatus(p) PROVE ToldInv'
    BY <1>7 DEF AskStatus
  <1>8. ASSUME NEW p \in Pollers, AskExpired(p) PROVE ToldInv'
    <2>1. ~IsFinal(Answered(p, "pending", 0, ""))
      BY DEF Answered, IsFinal
    <2>2. QED
      BY <1>8, <2>1 DEF AskExpired
  <1>9. ASSUME NEW p \in Pollers, LookupFinds(p) \/ LookupFindsNothing(p) PROVE ToldInv'
    BY <1>9 DEF LookupFinds, LookupFindsNothing
  <1>10. ASSUME NEW p \in Pollers, Save(p) PROVE ToldInv'
    <2>1. \A q \in Pollers : q # p => pc'[q] = pc[q]
      BY <1>10 DEF Save
    <2>2. IsFinal(current[p]) => rows'[job[p]] = current[p]
      BY <1>10 DEF Save, WorthSaving
    <2>3. \/ pc'[p] = "pause" /\ ~IsFinal(current[p])
          \/ pc'[p] = "done"
      BY <1>10 DEF Save
    <2>4. IsFinal(current[p]) => Exists(rows'[job[p]])
      BY <2>2 DEF IsFinal, Exists
    <2>5. QED
      BY <1>10, <1>0, <1>r, <2>1, <2>2, <2>3, <2>4 DEF Save
  <1>11. ASSUME NEW p \in Pollers, CacheFails(p) PROVE ToldInv'
    BY <1>11 DEF CacheFails, NoRow, Fresh, IsFinal
  <1>12. CASE Crash
    BY <1>12 DEF Crash
  <1>13. CASE UNCHANGED vars
    BY <1>13, <1>e DEF vars
  <1>14. QED
    BY <1>1, <1>2, <1>3, <1>4, <1>5, <1>6, <1>7, <1>8, <1>9, <1>10, <1>11, <1>12, <1>13
    DEF Next, Step

\* A caller that is told the end of a job may forget it: the cache has a row of the job,
\* and keeps it whatever other pollers do, whichever call of the database fails and
\* whenever the process ends; and if submit_many stored the job, the row says its end.
THEOREM ToldIsStored == Spec => []FinalAnswerStored
  <1>1. Init => ToldInv
    BY DEF Init, ToldInv, FinalAnswerStored
  <1>2. ToldInv => FinalAnswerStored
    BY DEF ToldInv
  <1>3. QED
    BY <1>1, <1>2, TypeCorrect, IdentityAlways, ResumeAlways, ToldStep, PTL DEF Spec

----------------------------------------------------------------------------
(* What success means *)

\* A capture the job may be credited with.
Creditable(t) == t \in made /\ t + Slack >= Submitted

\* A success of the job that names no capture, or one it may be credited with.
Shown(j, s) == Creditable(s.timestamp) \/ (s.timestamp = 0 /\ outcome[j] = "success")

\* The clock has reached the submission; what successful jobs made, what successful
\* answers on their way say and what successful rows say are creditable captures, or
\* no captures at all.
CaptureInv ==
  /\ now >= Submitted
  /\ \A j \in Jobs : outcome[j] = "success" => Creditable(capture[j])
  /\ \A p \in Pollers :
       (job[p] \in stored /\ pc[p] = "save" /\ current[p].status = "success")
         => Shown(job[p], current[p])
  /\ \A j \in stored : rows[j].status = "success" => Shown(j, rows[j])

LEMMA CaptureStep ==
  TypeOK /\ IdentityInv /\ ToldInv /\ CaptureInv /\ [Next]_vars => CaptureInv'
  <1> SUFFICES ASSUME TypeOK, IdentityInv, ToldInv, CaptureInv, [Next]_vars PROVE CaptureInv'
    OBVIOUS
  <1> USE BoundsAssumption DEF TypeOK, CaptureInv, Creditable, Shown, Times
  <1>e. ASSUME UNCHANGED <<now, outcome, capture, rows, stored, poller>>, made \subseteq made'
        PROVE  CaptureInv'
    BY <1>e DEF poller
  <1>a. ASSUME UNCHANGED <<archive, rows, stored, job>>, NEW p \in Pollers,
               \A q \in Pollers : q # p => pc'[q] = pc[q] /\ current'[q] = current[q],
               pc'[p] # "save"
        PROVE  CaptureInv'
    BY <1>a DEF archive
  <1>1. ASSUME NEW j \in Jobs, JobSucceeds(j) PROVE CaptureInv'
    BY <1>1 DEF JobSucceeds, CaptureMade, poller
  <1>2. ASSUME NEW j \in Jobs, JobFails(j) PROVE CaptureInv'
    BY <1>2 DEF JobFails, poller
  <1>3. CASE (\E j \in Jobs : Forget(j)) \/ ListCapture
    BY <1>3, <1>e DEF Forget, ListCapture
  <1>4. CASE CapturedByOthers
    BY <1>4 DEF CapturedByOthers, CaptureMade, poller
  <1>5. ASSUME NEW p \in Pollers, NEW j \in Jobs, NEW h \in {"wait", "object", "id"},
               Start(p, j, h) \/ Resume(p, j)
        PROVE  CaptureInv'
    BY <1>5 DEF Start, Resume, archive
  <1>6. ASSUME NEW p \in Pollers, PollAgain(p) \/ TimeOut(p) \/ AskFails(p) \/ CacheFails(p)
        PROVE  CaptureInv'
    BY <1>6, <1>a DEF PollAgain, TimeOut, AskFails, CacheFails
  <1>7. ASSUME NEW p \in Pollers, ReadKnown(p) \/ AskExpired(p) PROVE CaptureInv'
    BY <1>7, <1>a DEF ReadKnown, AskExpired
  <1>8. ASSUME NEW p \in Pollers, AskStatus(p) PROVE CaptureInv'
    <2>1. \/ current'[p].status # "success"
          \/ Shown(job[p], current'[p])
      <3>1. PICK told \in {"", "page"}, t \in {0, capture[job[p]]} :
              current' = [current EXCEPT ![p] = Answered(p, outcome[job[p]], t, told)]
        BY <1>8 DEF AskStatus
      <3>2. /\ current'[p].status = outcome[job[p]]
            /\ current'[p].timestamp = t
        <4>1. current'[p] = Answered(p, outcome[job[p]], t, told)
          BY <3>1
        <4>2. \A said \in {"", "page"} :
                /\ Answered(p, outcome[job[p]], t, said).status = outcome[job[p]]
                /\ Answered(p, outcome[job[p]], t, said).timestamp = t
          BY DEF Answered
        <4>3. QED
          BY <4>1, <4>2
      <3>3. CASE t = 0
        BY <3>2, <3>3
      <3>4. CASE t = capture[job[p]]
        <4>1. outcome[job[p]] = "success" => Creditable(capture[job[p]])
          OBVIOUS
        <4>2. QED
          BY <3>2, <3>4, <4>1
      <3>5. QED
        BY <3>1, <3>3, <3>4
    <2>2. \A q \in Pollers : q # p => current'[q] = current[q] /\ pc'[q] = pc[q]
      BY <1>8 DEF AskStatus
    <2>3. UNCHANGED <<now, outcome, capture, made, rows, stored, job>>
      BY <1>8 DEF AskStatus, archive
    <2>4. QED
      BY <2>1, <2>2, <2>3
  <1>9. ASSUME NEW p \in Pollers, LookupFinds(p) PROVE CaptureInv'
    <2>1. PICK c \in FirstAfter(current[p].submitted_at) :
            current' = [current EXCEPT ![p] = [@ EXCEPT !.status = "success", !.timestamp = c]]
      BY <1>9 DEF LookupFinds
    <2>2. current'[p].timestamp = c
      BY <2>1 DEF Sub
    <2>3. job[p] \in stored => Creditable(c)
      BY <1>9, <2>1 DEF LookupFinds, FirstAfter, IdentityInv, Identified
    <2>4. \A q \in Pollers : q # p => current'[q] = current[q] /\ pc'[q] = pc[q]
      BY <1>9, <2>1 DEF LookupFinds
    <2>5. UNCHANGED <<now, outcome, capture, made, rows, stored, job>>
      BY <1>9 DEF LookupFinds, archive
    <2>6. QED
      BY <2>2, <2>3, <2>4, <2>5
  <1>10. ASSUME NEW p \in Pollers, LookupFindsNothing(p) PROVE CaptureInv'
    <2>1. current[p].status # "success"
      BY <1>10 DEF LookupFindsNothing, ToldInv, IsFinal
    <2>2. QED
      BY <1>10, <2>1 DEF LookupFindsNothing, archive
  <1>11. ASSUME NEW p \in Pollers, Save(p) PROVE CaptureInv'
    <2>1. \A j \in Jobs : rows'[j] = rows[j] \/ (j = job[p] /\ rows'[j] = current[p])
      BY <1>11 DEF Save
    <2>2. \A q \in Pollers : pc'[q] = "save" => q # p /\ pc[q] = "save"
      BY <1>11 DEF Save
    <2>3. QED
      BY <1>11, <2>1, <2>2 DEF Save, archive
  <1>12. CASE Crash
    BY <1>12 DEF Crash, archive
  <1>13. CASE UNCHANGED vars
    BY <1>13, <1>e DEF vars, archive
  <1>14. QED
    BY <1>1, <1>2, <1>3, <1>4, <1>5, <1>6, <1>7, <1>8, <1>9, <1>10, <1>11, <1>12, <1>13
    DEF Next, Step

\* A stored job that is called successful has a capture to show, one the job made or
\* one the lookup may credit it with.
THEOREM SuccessIsReal == Spec => []SuccessHasCapture
  <1>1. Init => ToldInv /\ CaptureInv
    <2> SUFFICES ASSUME Init PROVE ToldInv /\ CaptureInv
      OBVIOUS
    <2>1. \A p \in Pollers : pc[p] = "idle"
      BY DEF Init
    <2>2. \A j \in Jobs : outcome[j] = "pending" /\ rows[j].status # "success"
      BY DEF Init, Fresh, NoRow
    <2>3. now >= Submitted
      BY BoundsAssumption DEF Init
    <2>4. stored \subseteq Jobs
      BY DEF Init
    <2>5. QED
      BY <2>1, <2>2, <2>3, <2>4 DEF ToldInv, FinalAnswerStored, CaptureInv
  <1>2. CaptureInv => SuccessHasCapture
    BY DEF CaptureInv, SuccessHasCapture, Creditable, Shown
  <1>3. QED
    BY <1>1, <1>2, TypeCorrect, IdentityAlways, ResumeAlways, ToldStep, CaptureStep, PTL DEF Spec
=============================================================================
