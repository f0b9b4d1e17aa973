-------------------------- MODULE SubmitManyProofs --------------------------
(***************************************************************************)
(* Where the job of each item is, in each of its steps: for any calls,     *)
(* URLs, workers, retries, lost answers, crashes and failing calls of the  *)
(* database, what the Archive made is recorded or known to be unsaved, and *)
(* what a caller is told is what the table says.                           *)
(***************************************************************************)
EXTENDS SubmitMany, FiniteSetTheorems, TLAPS

JobsOf(i) == {j \in accepted : ItemOf(j) = i}
Answered(i) == {j \in accepted \ (lost \cup unsaved) : ItemOf(j) = i}
Dropped(i) == {j \in unsaved : ItemOf(j) = i}

\* The jobs of an item are numbered in the order they are made.
Numbered(i) ==
  /\ IsFiniteSet(JobsOf(i))
  /\ \A j \in JobsOf(i) : j[2] <= Cardinality(JobsOf(i))

\* An item has a job that was answered from its answer on, and only if it is the result.
\* One whose save failed ended the item, which had no other.
Single(i) ==
  /\ Answered(i) = IF pc[i] \in {"save", "judge", "done"} /\ sub[i].code = "pending"
                   THEN {sub[i].job} ELSE {}
  /\ \A j \in Dropped(i) : pc[i] = "done" /\ sub[i].code = "network" /\ Dropped(i) = {j}

Accounted(i) ==
  \A j \in JobsOf(i) : \/ j \in lost \/ j \in unsaved \/ Stored(j)
                       \/ pc[i] = "save" /\ sub[i].job = j

Saved(i) == Row(i, sub[i]) \in rows

ItemInv(i) ==
  /\ pc[i] \notin {"todo", "done"} => phase[i[1]] = "running"
  /\ phase[i[1]] # "crashed" =>
       /\ pc[i] # "todo" => i \in Mine(i[1])
       /\ Single(i)
       /\ pc[i] = "done" => Saved(i) \/ sub[i].code \in Unsaved
  /\ pc[i] = "save" => sub[i].code \in {"pending", "rate", "quota", "refused"}
  /\ pc[i] = "judge" => Saved(i)
  /\ Numbered(i)
  /\ Accounted(i)

CallInv(c) ==
  /\ phase[c] = "idle" => next[c] = 1 /\ \A i \in Items : i[1] = c => pc[i] = "todo"
  /\ phase[c] = "running" => \A n \in next[c]..Len(input[c]) : pc[ItemAt(c, n)] = "todo"
  /\ phase[c] \in {"saving", "returned", "raised"} => \A i \in Mine(c) : pc[i] = "done"
  /\ phase[c] = "saving" => \A n \in 1..(next[c] - 1) : Saved(ItemAt(c, n))
  /\ phase[c] = "returned" => \A i \in Mine(c) : Saved(i)

IInv ==
  /\ TypeOK
  /\ \A i \in Items : ItemInv(i)
  /\ \A c \in Calls : CallInv(c)

LEMMA InputTyped ==
  ASSUME TypeOK, NEW c \in Calls
  PROVE  /\ input[c] \in Seq(Urls) /\ Len(input[c]) \in Nat
         /\ next[c] \in Nat /\ next[c] \in 1..(Len(input[c]) + 1)
         /\ \A n \in 1..Len(input[c]) : ItemAt(c, n) \in Items /\ ItemAt(c, n) \in Mine(c)
         /\ Mine(c) \subseteq Items
<1>1. input \in [Calls -> Seq(Urls)]
  BY InputsAssumption DEF TypeOK
<1>2. input[c] \in Seq(Urls) /\ Len(input[c]) \in Nat
  BY <1>1
<1>3. \A n \in 1..Len(input[c]) : input[c][n] \in Urls
  BY <1>2
<1> QED
  BY <1>2, <1>3 DEF TypeOK, ItemAt, Items, Mine

\* What one step of an item leaves alone of another
LEMMA OtherItem ==
  ASSUME IInv, NEW k \in Items, input' = input, phase' = phase,
         pc'[k] = pc[k], sub'[k] = sub[k], rows \subseteq rows', lost \subseteq lost',
         unsaved \subseteq unsaved', JobsOf(k)' = JobsOf(k), Answered(k)' = Answered(k),
         Dropped(k)' = Dropped(k)
  PROVE  ItemInv(k)'
<1>1. ItemInv(k)
  BY DEF IInv
<1>2. Mine(k[1])' = Mine(k[1])
  BY DEF Mine, ItemAt
<1>3. Row(k, sub[k])' = Row(k, sub[k])
  BY DEF Row
<1>4. Numbered(k)' /\ Accounted(k)' /\ (Single(k) => Single(k)') /\ (Saved(k) => Saved(k)')
  BY <1>1, <1>3 DEF ItemInv, Numbered, Accounted, Single, Saved, Stored
<1> QED
  BY <1>1, <1>2, <1>4 DEF ItemInv

LEMMA CallsLeftAlone ==
  ASSUME IInv, NEW i \in Items, pc[i] \notin {"todo", "done"}, UNCHANGED <<input, phase, next>>,
         \A k \in Items : k # i => pc'[k] = pc[k] /\ sub'[k] = sub[k],
         rows \subseteq rows'
  PROVE  \A c \in Calls : CallInv(c)'
<1> SUFFICES ASSUME NEW c \in Calls PROVE CallInv(c)'
  OBVIOUS
<1>1. CallInv(c) /\ TypeOK /\ ItemInv(i)
  BY DEF IInv
<1>2. phase[i[1]] = "running"
  BY <1>1 DEF ItemInv
<1>3. Mine(c)' = Mine(c) /\ Mine(c) \subseteq Items
      /\ (\A n \in 1..Len(input[c]) : ItemAt(c, n)' = ItemAt(c, n) /\ ItemAt(c, n) \in Items
                                      /\ ItemAt(c, n) \in Mine(c))
  BY <1>1, InputTyped DEF Mine, ItemAt
<1>4. next[c] \in 1..(Len(input[c]) + 1) /\ Len(input[c]) \in Nat
  BY <1>1, InputTyped
<1>5. phase[c] = "idle" => \A k \in Items : k[1] = c => pc'[k] = "todo"
  BY <1>1, <1>2 DEF CallInv
<1>6. phase[c] = "running" => \A n \in next[c]..Len(input[c]) : pc'[ItemAt(c, n)] = "todo"
  <2>1. \A n \in next[c]..Len(input[c]) : n \in 1..Len(input[c])
    BY <1>4
  <2> QED
    BY <1>1, <1>3, <2>1 DEF CallInv
<1>7. phase[c] \in {"saving", "returned", "raised"} =>
        \A k \in Mine(c) : /\ pc'[k] = "done" /\ (Saved(k) => Saved(k)')
  BY <1>1, <1>3 DEF CallInv, Saved, Row
<1>8. phase[c] = "saving" => \A n \in 1..(next[c] - 1) : Saved(ItemAt(c, n))'
  <2>1. \A n \in 1..(next[c] - 1) : n \in 1..Len(input[c])
    BY <1>4
  <2>2. ASSUME phase[c] = "saving", NEW n \in 1..(next[c] - 1) PROVE Saved(ItemAt(c, n))'
    <3>1. ItemAt(c, n)' = ItemAt(c, n) /\ ItemAt(c, n) \in Mine(c) /\ Saved(ItemAt(c, n))
      BY <1>1, <1>3, <2>1, <2>2 DEF CallInv
    <3>2. ItemAt(c, n) # i /\ ItemAt(c, n) \in Items
      BY <1>1, <1>3, <2>2, <3>1 DEF CallInv
    <3> QED
      BY <3>1, <3>2 DEF Saved, Row
  <2> QED
    BY <2>2
<1>9. phase[c] = "returned" => \A k \in Mine(c) : Saved(k)'
  BY <1>1, <1>7 DEF CallInv
<1> QED
  BY <1>1, <1>3, <1>5, <1>6, <1>7, <1>8, <1>9 DEF CallInv, ItemAt

\* A step of an item in which the Archive makes nothing
LEMMA QuietStep ==
  ASSUME IInv, NEW i \in Items, pc[i] \notin {"todo", "done"}, TypeOK',
         UNCHANGED <<input, phase, next, accepted, lost>>,
         unsaved \subseteq unsaved', \A j \in unsaved' : j \in unsaved \/ ItemOf(j) = i,
         \A k \in Items : k # i => pc'[k] = pc[k] /\ sub'[k] = sub[k],
         rows \subseteq rows', pc'[i] # "todo", Single(i)', Accounted(i)',
         pc'[i] = "save" => sub'[i].code \in {"pending", "rate", "quota", "refused"},
         pc'[i] = "judge" => Saved(i)',
         pc'[i] = "done" => Saved(i)' \/ sub'[i].code \in Unsaved
  PROVE  IInv'
<1>1. /\ \A k \in Items : JobsOf(k)' = JobsOf(k)
      /\ \A k \in Items : k # i => Answered(k)' = Answered(k) /\ Dropped(k)' = Dropped(k)
  BY DEF JobsOf, Answered, Dropped
<1>2. \A k \in Items : k # i => ItemInv(k)'
  BY <1>1, OtherItem
<1>3. ItemInv(i)'
  <2>1. ItemInv(i)
    BY DEF IInv
  <2>2. phase[i[1]] = "running" /\ i \in Mine(i[1])
    BY <2>1 DEF ItemInv
  <2>3. Mine(i[1])' = Mine(i[1])
    BY DEF Mine, ItemAt
  <2>4. Numbered(i)'
    BY <1>1, <2>1 DEF ItemInv, Numbered
  <2> QED
    BY <2>2, <2>3, <2>4 DEF ItemInv
<1>4. \A c \in Calls : CallInv(c)'
  BY CallsLeftAlone
<1> QED
  BY <1>2, <1>3, <1>4 DEF IInv

----------------------------------------------------------------------------
(* The steps of an item *)

LEMMA RowTyped ==
  ASSUME NEW i \in Items, NEW s \in Submissions, s.code # "none"
  PROVE  Row(i, s) \in [url : Urls, code : {"pending"} \cup NotAccepted,
                        job : Jobs \cup {NoJob}]
BY DEF Row, Items, Submissions, NotAccepted

LEMMA CheckRecentPreserves == ASSUME IInv, NEW i \in Items, CheckRecent(i) PROVE IInv'
<1>1. /\ pc[i] = "check"
      /\ UNCHANGED <<input, phase, next, quota, attempt, tries, paused, rows, accepted, lost,
                     unsaved, late, crashes, failures>>
  BY DEF CheckRecent, calls, archive
<1>2. TypeOK /\ ItemInv(i)
  BY DEF IInv
<1>3. Single(i) /\ Accounted(i) /\ phase[i[1]] = "running"
  BY <1>1, <1>2 DEF ItemInv
<1>4. CASE pc' = [pc EXCEPT ![i] = "loop"] /\ sub' = sub
  <2>1. TypeOK'
    BY <1>1, <1>2, <1>4 DEF TypeOK
  <2>2. pc'[i] = "loop" /\ \A k \in Items : k # i => pc'[k] = pc[k] /\ sub'[k] = sub[k]
    BY <1>2, <1>4 DEF TypeOK
  <2>3. Single(i)' /\ Accounted(i)'
    BY <1>1, <1>3, <1>4, <2>2 DEF Single, Accounted, Answered, Dropped, JobsOf, Stored
  <2> QED
    BY <1>1, <2>1, <2>2, <2>3, QuietStep
<1>5. ASSUME NEW r \in Recent(i[2]), Finish(i, Sub("reused", r.job)) PROVE IInv'
  <2> DEFINE s == Sub("reused", r.job)
  <2>1. sub' = [sub EXCEPT ![i] = s] /\ pc' = [pc EXCEPT ![i] = "done"]
    BY <1>5 DEF Finish
  <2>2. r \in rows /\ r.url = i[2] /\ r.code = "pending" /\ r.job \in Jobs \cup {NoJob}
        /\ r \in [url : Urls, code : {"pending"} \cup NotAccepted, job : Jobs \cup {NoJob}]
    BY <1>2, <1>5 DEF Recent, TypeOK
  <2>3. s \in Submissions /\ s.code = "reused" /\ s.job = r.job
    BY <2>2 DEF Sub, Submissions
  <2>4. Row(i, s) = r
    BY <2>2, <2>3 DEF Row
  <2> HIDE DEF s
  <2>5. TypeOK'
    BY <1>1, <1>2, <2>1, <2>3 DEF TypeOK
  <2>6. pc'[i] = "done" /\ sub'[i] = s
        /\ \A k \in Items : k # i => pc'[k] = pc[k] /\ sub'[k] = sub[k]
    BY <1>2, <2>1 DEF TypeOK
  <2>7. Single(i)' /\ Accounted(i)' /\ Saved(i)'
    BY <1>1, <1>3, <2>2, <2>3, <2>4, <2>6
       DEF Single, Accounted, Answered, Dropped, JobsOf, Stored, Saved, Row
  <2> QED
    BY <1>1, <2>5, <2>6, <2>7, QuietStep
<1> QED
  BY <1>4, <1>5 DEF CheckRecent

LEMMA LoopHeadPreserves == ASSUME IInv, NEW i \in Items, LoopHead(i) PROVE IInv'
<1>1. /\ pc[i] = "loop"
      /\ UNCHANGED <<input, phase, next, quota, attempt, paused, rows, accepted, lost, unsaved,
                     late, crashes, failures>>
  BY DEF LoopHead, calls, archive
<1>2. TypeOK /\ ItemInv(i)
  BY DEF IInv
<1>3. Single(i) /\ Accounted(i) /\ phase[i[1]] = "running"
  BY <1>1, <1>2 DEF ItemInv
<1>4. CASE Finish(i, Sub("skipped", NoJob)) /\ UNCHANGED tries
  <2> DEFINE s == Sub("skipped", NoJob)
  <2>1. s \in Submissions /\ s.code = "skipped"
    BY DEF Sub, Submissions, NotAccepted
  <2> HIDE DEF s
  <2>2. sub' = [sub EXCEPT ![i] = s] /\ pc' = [pc EXCEPT ![i] = "done"]
    BY <1>4 DEF Finish, s
  <2>3. TypeOK'
    BY <1>1, <1>2, <1>4, <2>1, <2>2 DEF TypeOK
  <2>4. pc'[i] = "done" /\ sub'[i] = s
        /\ \A k \in Items : k # i => pc'[k] = pc[k] /\ sub'[k] = sub[k]
    BY <1>2, <2>2 DEF TypeOK
  <2>5. Single(i)' /\ Accounted(i)' /\ sub'[i].code \in Unsaved
    BY <1>1, <1>3, <2>1, <2>4 DEF Single, Accounted, Answered, Dropped, JobsOf, Stored, Unsaved
  <2> QED
    BY <1>1, <2>3, <2>4, <2>5, QuietStep
<1>5. CASE pc' = [pc EXCEPT ![i] = "gate"] /\ tries' = [tries EXCEPT ![i] = 1] /\ sub' = sub
  <2>1. 1 \in 1..MaxAttempts
    BY LimitsAssumption
  <2>2. TypeOK'
    BY <1>1, <1>2, <1>5, <2>1 DEF TypeOK
  <2>3. pc'[i] = "gate" /\ \A k \in Items : k # i => pc'[k] = pc[k] /\ sub'[k] = sub[k]
    BY <1>2, <1>5 DEF TypeOK
  <2>4. Single(i)' /\ Accounted(i)'
    BY <1>1, <1>3, <1>5, <2>3 DEF Single, Accounted, Answered, Dropped, JobsOf, Stored
  <2> QED
    BY <1>1, <2>2, <2>3, <2>4, QuietStep
<1> QED
  BY <1>4, <1>5 DEF LoopHead

LEMMA StartPostPreserves == ASSUME IInv, NEW i \in Items, StartPost(i) PROVE IInv'
<1>1. /\ pc[i] = "gate" /\ pc' = [pc EXCEPT ![i] = "post"]
      /\ UNCHANGED <<input, phase, next, quota, attempt, tries, sub, paused, rows, accepted,
                     lost, unsaved, crashes, failures>>
  BY DEF StartPost, calls, archive
<1>2. TypeOK /\ ItemInv(i)
  BY DEF IInv
<1>3. Single(i) /\ Accounted(i) /\ phase[i[1]] = "running"
  BY <1>1, <1>2 DEF ItemInv
<1>4. late' \in [Calls -> Nat]
  BY <1>2 DEF StartPost, TypeOK
<1>5. TypeOK'
  BY <1>1, <1>2, <1>4 DEF TypeOK
<1>6. pc'[i] = "post" /\ \A k \in Items : k # i => pc'[k] = pc[k] /\ sub'[k] = sub[k]
  BY <1>1, <1>2 DEF TypeOK
<1>7. Single(i)' /\ Accounted(i)'
  BY <1>1, <1>3, <1>6 DEF Single, Accounted, Answered, Dropped, JobsOf, Stored
<1> QED
  BY <1>1, <1>5, <1>6, <1>7, QuietStep

LEMMA RefusedPreserves == ASSUME IInv, NEW i \in Items, Refused(i) PROVE IInv'
<1>1. PICK code \in {"rate", "quota", "refused"} : Answer(i, Sub(code, NoJob))
  BY DEF Refused
<1> DEFINE s == Sub(code, NoJob)
<1>2. s \in Submissions /\ s.code = code
  BY DEF Sub, Submissions, NotAccepted
<1> HIDE DEF s
<1>3. /\ pc[i] = "post" /\ sub' = [sub EXCEPT ![i] = s] /\ pc' = [pc EXCEPT ![i] = "save"]
      /\ UNCHANGED <<input, phase, next, quota, attempt, tries, paused, rows, accepted, lost,
                     unsaved, late, crashes, failures>>
  BY <1>1 DEF Answer, Refused, calls, archive, s
<1>4. TypeOK /\ ItemInv(i)
  BY DEF IInv
<1>5. Single(i) /\ Accounted(i) /\ phase[i[1]] = "running"
  BY <1>3, <1>4 DEF ItemInv
<1>6. TypeOK'
  BY <1>2, <1>3, <1>4 DEF TypeOK
<1>7. pc'[i] = "save" /\ sub'[i] = s
      /\ \A k \in Items : k # i => pc'[k] = pc[k] /\ sub'[k] = sub[k]
  BY <1>3, <1>4 DEF TypeOK
<1>8. Single(i)' /\ Accounted(i)'
  BY <1>2, <1>3, <1>5, <1>7 DEF Single, Accounted, Answered, Dropped, JobsOf, Stored
<1> QED
  BY <1>2, <1>3, <1>6, <1>7, <1>8, QuietStep

LEMMA SavePreserves == ASSUME IInv, NEW i \in Items, Save(i) PROVE IInv'
<1>1. /\ pc[i] = "save" /\ pc' = [pc EXCEPT ![i] = "judge"]
      /\ rows' = rows \cup {Row(i, sub[i])}
      /\ UNCHANGED <<input, phase, next, quota, attempt, tries, sub, paused, accepted, lost,
                     unsaved, late, crashes, failures>>
  BY DEF Save, calls, archive
<1>2. TypeOK /\ ItemInv(i)
  BY DEF IInv
<1>3. /\ Single(i) /\ Accounted(i) /\ phase[i[1]] = "running"
      /\ sub[i].code \in {"pending", "rate", "quota", "refused"} /\ sub[i] \in Submissions
  BY <1>1, <1>2 DEF ItemInv, TypeOK
<1>4. TypeOK'
  BY <1>1, <1>2, <1>3, RowTyped DEF TypeOK
<1>5. pc'[i] = "judge" /\ \A k \in Items : k # i => pc'[k] = pc[k] /\ sub'[k] = sub[k]
  BY <1>1, <1>2 DEF TypeOK
<1>6. Single(i)' /\ Saved(i)'
  BY <1>1, <1>3, <1>5 DEF Single, Answered, Dropped, Saved, Row
<1>7. ASSUME NEW j \in JobsOf(i) PROVE j \in lost \/ j \in unsaved \/ Stored(j)'
  <2>1. CASE j \in lost \/ j \in unsaved \/ Stored(j)
    BY <1>1, <2>1 DEF Stored
  <2>2. CASE j \notin lost \cup unsaved /\ sub[i].job = j
    <3>1. j \in Answered(i) /\ ItemOf(j) = i
      BY <1>7, <2>2 DEF JobsOf, Answered
    <3>2. sub[i].code = "pending"
      BY <1>1, <1>3, <3>1 DEF Single
    <3>3. Row(i, sub[i]) = [url |-> ItemOf(j)[2], code |-> "pending", job |-> j]
      BY <2>2, <3>1, <3>2 DEF Row
    <3> QED
      BY <1>1, <3>3 DEF Stored
  <2> QED
    BY <1>3, <1>7, <2>1, <2>2 DEF Accounted
<1>8. Accounted(i)'
  BY <1>1, <1>7 DEF Accounted, JobsOf
<1> QED
  BY <1>1, <1>4, <1>5, <1>6, <1>8, QuietStep

\* A job that is about to be saved is one that was answered, of that item.
LEMMA InHandAnswered ==
  ASSUME NEW i \in Items, ItemInv(i), NEW j \in InHand(i)
  PROVE  j \in accepted \ (lost \cup unsaved) /\ ItemOf(j) = i
<1>1. pc[i] = "save" /\ sub[i].code = "pending" /\ j = sub[i].job
  BY DEF InHand
<1>2. Single(i)
  BY <1>1 DEF ItemInv
<1> QED
  BY <1>1, <1>2 DEF Single, Answered

LEMMA DatabaseFailsPreserves == ASSUME IInv, NEW i \in Items, DatabaseFails(i) PROVE IInv'
<1> DEFINE s == Sub("network", NoJob)
<1>1. s \in Submissions /\ s.code = "network"
  BY DEF Sub, Submissions, NotAccepted
<1> HIDE DEF s
<1>2. /\ pc[i] \in {"check", "save"} /\ failures < MaxFailures /\ failures' = failures + 1
      /\ unsaved' = unsaved \cup InHand(i)
      /\ sub' = [sub EXCEPT ![i] = s] /\ pc' = [pc EXCEPT ![i] = "done"]
      /\ UNCHANGED <<input, phase, next, quota, attempt, tries, paused, rows, accepted, lost,
                     late, crashes>>
  BY DEF DatabaseFails, Finish, calls, s
<1>3. TypeOK /\ ItemInv(i)
  BY DEF IInv
<1>4. Single(i) /\ Accounted(i) /\ phase[i[1]] = "running"
  BY <1>2, <1>3 DEF ItemInv
<1>5. \A j \in InHand(i) : j \in accepted \ (lost \cup unsaved) /\ ItemOf(j) = i
  BY <1>3, InHandAnswered
<1>6. TypeOK'
  <2>1. failures' \in 0..MaxFailures
    BY <1>2, <1>3, LimitsAssumption DEF TypeOK
  <2>2. unsaved' \subseteq accepted' \ lost'
    BY <1>2, <1>3, <1>5 DEF TypeOK
  <2> QED
    BY <1>1, <1>2, <1>3, <2>1, <2>2 DEF TypeOK
<1>7. pc'[i] = "done" /\ sub'[i] = s
      /\ \A k \in Items : k # i => pc'[k] = pc[k] /\ sub'[k] = sub[k]
  BY <1>2, <1>3 DEF TypeOK
<1>8. Single(i)'
  <2>1. Answered(i) = InHand(i) /\ Dropped(i) = {}
    BY <1>2, <1>4 DEF Single, InHand
  <2>2. Answered(i)' = {} /\ Dropped(i)' = InHand(i)
    BY <1>2, <1>5, <2>1 DEF Answered, Dropped
  <2>3. \A j \in InHand(i) : InHand(i) = {j}
    BY DEF InHand
  <2> QED
    BY <1>1, <1>7, <2>2, <2>3 DEF Single
<1>9. Accounted(i)'
  <2> SUFFICES ASSUME NEW j \in JobsOf(i), j \notin lost, j \notin unsaved', ~Stored(j)
               PROVE  FALSE
    BY <1>2 DEF Accounted, JobsOf, Stored
  <2>1. j \notin unsaved /\ pc[i] = "save" /\ sub[i].job = j
    BY <1>2, <1>4 DEF Accounted
  <2>2. j \in Answered(i)
    BY <2>1 DEF JobsOf, Answered
  <2> QED
    BY <1>2, <1>4, <2>1, <2>2 DEF Single, InHand
<1>10. unsaved \subseteq unsaved' /\ \A j \in unsaved' : j \in unsaved \/ ItemOf(j) = i
  BY <1>2, <1>5
<1> QED
  BY <1>1, <1>2, <1>6, <1>7, <1>8, <1>9, <1>10, QuietStep DEF Unsaved

LEMMA JudgePreserves == ASSUME IInv, NEW i \in Items, Judge(i) PROVE IInv'
<1>1. /\ pc[i] = "judge"
      /\ UNCHANGED <<input, phase, next, tries, sub, rows, accepted, lost, unsaved, late,
                     crashes, failures>>
  BY DEF Judge, archive
<1>2. TypeOK /\ ItemInv(i)
  BY DEF IInv
<1>3. Single(i) /\ Accounted(i) /\ phase[i[1]] = "running" /\ Saved(i)
  BY <1>1, <1>2 DEF ItemInv
<1>4. quota' \subseteq Calls /\ paused' \in BOOLEAN
  BY <1>2 DEF Judge, TypeOK, Items
<1>5. CASE sub[i].code \in Retried /\ RetryLeft(i)
  <2>1. attempt' = [attempt EXCEPT ![i] = @ + 1] /\ pc' = [pc EXCEPT ![i] = "loop"]
    BY <1>5 DEF Judge, NextAttempt
  <2>2. attempt[i] + 1 \in 0..Retries
    BY <1>2, <1>5, LimitsAssumption DEF RetryLeft, TypeOK
  <2>3. TypeOK'
    BY <1>1, <1>2, <1>4, <2>1, <2>2 DEF TypeOK
  <2>4. pc'[i] = "loop" /\ \A k \in Items : k # i => pc'[k] = pc[k] /\ sub'[k] = sub[k]
    BY <1>1, <1>2, <2>1 DEF TypeOK
  <2>5. Single(i)' /\ Accounted(i)'
    BY <1>1, <1>3, <1>5, <2>4 DEF Single, Accounted, Answered, Dropped, JobsOf, Stored, Retried
  <2> QED
    BY <1>1, <2>3, <2>4, <2>5, QuietStep
<1>6. CASE ~(sub[i].code \in Retried /\ RetryLeft(i))
  <2>1. attempt' = attempt /\ pc' = [pc EXCEPT ![i] = "done"]
    BY <1>6 DEF Judge
  <2>2. TypeOK'
    BY <1>1, <1>2, <1>4, <2>1 DEF TypeOK
  <2>3. pc'[i] = "done" /\ \A k \in Items : k # i => pc'[k] = pc[k] /\ sub'[k] = sub[k]
    BY <1>1, <1>2, <2>1 DEF TypeOK
  <2>4. Single(i)' /\ Accounted(i)' /\ Saved(i)'
    BY <1>1, <1>3, <2>3 DEF Single, Accounted, Answered, Dropped, JobsOf, Stored, Saved, Row
  <2> QED
    BY <1>1, <2>2, <2>3, <2>4, QuietStep
<1> QED
  BY <1>5, <1>6

----------------------------------------------------------------------------
(* The steps in which the Archive makes a job *)

\* A new job has a number no job of its item had.
LEMMA NewJobIsNew ==
  ASSUME TypeOK, NEW i \in Items, Numbered(i)
  PROVE  /\ NewJob(i) \in Jobs /\ ItemOf(NewJob(i)) = i /\ NewJob(i) \notin accepted
         /\ IsFiniteSet(JobsOf(i) \cup {NewJob(i)})
         /\ \A j \in JobsOf(i) \cup {NewJob(i)} : j[2] <= Cardinality(JobsOf(i) \cup {NewJob(i)})
<1> DEFINE n == Cardinality(JobsOf(i))
<1>1. IsFiniteSet(JobsOf(i)) /\ n \in Nat
  BY FS_CardinalityType DEF Numbered
<1>2. NewJob(i) = <<i, n + 1>>
  BY DEF NewJob, JobsOf
<1>3. \A j \in JobsOf(i) : j[2] \in Nat /\ j[2] <= n
  BY DEF TypeOK, Numbered, JobsOf, Jobs
<1>4. ItemOf(NewJob(i)) = i /\ NewJob(i)[2] = n + 1
  BY <1>2 DEF ItemOf
<1> HIDE DEF n
<1>5. NewJob(i) \in Jobs
  BY <1>1, <1>2 DEF Jobs
<1>6. NewJob(i) \notin JobsOf(i)
  BY <1>1, <1>3, <1>4
<1>7. /\ IsFiniteSet(JobsOf(i) \cup {NewJob(i)})
      /\ Cardinality(JobsOf(i) \cup {NewJob(i)}) = n + 1
  BY <1>1, <1>6, FS_AddElement DEF n
<1>8. \A j \in JobsOf(i) \cup {NewJob(i)} : j[2] <= n + 1
  BY <1>1, <1>3, <1>4
<1> QED
  BY <1>4, <1>5, <1>6, <1>7, <1>8 DEF JobsOf

\* A step of an item in which the Archive makes a job
LEMMA MakingStep ==
  ASSUME IInv, NEW i \in Items, pc[i] = "post", TypeOK',
         UNCHANGED <<input, phase, next, rows, unsaved>>,
         accepted' = accepted \cup {NewJob(i)},
         lost \subseteq lost', \A j \in lost' : j \in lost \/ j = NewJob(i),
         \A k \in Items : k # i => pc'[k] = pc[k] /\ sub'[k] = sub[k],
         pc'[i] \in {"gate", "save", "done"}, Single(i)',
         NewJob(i) \in lost' \/ (pc'[i] = "save" /\ sub'[i].job = NewJob(i)),
         pc'[i] = "save" => sub'[i].code \in {"pending", "rate", "quota", "refused"},
         pc'[i] = "done" => sub'[i].code \in Unsaved
  PROVE  IInv'
<1>1. TypeOK /\ ItemInv(i)
  BY DEF IInv
<1>2. /\ ItemOf(NewJob(i)) = i /\ NewJob(i) \notin accepted
      /\ IsFiniteSet(JobsOf(i) \cup {NewJob(i)})
      /\ \A j \in JobsOf(i) \cup {NewJob(i)} : j[2] <= Cardinality(JobsOf(i) \cup {NewJob(i)})
  BY <1>1, NewJobIsNew DEF ItemInv
<1>3. \A k \in Items : k # i => /\ JobsOf(k)' = JobsOf(k) /\ Answered(k)' = Answered(k)
                                /\ Dropped(k)' = Dropped(k)
  BY <1>2 DEF JobsOf, Answered, Dropped, ItemOf
<1>4. \A k \in Items : k # i => ItemInv(k)'
  BY <1>3, OtherItem
<1>5. JobsOf(i)' = JobsOf(i) \cup {NewJob(i)}
  BY <1>2 DEF JobsOf, ItemOf
<1>6. Numbered(i)'
  BY <1>2, <1>5 DEF Numbered
<1>7. phase[i[1]] = "running" /\ i \in Mine(i[1]) /\ Accounted(i)
  BY <1>1 DEF ItemInv
<1>8. Mine(i[1])' = Mine(i[1])
  BY DEF Mine, ItemAt
<1>9. Accounted(i)'
  <2>1. \A j \in JobsOf(i) : j \in lost \/ j \in unsaved \/ Stored(j)
    BY <1>7 DEF Accounted
  <2>2. \A j \in JobsOf(i) : j \in lost' \/ j \in unsaved' \/ Stored(j)'
    BY <2>1 DEF Stored
  <2> QED
    BY <1>5, <2>2 DEF Accounted
<1>10. ItemInv(i)'
  BY <1>6, <1>7, <1>8, <1>9 DEF ItemInv
<1>11. \A c \in Calls : CallInv(c)'
  BY CallsLeftAlone
<1> QED
  BY <1>4, <1>10, <1>11 DEF IInv

LEMMA AcceptedPreserves == ASSUME IInv, NEW i \in Items, Accepted(i) PROVE IInv'
<1> DEFINE s == Sub("pending", NewJob(i))
<1>1. TypeOK /\ ItemInv(i)
  BY DEF IInv
<1>2. NewJob(i) \in Jobs /\ ItemOf(NewJob(i)) = i /\ NewJob(i) \notin accepted
  BY <1>1, NewJobIsNew DEF ItemInv
<1>3. s \in Submissions /\ s.code = "pending" /\ s.job = NewJob(i)
  BY <1>2 DEF Sub, Submissions
<1>4. /\ pc[i] = "post" /\ sub' = [sub EXCEPT ![i] = s] /\ pc' = [pc EXCEPT ![i] = "save"]
      /\ UNCHANGED <<input, phase, next, quota, attempt, tries, paused, rows, late, crashes,
                     failures>>
      /\ accepted' = accepted \cup {NewJob(i)} /\ lost' = lost /\ unsaved' = unsaved
  BY DEF Accepted, Answer, calls
<1> HIDE DEF s
<1>5. TypeOK'
  <2>1. lost' \subseteq accepted' /\ unsaved' \subseteq accepted' \ lost' /\ accepted' \subseteq Jobs
    BY <1>1, <1>2, <1>4 DEF TypeOK
  <2> QED
    BY <1>1, <1>3, <1>4, <2>1 DEF TypeOK
<1>6. pc'[i] = "save" /\ sub'[i] = s
      /\ \A k \in Items : k # i => pc'[k] = pc[k] /\ sub'[k] = sub[k]
  BY <1>1, <1>4 DEF TypeOK
<1>7. Answered(i) = {} /\ Dropped(i) = {} /\ Dropped(i)' = {}
  BY <1>1, <1>4 DEF ItemInv, Single, Dropped
<1>8. Answered(i)' = {NewJob(i)}
  BY <1>1, <1>2, <1>4, <1>7 DEF Answered, TypeOK, ItemOf
<1>9. Single(i)'
  BY <1>3, <1>6, <1>7, <1>8 DEF Single
<1> QED
  BY <1>3, <1>4, <1>5, <1>6, <1>9, MakingStep

\* What an attempt without an answer does to the item
LEMMA TriedAgain ==
  ASSUME IInv, NEW i \in Items, TryAgainOrGiveUp(i), lost' \subseteq accepted',
         accepted' \subseteq Jobs, unsaved' = unsaved, unsaved' \subseteq accepted' \ lost',
         Answered(i)' = Answered(i)
  PROVE  /\ pc[i] = "post" /\ pc'[i] \in {"gate", "save", "done"}
         /\ UNCHANGED <<input, phase, next, rows>>
         /\ TypeOK' /\ Single(i)'
         /\ \A k \in Items : k # i => pc'[k] = pc[k] /\ sub'[k] = sub[k]
         /\ pc'[i] = "save" => sub'[i].code \in {"pending", "rate", "quota", "refused"}
         /\ pc'[i] = "done" => sub'[i].code \in Unsaved
<1>1. TypeOK /\ ItemInv(i)
  BY DEF IInv
<1>2. /\ pc[i] = "post"
      /\ UNCHANGED <<input, phase, next, quota, attempt, paused, rows, late, crashes,
                     failures>>
  BY DEF TryAgainOrGiveUp, calls
<1>3. Answered(i)' = {} /\ Dropped(i)' = {}
  BY <1>1, <1>2 DEF ItemInv, Single, Dropped
<1>4. CASE /\ tries[i] < MaxAttempts /\ tries' = [tries EXCEPT ![i] = @ + 1]
           /\ pc' = [pc EXCEPT ![i] = "gate"] /\ UNCHANGED sub
  <2>1. tries[i] + 1 \in 1..MaxAttempts
    BY <1>1, <1>4, LimitsAssumption DEF TypeOK
  <2>2. TypeOK'
    BY <1>1, <1>2, <1>4, <2>1 DEF TypeOK
  <2>3. pc'[i] = "gate" /\ \A k \in Items : k # i => pc'[k] = pc[k] /\ sub'[k] = sub[k]
    BY <1>1, <1>4 DEF TypeOK
  <2> QED
    BY <1>2, <1>3, <2>2, <2>3 DEF Single
<1>5. ASSUME NEW s \in Submissions, NEW end \in {"save", "done"}, UNCHANGED tries,
             s.code = IF end = "save" THEN "refused" ELSE "network",
             sub' = [sub EXCEPT ![i] = s], pc' = [pc EXCEPT ![i] = end]
      PROVE  /\ TypeOK' /\ Single(i)' /\ pc'[i] = end /\ sub'[i] = s
             /\ \A k \in Items : k # i => pc'[k] = pc[k] /\ sub'[k] = sub[k]
  <2>1. TypeOK'
    BY <1>1, <1>2, <1>5 DEF TypeOK
  <2>2. /\ pc'[i] = end /\ sub'[i] = s
        /\ \A k \in Items : k # i => pc'[k] = pc[k] /\ sub'[k] = sub[k]
    BY <1>1, <1>5 DEF TypeOK
  <2> QED
    BY <1>3, <1>5, <2>1, <2>2 DEF Single
<1>6. /\ Sub("network", NoJob) \in Submissions /\ Sub("network", NoJob).code = "network"
      /\ Sub("refused", NoJob) \in Submissions /\ Sub("refused", NoJob).code = "refused"
  BY DEF Sub, Submissions, NotAccepted
<1>7. CASE Finish(i, Sub("network", NoJob)) /\ UNCHANGED tries
  BY <1>2, <1>5, <1>6, <1>7 DEF Finish, Unsaved
<1>8. CASE /\ sub' = [sub EXCEPT ![i] = Sub("refused", NoJob)]
           /\ pc' = [pc EXCEPT ![i] = "save"] /\ UNCHANGED tries
  BY <1>2, <1>5, <1>6, <1>8
<1> QED
  BY <1>4, <1>7, <1>8 DEF TryAgainOrGiveUp

LEMMA PostFailsPreserves == ASSUME IInv, NEW i \in Items, PostFails(i) PROVE IInv'
<1>1. TypeOK /\ ItemInv(i) /\ TryAgainOrGiveUp(i) /\ accepted' = accepted /\ lost' = lost
      /\ unsaved' = unsaved
  BY DEF IInv, PostFails, archive
<1>2. /\ Answered(i)' = Answered(i) /\ lost' \subseteq accepted' /\ accepted' \subseteq Jobs
      /\ unsaved' \subseteq accepted' \ lost'
  BY <1>1 DEF Answered, TypeOK
<1>3. /\ pc[i] = "post" /\ pc'[i] \in {"gate", "save", "done"}
      /\ UNCHANGED <<input, phase, next, rows>>
      /\ TypeOK' /\ Single(i)'
      /\ \A k \in Items : k # i => pc'[k] = pc[k] /\ sub'[k] = sub[k]
      /\ pc'[i] = "save" => sub'[i].code \in {"pending", "rate", "quota", "refused"}
      /\ pc'[i] = "done" => sub'[i].code \in Unsaved
  BY <1>1, <1>2, TriedAgain
<1>4. \A j \in JobsOf(i) : j \in lost \/ j \in unsaved \/ Stored(j)
  BY <1>1, <1>3 DEF ItemInv, Accounted
<1>5. Accounted(i)'
  BY <1>1, <1>3, <1>4 DEF Accounted, JobsOf, Stored
<1> QED
  BY <1>1, <1>3, <1>5, QuietStep

LEMMA AnswerLostPreserves == ASSUME IInv, NEW i \in Items, AnswerLost(i) PROVE IInv'
<1>1. /\ TypeOK /\ ItemInv(i) /\ TryAgainOrGiveUp(i)
      /\ accepted' = accepted \cup {NewJob(i)} /\ lost' = lost \cup {NewJob(i)}
      /\ unsaved' = unsaved
  BY DEF IInv, AnswerLost
<1>2. NewJob(i) \in Jobs /\ NewJob(i) \notin accepted
  BY <1>1, NewJobIsNew DEF ItemInv
<1>3. /\ Answered(i)' = Answered(i) /\ lost' \subseteq accepted' /\ accepted' \subseteq Jobs
      /\ unsaved' \subseteq accepted' \ lost'
  BY <1>1, <1>2 DEF Answered, TypeOK
<1>4. /\ pc[i] = "post" /\ pc'[i] \in {"gate", "save", "done"}
      /\ UNCHANGED <<input, phase, next, rows>>
      /\ TypeOK' /\ Single(i)'
      /\ \A k \in Items : k # i => pc'[k] = pc[k] /\ sub'[k] = sub[k]
      /\ pc'[i] = "save" => sub'[i].code \in {"pending", "rate", "quota", "refused"}
      /\ pc'[i] = "done" => sub'[i].code \in Unsaved
  BY <1>1, <1>3, TriedAgain
<1>5. NewJob(i) \in lost' /\ lost \subseteq lost' /\ \A j \in lost' : j \in lost \/ j = NewJob(i)
  BY <1>1
<1>6. accepted' = accepted \cup {NewJob(i)} /\ unsaved' = unsaved
  BY <1>1
<1> QED
  BY <1>4, <1>5, <1>6, MakingStep

----------------------------------------------------------------------------
(* The steps of a call *)

LEMMA ItemsLeftAlone ==
  ASSUME IInv, UNCHANGED <<input, pc, sub, accepted, lost, unsaved>>, rows \subseteq rows',
         \A c \in Calls : phase'[c] = "crashed" <=> phase[c] = "crashed",
         \A i \in Items : pc[i] \notin {"todo", "done"} => phase'[i[1]] = "running"
  PROVE  \A i \in Items : ItemInv(i)'
<1> SUFFICES ASSUME NEW i \in Items PROVE ItemInv(i)'
  OBVIOUS
<1>1. ItemInv(i) /\ i[1] \in Calls
  BY DEF IInv, Items
<1>2. /\ JobsOf(i)' = JobsOf(i) /\ Answered(i)' = Answered(i) /\ Dropped(i)' = Dropped(i)
      /\ Mine(i[1])' = Mine(i[1])
  BY DEF JobsOf, Answered, Dropped, Mine, ItemAt
<1>3. /\ Numbered(i)' /\ (Single(i) => Single(i)') /\ (Saved(i) => Saved(i)')
  BY <1>1, <1>2 DEF ItemInv, Numbered, Single, Saved, Row
<1>4. Accounted(i)'
  BY <1>1, <1>2 DEF ItemInv, Accounted, Stored
<1> QED
  BY <1>1, <1>2, <1>3, <1>4 DEF ItemInv

LEMMA OtherCall ==
  ASSUME IInv, NEW d \in Calls, input' = input, phase'[d] = phase[d], next'[d] = next[d],
         \A k \in Items : k[1] = d => pc'[k] = pc[k] /\ sub'[k] = sub[k],
         rows \subseteq rows'
  PROVE  CallInv(d)'
<1>1. CallInv(d) /\ TypeOK
  BY DEF IInv
<1>2. /\ Mine(d)' = Mine(d) /\ Mine(d) \subseteq Items /\ \A i \in Mine(d) : i[1] = d
      /\ \A n : ItemAt(d, n)' = ItemAt(d, n) /\ ItemAt(d, n)[1] = d
      /\ \A n \in 1..Len(input[d]) : ItemAt(d, n) \in Items
  BY <1>1, InputTyped DEF Mine, ItemAt
<1>3. next[d] \in 1..(Len(input[d]) + 1) /\ Len(input[d]) \in Nat
  BY <1>1, InputTyped
<1>4. \A k \in Items : k[1] = d /\ Saved(k) => Saved(k)'
  BY DEF Saved, Row
<1>5. phase[d] = "running" => \A n \in next[d]..Len(input[d]) : pc'[ItemAt(d, n)] = "todo"
  <2>1. \A n \in next[d]..Len(input[d]) : n \in 1..Len(input[d])
    BY <1>3
  <2> QED
    BY <1>1, <1>2, <2>1 DEF CallInv
<1>6. phase[d] = "saving" => \A n \in 1..(next[d] - 1) : Saved(ItemAt(d, n))'
  <2>1. \A n \in 1..(next[d] - 1) : n \in 1..Len(input[d])
    BY <1>3
  <2>2. ASSUME phase[d] = "saving", NEW n \in 1..(next[d] - 1) PROVE Saved(ItemAt(d, n))'
    <3>1. ItemAt(d, n) \in Items /\ Saved(ItemAt(d, n))
      BY <1>1, <1>2, <2>1, <2>2 DEF CallInv
    <3> QED
      BY <1>2, <3>1 DEF Saved, Row
  <2> QED
    BY <2>2
<1>7. phase[d] \in {"saving", "returned", "raised"} => \A i \in Mine(d) : pc'[i] = "done"
  BY <1>1, <1>2 DEF CallInv
<1>8. phase[d] = "returned" => \A i \in Mine(d) : Saved(i)'
  BY <1>1, <1>2, <1>4 DEF CallInv
<1> QED
  BY <1>1, <1>2, <1>5, <1>6, <1>7, <1>8 DEF CallInv

LEMMA CallPreserves == ASSUME IInv, NEW c \in Calls, Call(c) PROVE IInv'
<1>1. /\ phase[c] = "idle" /\ phase' = [phase EXCEPT ![c] = "running"]
      /\ UNCHANGED <<input, next, quota, pc, attempt, tries, sub, paused, rows, accepted, lost,
                     unsaved, late, crashes, failures>>
  BY DEF Call, items, archive
<1>2. TypeOK /\ CallInv(c)
  BY DEF IInv
<1>3. TypeOK'
  BY <1>1, <1>2 DEF TypeOK
<1>4. phase'[c] = "running" /\ \A d \in Calls : d # c => phase'[d] = phase[d]
  BY <1>1, <1>2 DEF TypeOK
<1>5. \A i \in Items : pc[i] \notin {"todo", "done"} => phase'[i[1]] = "running"
  <2>1. \A i \in Items : i[1] \in Calls /\ ItemInv(i)
    BY DEF IInv, Items
  <2> QED
    BY <1>4, <2>1 DEF ItemInv
<1>6. \A i \in Items : ItemInv(i)'
  BY <1>1, <1>4, <1>5, ItemsLeftAlone
<1>7. CallInv(c)'
  <2>1. \A n \in 1..Len(input[c]) : pc[ItemAt(c, n)] = "todo"
    BY <1>1, <1>2, InputTyped DEF CallInv, ItemAt
  <2> QED
    BY <1>1, <1>2, <1>4, <2>1 DEF CallInv, ItemAt
<1>8. \A d \in Calls : d # c => CallInv(d)'
  BY <1>1, <1>4, OtherCall
<1> QED
  BY <1>3, <1>6, <1>7, <1>8 DEF IInv

LEMMA TakeItemPreserves == ASSUME IInv, NEW c \in Calls, TakeItem(c) PROVE IInv'
<1>1. TypeOK /\ CallInv(c) /\ next[c] \in 1..Len(input[c])
  BY InputTyped DEF IInv, TakeItem
<1>0. PICK i \in Items : i = ItemAt(c, next[c])
  BY <1>1, InputTyped
<1>2. /\ phase[c] = "running" /\ next[c] \in 1..Len(input[c])
      /\ pc' = [pc EXCEPT ![i] = "check"] /\ next' = [next EXCEPT ![c] = @ + 1]
      /\ UNCHANGED <<input, phase, quota, attempt, tries, sub, paused, rows, accepted, lost,
                     unsaved, late, crashes, failures>>
  BY <1>0, <1>1 DEF TakeItem, archive
<1>3. i \in Items /\ i \in Mine(c) /\ i[1] = c /\ pc[i] = "todo"
  BY <1>0, <1>1, <1>2, InputTyped DEF CallInv, ItemAt
<1>4. \A n \in 1..Len(input[c]) : n # next[c] => ItemAt(c, n) # i
  <2>1. \A m, n \in 1..Len(input[c]) : input[c][m] = input[c][n] => m = n
    BY <1>1, InputsAssumption DEF TypeOK
  <2> QED
    BY <1>0, <1>2, <2>1 DEF ItemAt
<1>5. /\ next'[c] = next[c] + 1 /\ next' \in [Calls -> Nat]
      /\ \A d \in Calls : next'[d] \in 1..(Len(input[d]) + 1)
      /\ \A d \in Calls : d # c => next'[d] = next[d]
  <2>1. next[c] + 1 \in 1..(Len(input[c]) + 1) /\ next[c] + 1 \in Nat
    BY <1>1, <1>2, InputTyped
  <2> QED
    BY <1>1, <1>2, <2>1 DEF TypeOK
<1>6. TypeOK'
  BY <1>1, <1>2, <1>5 DEF TypeOK
<1>7. pc'[i] = "check" /\ \A k \in Items : k # i => pc'[k] = pc[k]
  BY <1>1, <1>2, <1>3 DEF TypeOK
<1>8. \A k \in Items : /\ JobsOf(k)' = JobsOf(k) /\ Answered(k)' = Answered(k)
                       /\ Dropped(k)' = Dropped(k)
  BY <1>2 DEF JobsOf, Answered, Dropped
<1>9. \A k \in Items : k # i => ItemInv(k)'
  BY <1>2, <1>7, <1>8, OtherItem
<1>10. ItemInv(i)'
  <2>1. ItemInv(i)
    BY <1>3 DEF IInv
  <2>2. Single(i)'
    BY <1>2, <1>3, <1>7, <1>8, <2>1 DEF ItemInv, Single
  <2>3. Numbered(i)' /\ Accounted(i)'
    BY <1>2, <1>3, <1>7, <1>8, <2>1 DEF ItemInv, Numbered, Accounted, Stored
  <2>4. Mine(c)' = Mine(c)
    BY <1>2 DEF Mine, ItemAt
  <2> QED
    BY <1>2, <1>3, <1>7, <2>2, <2>3, <2>4 DEF ItemInv
<1>11. CallInv(c)'
  <2>1. \A n \in (next[c] + 1)..Len(input[c]) :
          n \in next[c]..Len(input[c]) /\ n \in 1..Len(input[c]) /\ n # next[c]
    BY <1>1, <1>2, InputTyped
  <2>2. \A n \in (next[c] + 1)..Len(input[c]) : pc'[ItemAt(c, n)] = "todo"
    BY <1>1, <1>2, <1>4, <1>7, <2>1, InputTyped DEF CallInv
  <2> QED
    BY <1>2, <1>5, <2>2 DEF CallInv, ItemAt
<1>12. \A d \in Calls : d # c => CallInv(d)'
  <2>1. \A d \in Calls, k \in Items : d # c /\ k[1] = d => pc'[k] = pc[k] /\ sub'[k] = sub[k]
    BY <1>2, <1>3, <1>7
  <2> QED
    BY <1>2, <1>5, <2>1, OtherCall
<1> QED
  BY <1>6, <1>9, <1>10, <1>11, <1>12 DEF IInv

LEMMA GatheredPreserves == ASSUME IInv, NEW c \in Calls, Gathered(c) PROVE IInv'
<1>1. /\ phase[c] = "running" /\ \A i \in Mine(c) : pc[i] = "done"
      /\ phase' = [phase EXCEPT ![c] = "saving"] /\ next' = [next EXCEPT ![c] = 1]
      /\ UNCHANGED <<input, quota, pc, attempt, tries, sub, paused, rows, accepted, lost,
                     unsaved, late, crashes, failures>>
  BY DEF Gathered, items, archive
<1>2. TypeOK /\ \A i \in Items : ItemInv(i) /\ i[1] \in Calls
  BY DEF IInv, Items
<1>3. /\ phase'[c] = "saving" /\ next'[c] = 1
      /\ \A d \in Calls : d # c => phase'[d] = phase[d] /\ next'[d] = next[d]
  BY <1>1, <1>2 DEF TypeOK
<1>4. TypeOK'
  <2>1. \A d \in Calls : next'[d] \in 1..(Len(input[d]) + 1) /\ next'[d] \in Nat
    BY <1>2, <1>3, InputTyped
  <2> QED
    BY <1>1, <1>2, <2>1 DEF TypeOK
<1>5. \A i \in Items : pc[i] \notin {"todo", "done"} => phase'[i[1]] = "running"
  <2>1. \A i \in Items : i[1] = c => pc[i] \in {"todo", "done"}
    BY <1>1, <1>2 DEF ItemInv
  <2> QED
    BY <1>2, <1>3, <2>1 DEF ItemInv
<1>6. \A i \in Items : ItemInv(i)'
  BY <1>1, <1>3, <1>5, ItemsLeftAlone
<1>7. CallInv(c)'
  BY <1>1, <1>3 DEF CallInv, Mine, ItemAt
<1>8. \A d \in Calls : d # c => CallInv(d)'
  BY <1>1, <1>3, OtherCall
<1> QED
  BY <1>4, <1>6, <1>7, <1>8 DEF IInv

LEMMA SaveNextFailedPreserves == ASSUME IInv, NEW c \in Calls, SaveNextFailed(c) PROVE IInv'
<1>1. TypeOK /\ CallInv(c) /\ next[c] \in 1..Len(input[c]) /\ Len(input[c]) \in Nat
  BY InputTyped DEF IInv, SaveNextFailed
<1>2. PICK i \in Items : i = ItemAt(c, next[c])
  BY <1>1, InputTyped
<1>3. /\ phase[c] = "saving" /\ next' = [next EXCEPT ![c] = @ + 1]
      /\ rows' = IF sub[i].code \in Unsaved THEN rows \cup {Row(i, sub[i])} ELSE rows
      /\ UNCHANGED <<input, phase, quota, pc, attempt, tries, sub, paused, accepted, lost,
                     unsaved, late, crashes, failures>>
  BY <1>2 DEF SaveNextFailed, items, archive
<1>4. ItemInv(i) /\ pc[i] = "done" /\ phase[i[1]] = "saving" /\ sub[i] \in Submissions
  BY <1>1, <1>2, <1>3, InputTyped DEF IInv, CallInv, ItemAt, TypeOK
<1>5. Row(i, sub[i]) \in rows'
  BY <1>3, <1>4 DEF ItemInv, Saved
<1>6. next'[c] = next[c] + 1 /\ \A d \in Calls : d # c => next'[d] = next[d]
  BY <1>1, <1>3 DEF TypeOK
<1>7. TypeOK'
  <2>1. \A d \in Calls : next'[d] \in 1..(Len(input[d]) + 1) /\ next'[d] \in Nat
    BY <1>1, <1>6, InputTyped
  <2>2. next' \in [Calls -> Nat]
    BY <1>1, <1>3, <2>1 DEF TypeOK
  <2>3. sub[i].code \in Unsaved => Row(i, sub[i]) \in
          [url : Urls, code : {"pending"} \cup NotAccepted, job : Jobs \cup {NoJob}]
    BY <1>4, RowTyped DEF Unsaved
  <2>4. rows' \subseteq [url : Urls, code : {"pending"} \cup NotAccepted,
                         job : Jobs \cup {NoJob}]
    BY <1>1, <1>3, <2>3 DEF TypeOK
  <2> QED
    BY <1>1, <1>3, <2>1, <2>2, <2>4 DEF TypeOK
<1>8. \A k \in Items : ItemInv(k)'
  <2>1. \A k \in Items : pc[k] \notin {"todo", "done"} => phase'[k[1]] = "running"
    BY <1>3 DEF IInv, ItemInv
  <2> QED
    BY <1>3, <2>1, ItemsLeftAlone
<1>9. CallInv(c)'
  <2>1. \A n \in 1..next[c] : n = next[c] \/ n \in 1..(next[c] - 1)
    BY <1>1
  <2>2. ASSUME NEW n \in 1..next[c] PROVE Saved(ItemAt(c, n))'
    BY <1>1, <1>2, <1>3, <1>5, <2>1, <2>2 DEF CallInv, Saved, Row, ItemAt
  <2>3. (next[c] + 1) - 1 = next[c]
    BY <1>1
  <2> QED
    BY <1>1, <1>3, <1>6, <2>2, <2>3 DEF CallInv, Mine, ItemAt
<1>10. \A d \in Calls : d # c => CallInv(d)'
  BY <1>3, <1>6, OtherCall
<1> QED
  BY <1>7, <1>8, <1>9, <1>10 DEF IInv

LEMMA FinalSaveFailsPreserves == ASSUME IInv, NEW c \in Calls, FinalSaveFails(c) PROVE IInv'
<1>1. /\ phase[c] = "saving" /\ phase' = [phase EXCEPT ![c] = "raised"]
      /\ failures < MaxFailures /\ failures' = failures + 1
      /\ UNCHANGED <<input, next, quota, pc, attempt, tries, sub, paused, rows, accepted, lost,
                     unsaved, late, crashes>>
  BY DEF FinalSaveFails, items, archive
<1>2. TypeOK /\ CallInv(c) /\ \A i \in Items : ItemInv(i) /\ i[1] \in Calls
  BY DEF IInv, Items
<1>3. phase'[c] = "raised" /\ \A d \in Calls : d # c => phase'[d] = phase[d]
  BY <1>1, <1>2 DEF TypeOK
<1>4. TypeOK'
  <2>1. failures' \in 0..MaxFailures
    BY <1>1, <1>2, LimitsAssumption DEF TypeOK
  <2> QED
    BY <1>1, <1>2, <2>1 DEF TypeOK
<1>5. \A i \in Items : pc[i] \notin {"todo", "done"} => phase'[i[1]] = "running"
  BY <1>1, <1>2, <1>3 DEF ItemInv
<1>6. \A i \in Items : ItemInv(i)'
  BY <1>1, <1>3, <1>5, ItemsLeftAlone
<1>7. CallInv(c)'
  BY <1>1, <1>2, <1>3 DEF CallInv, Mine, ItemAt
<1>8. \A d \in Calls : d # c => CallInv(d)'
  BY <1>1, <1>3, OtherCall
<1> QED
  BY <1>4, <1>6, <1>7, <1>8 DEF IInv

LEMMA ReturnPreserves == ASSUME IInv, NEW c \in Calls, Return(c) PROVE IInv'
<1>1. /\ phase[c] = "saving" /\ next[c] > Len(input[c])
      /\ phase' = [phase EXCEPT ![c] = "returned"]
      /\ UNCHANGED <<input, next, quota, pc, attempt, tries, sub, paused, rows, accepted, lost,
                     unsaved, late, crashes, failures>>
  BY DEF Return, items, archive
<1>2. TypeOK /\ CallInv(c) /\ \A i \in Items : ItemInv(i) /\ i[1] \in Calls
  BY DEF IInv, Items
<1>3. phase'[c] = "returned" /\ \A d \in Calls : d # c => phase'[d] = phase[d]
  BY <1>1, <1>2 DEF TypeOK
<1>4. TypeOK'
  BY <1>1, <1>2 DEF TypeOK
<1>5. \A i \in Items : pc[i] \notin {"todo", "done"} => phase'[i[1]] = "running"
  BY <1>1, <1>2, <1>3 DEF ItemInv
<1>6. \A i \in Items : ItemInv(i)'
  BY <1>1, <1>3, <1>5, ItemsLeftAlone
<1>7. \A i \in Mine(c) : Saved(i)
  <2>1. \A n \in 1..Len(input[c]) : n \in 1..(next[c] - 1)
    BY <1>1, <1>2, InputTyped
  <2> QED
    BY <1>1, <1>2, <2>1 DEF CallInv, Mine
<1>8. CallInv(c)'
  BY <1>1, <1>2, <1>3, <1>7 DEF CallInv, Mine, ItemAt, Saved, Row
<1>9. \A d \in Calls : d # c => CallInv(d)'
  BY <1>1, <1>3, OtherCall
<1> QED
  BY <1>4, <1>6, <1>8, <1>9 DEF IInv

----------------------------------------------------------------------------
(* The rest, and the invariant *)

LEMMA CrashPreserves == ASSUME IInv, Crash PROVE IInv'
<1>1. /\ crashes < MaxCrashes /\ crashes' = crashes + 1 /\ paused' = FALSE
      /\ phase' = [c \in Calls |-> IF Alive(c) THEN "crashed" ELSE phase[c]]
      /\ pc' = [i \in Items |-> IF Alive(i[1]) THEN "done" ELSE pc[i]]
      /\ attempt' = [i \in Items |-> IF Alive(i[1]) THEN 0 ELSE attempt[i]]
      /\ tries' = [i \in Items |-> IF Alive(i[1]) THEN 1 ELSE tries[i]]
      /\ sub' = [i \in Items |-> IF Alive(i[1]) THEN Sub("none", NoJob) ELSE sub[i]]
      /\ quota' \subseteq quota
      /\ unsaved' = unsaved \cup UNION {InHand(i) : i \in Items}
      /\ UNCHANGED <<input, next, rows, accepted, lost, late, failures>>
  BY DEF Crash, archive
<1>2. TypeOK /\ \A i \in Items : ItemInv(i) /\ i[1] \in Calls
  BY DEF IInv, Items
<1>3. Sub("none", NoJob) \in Submissions
  BY DEF Sub, Submissions
<1>4. TypeOK'
  <2>1. crashes' \in 0..MaxCrashes
    BY <1>1, <1>2, LimitsAssumption DEF TypeOK
  <2>2. phase' \in [Calls -> {"idle", "running", "saving", "returned", "raised", "crashed"}]
    BY <1>1, <1>2 DEF TypeOK
  <2>3. pc' \in [Items -> {"todo", "check", "loop", "gate", "post", "save", "judge", "done"}]
    BY <1>1, <1>2 DEF TypeOK
  <2>4. attempt' \in [Items -> 0..Retries] /\ tries' \in [Items -> 1..MaxAttempts]
    <3>1. 0 \in 0..Retries /\ 1 \in 1..MaxAttempts
      BY LimitsAssumption
    <3> QED
      BY <1>1, <1>2, <3>1 DEF TypeOK
  <2>5. sub' \in [Items -> Submissions]
    BY <1>1, <1>2, <1>3 DEF TypeOK
  <2>6. unsaved' \subseteq accepted' \ lost'
    BY <1>1, <1>2, InHandAnswered DEF TypeOK
  <2> QED
    BY <1>1, <1>2, <2>1, <2>2, <2>3, <2>4, <2>5, <2>6 DEF TypeOK
<1>5. \A i \in Items : ItemInv(i)'
  <2> SUFFICES ASSUME NEW i \in Items PROVE ItemInv(i)'
    OBVIOUS
  <2>1. ItemInv(i) /\ i[1] \in Calls
    BY <1>2
  <2>2. JobsOf(i)' = JobsOf(i) /\ Numbered(i)'
    BY <1>1, <2>1 DEF JobsOf, ItemInv, Numbered
  <2>3. Accounted(i)'
    <3> SUFFICES ASSUME NEW j \in JobsOf(i), j \notin lost, j \notin unsaved', ~Stored(j)
                 PROVE  FALSE
      BY <1>1, <2>2 DEF Accounted, Stored
    <3>1. j \notin unsaved /\ pc[i] = "save" /\ sub[i].job = j
      BY <1>1, <2>1 DEF ItemInv, Accounted
    <3>2. j \in Answered(i) /\ Single(i)
      BY <2>1, <3>1 DEF JobsOf, Answered, ItemInv
    <3>3. sub[i].code = "pending"
      BY <3>1, <3>2 DEF Single
    <3> QED
      BY <1>1, <3>1, <3>3 DEF InHand
  <2>4. CASE Alive(i[1])
    <3>1. phase'[i[1]] = "crashed" /\ pc'[i] = "done"
      BY <1>1, <2>1, <2>4
    <3> QED
      BY <2>2, <2>3, <3>1 DEF ItemInv
  <2>5. CASE ~Alive(i[1])
    <3>1. phase'[i[1]] = phase[i[1]] /\ pc'[i] = pc[i] /\ sub'[i] = sub[i]
      BY <1>1, <2>1, <2>5
    <3>2. pc[i] # "save"
      BY <2>1, <2>5 DEF ItemInv, Alive
    <3>3. \A j \in unsaved' : j \in unsaved \/ ItemOf(j) # i
      BY <1>1, <1>2, <3>2, InHandAnswered DEF InHand
    <3>4. Answered(i)' = Answered(i) /\ Dropped(i)' = Dropped(i)
      BY <1>1, <3>3 DEF Answered, Dropped
    <3>5. (Single(i) => Single(i)') /\ (Saved(i) => Saved(i)')
      BY <1>1, <3>1, <3>4 DEF Single, Saved, Row
    <3>6. Mine(i[1])' = Mine(i[1])
      BY <1>1 DEF Mine, ItemAt
    <3> QED
      BY <2>1, <2>2, <2>3, <3>1, <3>5, <3>6 DEF ItemInv
  <2> QED
    BY <2>4, <2>5
<1>6. ASSUME NEW d \in Calls PROVE CallInv(d)'
  <2>1. CASE Alive(d)
    BY <1>1, <2>1 DEF CallInv
  <2>2. CASE ~Alive(d)
    <3>1. phase'[d] = phase[d] /\ next'[d] = next[d] /\ input' = input /\ rows \subseteq rows'
      BY <1>1, <2>2
    <3>2. \A k \in Items : k[1] = d => pc'[k] = pc[k] /\ sub'[k] = sub[k]
      BY <1>1, <2>2
    <3> QED
      BY <3>1, <3>2, OtherCall
  <2> QED
    BY <2>1, <2>2
<1> QED
  BY <1>4, <1>5, <1>6 DEF IInv

LEMMA PauseOverPreserves == ASSUME IInv, PauseOver PROVE IInv'
<1>1. /\ paused' = FALSE
      /\ UNCHANGED <<input, phase, next, quota, pc, attempt, tries, sub, rows, accepted, lost,
                     unsaved, late, crashes, failures>>
  BY DEF PauseOver, calls, items, archive
<1>2. TypeOK'
  BY <1>1 DEF IInv, TypeOK
<1>3. \A i \in Items : pc[i] \notin {"todo", "done"} => phase'[i[1]] = "running"
  BY <1>1 DEF IInv, ItemInv
<1>4. \A i \in Items : ItemInv(i)'
  BY <1>1, <1>3, ItemsLeftAlone
<1>5. \A c \in Calls : CallInv(c)'
  BY <1>1, OtherCall
<1> QED
  BY <1>2, <1>4, <1>5 DEF IInv

LEMMA StutterPreserves == ASSUME IInv, UNCHANGED vars PROVE IInv'
<1>1. UNCHANGED <<input, phase, next, quota, pc, attempt, tries, sub, paused, rows, accepted,
                  lost, unsaved, late, crashes, failures>>
  BY DEF vars, calls, items, archive
<1>2. TypeOK'
  BY <1>1 DEF IInv, TypeOK
<1>3. \A i \in Items : pc[i] \notin {"todo", "done"} => phase'[i[1]] = "running"
  BY <1>1 DEF IInv, ItemInv
<1>4. \A i \in Items : ItemInv(i)'
  BY <1>1, <1>3, ItemsLeftAlone
<1>5. \A c \in Calls : CallInv(c)'
  BY <1>1, OtherCall
<1> QED
  BY <1>2, <1>4, <1>5 DEF IInv

LEMMA InitEstablishes == ASSUME Init PROVE IInv
<1>1. /\ input \in Inputs /\ rows = {} /\ accepted = {} /\ lost = {} /\ unsaved = {}
      /\ quota = {}
      /\ phase = [c \in Calls |-> "idle"] /\ next = [c \in Calls |-> 1]
      /\ pc = [i \in Items |-> "todo"]
  BY DEF Init
<1>2. TypeOK
  <2>1. \A c \in Calls : next[c] \in 1..(Len(input[c]) + 1)
    <3>1. \A c \in Calls : Len(input[c]) \in Nat
      BY <1>1, InputsAssumption
    <3>2. \A c \in Calls : next[c] = 1
      BY <1>1
    <3> QED
      BY <3>1, <3>2
  <2>2. attempt \in [Items -> 0..Retries] /\ tries \in [Items -> 1..MaxAttempts]
        /\ crashes \in 0..MaxCrashes /\ failures \in 0..MaxFailures
    <3>1. 0 \in 0..Retries /\ 1 \in 1..MaxAttempts /\ 0 \in 0..MaxCrashes
          /\ 0 \in 0..MaxFailures
      BY LimitsAssumption
    <3> QED
      BY <3>1 DEF Init
  <2>3. sub \in [Items -> Submissions]
    <3>1. Sub("none", NoJob) \in Submissions
      BY DEF Sub, Submissions
    <3> QED
      BY <3>1 DEF Init
  <2>4. paused \in BOOLEAN /\ late \in [Calls -> Nat] /\ next \in [Calls -> Nat]
    BY DEF Init
  <2> QED
    BY <1>1, <2>1, <2>2, <2>3, <2>4 DEF TypeOK
<1>3. \A i \in Items : ItemInv(i)
  <2> SUFFICES ASSUME NEW i \in Items PROVE ItemInv(i)
    OBVIOUS
  <2>1. pc[i] = "todo" /\ JobsOf(i) = {} /\ Answered(i) = {} /\ Dropped(i) = {}
    BY <1>1 DEF JobsOf, Answered, Dropped
  <2>2. Numbered(i) /\ Accounted(i) /\ Single(i)
    BY <2>1, FS_EmptySet DEF Numbered, Accounted, Single
  <2> QED
    BY <2>1, <2>2 DEF ItemInv
<1>4. \A c \in Calls : CallInv(c)
  BY <1>1 DEF CallInv
<1> QED
  BY <1>2, <1>3, <1>4 DEF IInv

LEMMA StepPreserves == ASSUME IInv, [Next]_vars PROVE IInv'
<1>1. ASSUME NEW c \in Calls, Call(c) \/ CallStep(c) PROVE IInv'
  BY <1>1, CallPreserves, TakeItemPreserves, GatheredPreserves, SaveNextFailedPreserves,
     FinalSaveFailsPreserves, ReturnPreserves DEF CallStep
<1>2. ASSUME NEW i \in Items, ItemStep(i) PROVE IInv'
  BY <1>2, CheckRecentPreserves, LoopHeadPreserves, StartPostPreserves, AcceptedPreserves,
     RefusedPreserves, PostFailsPreserves, AnswerLostPreserves, SavePreserves,
     DatabaseFailsPreserves, JudgePreserves
     DEF ItemStep
<1> QED
  BY <1>1, <1>2, PauseOverPreserves, CrashPreserves, StutterPreserves DEF Next, Terminated

LEMMA Inductive == Spec => []IInv
<1>1. Init => IInv
  BY InitEstablishes
<1>2. IInv /\ [Next]_vars => IInv'
  BY StepPreserves
<1> QED
  BY <1>1, <1>2, PTL DEF Spec

----------------------------------------------------------------------------
(* The theorems *)

\* Neither the loop over rate limits nor the transport goes beyond its last attempt.
THEOREM TypeCorrect == Spec => []TypeOK
<1>1. IInv => TypeOK
  BY DEF IInv
<1> QED
  BY <1>1, Inductive, PTL

\* What the Archive made and answered is in the cache or about to be saved, but for the
\* jobs whose one save failed or was cut off; a call that crashed lost no other.
THEOREM NoJobOrphaned == Spec => []JobsAccounted
<1>1. IInv => JobsAccounted
  <2> SUFFICES ASSUME IInv, NEW j \in accepted \ (lost \cup unsaved)
               PROVE  \/ Stored(j)
                      \/ pc[ItemOf(j)] = "save" /\ sub[ItemOf(j)].job = j
    BY DEF JobsAccounted
  <2>1. ItemOf(j) \in Items
    BY DEF IInv, TypeOK, Jobs, ItemOf
  <2>2. j \in JobsOf(ItemOf(j)) /\ Accounted(ItemOf(j))
    BY <2>1 DEF JobsOf, IInv, ItemInv
  <2> QED
    BY <2>2 DEF Accounted
<1> QED
  BY <1>1, Inductive, PTL

\* However often one URL was rate limited, failed and was sent again, its result is the
\* one job of it that was answered, unless the save of that job failed.
THEOREM ResultIsReal == Spec => []ResultIsTheJob
<1>1. IInv => ResultIsTheJob
  <2> SUFFICES ASSUME IInv, NEW i \in Items, pc[i] = "done", phase[i[1]] # "crashed"
               PROVE  LET answered == {j \in accepted \ lost : ItemOf(j) = i}
                      IN  \/ answered = {} /\ sub[i].code # "pending"
                          \/ answered = {sub[i].job} /\ sub[i].code = "pending"
                          \/ \E j \in unsaved : answered = {j} /\ sub[i].code = "network"
    BY DEF ResultIsTheJob
  <2> DEFINE answered == {j \in accepted \ lost : ItemOf(j) = i}
  <2>1. Single(i)
    BY DEF IInv, ItemInv
  <2>2. answered = Answered(i) \cup Dropped(i)
    <3>1. unsaved \subseteq accepted \ lost
      BY DEF IInv, TypeOK
    <3>2. \A j : j \in answered <=> j \in Answered(i) \/ j \in Dropped(i)
      BY <3>1 DEF Answered, Dropped
    <3> QED
      BY <3>2
  <2> HIDE DEF answered
  <2>3. ASSUME Dropped(i) = {}
        PROVE  \/ answered = {} /\ sub[i].code # "pending"
               \/ answered = {sub[i].job} /\ sub[i].code = "pending"
    <3>1. answered = Answered(i)
      BY <2>2, <2>3
    <3> QED
      BY <2>1, <3>1 DEF Single
  <2>4. ASSUME NEW j \in Dropped(i)
        PROVE  j \in unsaved /\ answered = {j} /\ sub[i].code = "network"
    <3>1. sub[i].code = "network" /\ Dropped(i) = {j} /\ j \in unsaved
      BY <2>1, <2>4 DEF Single, Dropped
    <3>2. Answered(i) = {}
      BY <2>1, <3>1 DEF Single
    <3> QED
      BY <2>2, <3>1, <3>2
  <2> QED
    BY <2>3, <2>4 DEF answered
<1> QED
  BY <1>1, Inductive, PTL

\* A call that returned left in the table what it told its caller, of every URL.
THEOREM ToldIsRecorded == Spec => []ResultsRecorded
<1>1. IInv => ResultsRecorded
  BY DEF IInv, CallInv, Saved, ResultsRecorded
<1> QED
  BY <1>1, Inductive, PTL

----------------------------------------------------------------------------
(* What is sent after the quota *)

\* The attempts that an item at the limiter or at work has left.
Spare(i) == {t \in 1..MaxAttempts : \/ pc[i] = "gate" /\ tries[i] <= t
                                    \/ pc[i] = "post" /\ tries[i] < t}

\* Those of all items of a call
Left(c) == {x \in Items \X (1..MaxAttempts) : x[1][1] = c /\ x[2] \in Spare(x[1])}

Most == (Concurrency - 1) * MaxAttempts

\* No more items are at work than there are workers; and from the quota on, what was sent
\* and what is left to send is bounded.
QuotaInv(c) ==
  /\ IsFiniteSet(Active(c)) /\ Cardinality(Active(c)) <= Concurrency
  /\ c \notin quota /\ phase[c] # "crashed" => late[c] = 0
  /\ c \in quota => late[c] + Cardinality(Left(c)) <= Most
  /\ late[c] <= Most

QInv == \A c \in Calls : QuotaInv(c)

LEMMA MostIsNat == Most \in Nat
<1>1. Concurrency - 1 \in Nat /\ MaxAttempts \in Nat
  BY LimitsAssumption
<1>2. \A a, b \in Nat : a * b \in Nat
  OBVIOUS
<1> QED
  BY <1>1, <1>2 DEF Most

LEMMA LeftIsFinite ==
  ASSUME NEW c \in Calls, IsFiniteSet(Active(c))
  PROVE  /\ Left(c) \subseteq Active(c) \X (1..MaxAttempts)
         /\ IsFiniteSet(Left(c)) /\ Cardinality(Left(c)) \in Nat
<1>1. Left(c) \subseteq Active(c) \X (1..MaxAttempts)
  BY DEF Left, Active, Spare
<1>2. IsFiniteSet(1..MaxAttempts)
  BY LimitsAssumption, FS_Interval
<1>3. IsFiniteSet(Active(c) \X (1..MaxAttempts))
  BY <1>2, FS_Product
<1>4. IsFiniteSet(Left(c))
  BY <1>1, <1>3, FS_Subset
<1> QED
  BY <1>1, <1>4, FS_CardinalityType

\* A step that adds nothing to what a call is at
LEMMA QuotaKept ==
  ASSUME TypeOK, NEW c \in Calls, QuotaInv(c), Active(c)' \subseteq Active(c),
         c \in quota => Left(c)' \subseteq Left(c), late'[c] = late[c],
         c \in quota' => c \in quota,
         c \notin quota' /\ phase'[c] # "crashed" => c \notin quota /\ phase[c] # "crashed"
  PROVE  QuotaInv(c)'
<1>1. IsFiniteSet(Active(c)) /\ Cardinality(Active(c)) <= Concurrency
  BY DEF QuotaInv
<1>2. IsFiniteSet(Active(c)') /\ Cardinality(Active(c)') <= Cardinality(Active(c))
  BY <1>1, FS_Subset
<1>3. Cardinality(Active(c)') <= Concurrency
  BY <1>1, <1>2, FS_CardinalityType, LimitsAssumption
<1>4. ASSUME c \in quota' PROVE late'[c] + Cardinality(Left(c)') <= Most
  <2>1. late[c] + Cardinality(Left(c)) <= Most /\ Left(c)' \subseteq Left(c)
    BY <1>4 DEF QuotaInv
  <2>2. IsFiniteSet(Left(c)) /\ Cardinality(Left(c)) \in Nat
    BY <1>1, LeftIsFinite
  <2>3. Cardinality(Left(c)') <= Cardinality(Left(c)) /\ Cardinality(Left(c)') \in Nat
    BY <2>1, <2>2, FS_Subset, FS_CardinalityType
  <2>4. late[c] \in Nat /\ Most \in Nat
    BY MostIsNat DEF TypeOK
  <2> QED
    BY <2>1, <2>2, <2>3, <2>4
<1> QED
  BY <1>2, <1>3, <1>4 DEF QuotaInv, Most

\* A step of an item that is at work
LEMMA ItemQuota ==
  ASSUME TypeOK, QInv, NEW i \in Items, pc[i] \notin {"todo", "done"},
         UNCHANGED <<phase, quota, late>>,
         \A k \in Items : k # i => pc'[k] = pc[k] /\ tries'[k] = tries[k],
         i[1] \in quota => Spare(i)' \subseteq Spare(i)
  PROVE  QInv'
<1>1. \A c \in Calls : Active(c)' \subseteq Active(c)
  BY DEF Active
<1>2. \A k \in Items : k # i => Spare(k)' = Spare(k)
  BY DEF Spare
<1>3. \A c \in Calls : c \in quota => Left(c)' \subseteq Left(c)
  BY <1>2 DEF Left
<1>4. \A c \in Calls : QuotaInv(c)
  BY DEF QInv
<1>5. \A c \in Calls : QuotaInv(c)'
  BY <1>1, <1>3, <1>4, QuotaKept
<1> QED
  BY <1>5 DEF QInv

LEMMA ItemQuotaSteps ==
  ASSUME TypeOK, QInv, NEW i \in Items,
         \/ CheckRecent(i) \/ LoopHead(i) \/ Accepted(i) \/ Refused(i) \/ PostFails(i)
         \/ AnswerLost(i) \/ Save(i) \/ DatabaseFails(i)
  PROVE  QInv'
<1>1. pc[i] \notin {"todo", "done"} /\ UNCHANGED <<phase, quota, late>>
  BY DEF CheckRecent, LoopHead, Accepted, Refused, PostFails, AnswerLost, Save,
         DatabaseFails, Answer, TryAgainOrGiveUp, Finish, calls
<1>2. \A k \in Items : k # i => pc'[k] = pc[k] /\ tries'[k] = tries[k]
  BY DEF CheckRecent, LoopHead, Accepted, Refused, PostFails, AnswerLost, Save,
         DatabaseFails, Answer, TryAgainOrGiveUp, Finish, TypeOK
<1>3. i[1] \in quota => Spare(i)' \subseteq Spare(i)
  <2>1. ASSUME pc'[i] \notin {"gate", "post"} PROVE Spare(i)' \subseteq Spare(i)
    BY <2>1 DEF Spare
  <2>2. CASE \/ CheckRecent(i) \/ LoopHead(i) \/ Accepted(i) \/ Refused(i) \/ Save(i)
            \/ DatabaseFails(i)
    <3>1. i[1] \in quota => pc'[i] \in {"loop", "save", "judge", "done"}
      BY <2>2 DEF CheckRecent, LoopHead, Accepted, Refused, Save, DatabaseFails, Answer,
                  Finish, TypeOK
    <3> QED
      BY <2>1, <3>1
  <2>3. CASE TryAgainOrGiveUp(i)
    <3>1. CASE pc' = [pc EXCEPT ![i] = "gate"] /\ tries' = [tries EXCEPT ![i] = @ + 1]
      <4>1. pc[i] = "post" /\ pc'[i] = "gate" /\ tries'[i] = tries[i] + 1 /\ tries[i] \in Nat
        BY <2>3, <3>1 DEF TryAgainOrGiveUp, TypeOK
      <4>2. \A t \in 1..MaxAttempts : tries[i] + 1 <= t => tries[i] < t
        BY <4>1, LimitsAssumption
      <4> QED
        BY <4>1, <4>2 DEF Spare
    <3>2. CASE pc'[i] \in {"done", "save"}
      BY <2>1, <3>2
    <3> QED
      BY <2>3, <3>1, <3>2 DEF TryAgainOrGiveUp, Finish, TypeOK
  <2> QED
    BY <2>2, <2>3 DEF PostFails, AnswerLost
<1> QED
  BY <1>1, <1>2, <1>3, ItemQuota

\* A POST that is sent is one less to send.
LEMMA StartPostQuota == ASSUME TypeOK, QInv, NEW i \in Items, StartPost(i) PROVE QInv'
<1>1. /\ pc[i] = "gate" /\ pc' = [pc EXCEPT ![i] = "post"] /\ pc[i] \notin {"todo", "done"}
      /\ UNCHANGED <<phase, quota, tries>>
  BY DEF StartPost, calls
<1>2. /\ pc'[i] = "post" /\ \A k \in Items : k # i => pc'[k] = pc[k] /\ tries'[k] = tries[k]
      /\ tries[i] \in 1..MaxAttempts
  BY <1>1 DEF TypeOK
<1>3. /\ Spare(i)' = Spare(i) \ {tries[i]} /\ tries[i] \in Spare(i)
      /\ \A k \in Items : k # i => Spare(k)' = Spare(k)
  BY <1>1, <1>2, LimitsAssumption DEF Spare
<1>4. \A c \in Calls : Active(c)' \subseteq Active(c) /\ Left(c)' \subseteq Left(c)
  BY <1>1, <1>2, <1>3 DEF Active, Left
<1>5. ASSUME NEW c \in Calls, ~(c = i[1] /\ c \in quota) PROVE QuotaInv(c)'
  <2>1. late'[c] = late[c]
    BY <1>5 DEF StartPost, TypeOK
  <2> QED
    BY <1>1, <1>4, <2>1, QuotaKept DEF QInv
<1>6. ASSUME i[1] \in quota PROVE QuotaInv(i[1])'
  <2>1. PICK c \in Calls : c = i[1]
    BY DEF Items
  <2>2. QuotaInv(c) /\ c \in quota /\ late'[c] = late[c] + 1
    BY <1>6, <2>1 DEF QInv, StartPost, TypeOK
  <2>3. IsFiniteSet(Active(c)) /\ Cardinality(Active(c)) <= Concurrency
    BY <2>2 DEF QuotaInv
  <2>4. /\ IsFiniteSet(Active(c)') /\ Cardinality(Active(c)') <= Cardinality(Active(c))
        /\ Cardinality(Active(c)') \in Nat /\ Cardinality(Active(c)) \in Nat
    BY <1>4, <2>3, FS_Subset, FS_CardinalityType
  <2>5. Left(c)' = Left(c) \ {<<i, tries[i]>>} /\ <<i, tries[i]>> \in Left(c)
    BY <1>2, <1>3, <2>1 DEF Left
  <2>6. IsFiniteSet(Left(c)) /\ Cardinality(Left(c)) \in Nat
    BY <2>3, LeftIsFinite
  <2>7. Cardinality(Left(c)') = Cardinality(Left(c)) - 1 /\ Cardinality(Left(c)) >= 1
    <3>1. Cardinality(Left(c)') = Cardinality(Left(c)) - 1
      BY <2>5, <2>6, FS_RemoveElement
    <3>2. Cardinality(Left(c)') \in Nat
      BY <2>5, <2>6, FS_RemoveElement, FS_CardinalityType
    <3> QED
      BY <2>6, <3>1, <3>2
  <2>8. late[c] + Cardinality(Left(c)) <= Most /\ late[c] \in Nat /\ Most \in Nat
    BY <2>2, MostIsNat DEF QuotaInv, TypeOK
  <2>9. late'[c] + Cardinality(Left(c)') <= Most /\ late'[c] <= Most
    BY <2>2, <2>6, <2>7, <2>8
  <2>10. Cardinality(Active(c)') <= Concurrency
    BY <2>3, <2>4, LimitsAssumption
  <2>11. QuotaInv(c)'
    BY <1>1, <2>2, <2>4, <2>9, <2>10 DEF QuotaInv, Most
  <2> QED
    BY <2>1, <2>11
<1> QED
  BY <1>1, <1>5, <1>6 DEF QInv

\* The item that learns of the quota is done: the others are fewer than the workers.
LEMMA JudgeQuota == ASSUME IInv, QInv, NEW i \in Items, Judge(i) PROVE QInv'
<1>0. TypeOK
  BY DEF IInv
<1>1. pc[i] = "judge" /\ UNCHANGED <<phase, tries, late>> /\ pc[i] \notin {"todo", "done"}
  BY DEF Judge
<1>2. /\ \A k \in Items : k # i => pc'[k] = pc[k] /\ tries'[k] = tries[k]
      /\ pc'[i] \in {"loop", "done"}
  BY <1>0 DEF Judge, TypeOK
<1>3. CASE sub[i].code # "quota" \/ i[1] \in quota
  <2>1. quota' = quota
    BY <1>3 DEF Judge
  <2>2. Spare(i)' \subseteq Spare(i)
    BY <1>2 DEF Spare
  <2> QED
    BY <1>0, <1>1, <1>2, <2>1, <2>2, ItemQuota
<1>4. CASE sub[i].code = "quota" /\ i[1] \notin quota
  <2>1. PICK c \in Calls : c = i[1]
    BY DEF Items
  <2>2. quota' = quota \cup {c} /\ pc'[i] = "done"
    BY <1>0, <1>1, <1>4, <2>1 DEF Judge, Retried, TypeOK
  <2>3. /\ QuotaInv(c) /\ i \in Active(c) /\ Active(c)' = Active(c) \ {i}
        /\ \A d \in Calls : Active(d)' \subseteq Active(d)
    BY <1>1, <1>2, <2>1, <2>2 DEF QInv, Active
  <2>4. /\ \A k \in Items : k # i => Spare(k)' = Spare(k)
        /\ Spare(i)' = {}
    BY <1>2, <2>2 DEF Spare
  <2>5. \A d \in Calls : d # c => QuotaInv(d)'
    <3>1. \A d \in Calls : d # c => Left(d)' = Left(d)
      BY <2>1, <2>4 DEF Left
    <3> QED
      BY <1>0, <1>1, <2>2, <2>3, <3>1, QuotaKept DEF QInv
  <2>6. ASSUME phase[c] # "crashed" PROVE QuotaInv(c)'
    <3>1. late'[c] = 0
      BY <1>1, <1>4, <2>1, <2>3, <2>6 DEF QuotaInv
    <3>2. /\ IsFiniteSet(Active(c)) /\ Cardinality(Active(c)) \in Nat
          /\ Cardinality(Active(c)) <= Concurrency
      BY <2>3, FS_CardinalityType DEF QuotaInv
    <3>3. /\ IsFiniteSet(Active(c)') /\ Cardinality(Active(c)') = Cardinality(Active(c)) - 1
          /\ Cardinality(Active(c)') \in Nat
      BY <2>3, <3>2, FS_RemoveElement, FS_CardinalityType
    <3>4. Cardinality(Active(c)') <= Concurrency - 1
      BY <3>2, <3>3, LimitsAssumption
    <3>5. Left(c)' \subseteq Active(c)' \X (1..MaxAttempts)
      BY <1>2, <2>4 DEF Left, Active, Spare
    <3>6. IsFiniteSet(1..MaxAttempts) /\ Cardinality(1..MaxAttempts) = MaxAttempts
      BY LimitsAssumption, FS_Interval
    <3>7. /\ IsFiniteSet(Active(c)' \X (1..MaxAttempts))
          /\ Cardinality(Active(c)' \X (1..MaxAttempts)) = Cardinality(Active(c)') * MaxAttempts
      BY <3>3, <3>6, FS_Product
    <3>8. /\ Cardinality(Left(c)') <= Cardinality(Active(c)') * MaxAttempts
          /\ Cardinality(Left(c)') \in Nat
      BY <3>5, <3>7, FS_Subset, FS_CardinalityType
    <3>9. Cardinality(Active(c)') * MaxAttempts <= Most
      <4>1. \A a, b, m \in Nat : a <= b => a * m <= b * m
        OBVIOUS
      <4>2. Concurrency - 1 \in Nat /\ MaxAttempts \in Nat
        BY LimitsAssumption
      <4> QED
        BY <3>3, <3>4, <4>1, <4>2 DEF Most
    <3>10. late'[c] + Cardinality(Left(c)') <= Most /\ late'[c] <= Most
      <4>1. Cardinality(Active(c)') * MaxAttempts \in Nat
        BY <3>3, LimitsAssumption
      <4> QED
        BY <3>1, <3>8, <3>9, <4>1, MostIsNat
    <3>11. Cardinality(Active(c)') <= Concurrency
      BY <3>3, <3>4, LimitsAssumption
    <3> QED
      BY <1>1, <2>2, <3>3, <3>10, <3>11 DEF QuotaInv, Most
  <2>7. phase[c] # "crashed"
    BY <1>1, <2>1 DEF IInv, ItemInv
  <2> QED
    BY <2>1, <2>5, <2>6, <2>7, <1>1 DEF QInv
<1> QED
  BY <1>3, <1>4

\* A worker takes an item only if one is free.
LEMMA TakeItemQuota == ASSUME TypeOK, QInv, NEW c \in Calls, TakeItem(c) PROVE QInv'
<1>1. PICK i \in Items : i = ItemAt(c, next[c])
  <2>1. next[c] \in 1..Len(input[c])
    BY InputTyped DEF TakeItem
  <2> QED
    BY <2>1, InputTyped
<1>2. /\ pc' = [pc EXCEPT ![i] = "check"] /\ UNCHANGED <<phase, quota, tries, late>> /\ i[1] = c
      /\ Cardinality(Active(c)) < Concurrency
  BY <1>1 DEF TakeItem, ItemAt
<1>3. pc'[i] = "check" /\ \A k \in Items : k # i => pc'[k] = pc[k]
  BY <1>2 DEF TypeOK
<1>4. \A d \in Calls : Left(d)' \subseteq Left(d)
  BY <1>2, <1>3 DEF Left, Spare
<1>5. \A d \in Calls : d # c => QuotaInv(d)'
  <2>1. \A d \in Calls : d # c => Active(d)' \subseteq Active(d)
    BY <1>2, <1>3 DEF Active
  <2> QED
    BY <1>2, <1>4, <2>1, QuotaKept DEF QInv
<1>6. QuotaInv(c)'
  <2>1. QuotaInv(c) /\ IsFiniteSet(Active(c)) /\ Cardinality(Active(c)) \in Nat
    BY FS_CardinalityType DEF QInv, QuotaInv
  <2>2. Active(c)' \subseteq Active(c) \cup {i}
    BY <1>3 DEF Active
  <2>3. /\ IsFiniteSet(Active(c) \cup {i})
        /\ Cardinality(Active(c) \cup {i}) <= Cardinality(Active(c)) + 1
        /\ Cardinality(Active(c) \cup {i}) \in Nat
    <3>1. /\ IsFiniteSet(Active(c) \cup {i})
          /\ \/ Cardinality(Active(c) \cup {i}) = Cardinality(Active(c))
             \/ Cardinality(Active(c) \cup {i}) = Cardinality(Active(c)) + 1
      BY <2>1, FS_AddElement
    <3> QED
      BY <2>1, <3>1
  <2>4. IsFiniteSet(Active(c)') /\ Cardinality(Active(c)') <= Cardinality(Active(c) \cup {i})
        /\ Cardinality(Active(c)') \in Nat
    BY <2>2, <2>3, FS_Subset, FS_CardinalityType
  <2>5. Cardinality(Active(c)') <= Concurrency
    BY <1>2, <2>1, <2>3, <2>4, LimitsAssumption
  <2>6. IsFiniteSet(Left(c)) /\ Cardinality(Left(c)) \in Nat
    BY <2>1, LeftIsFinite
  <2>7. Cardinality(Left(c)') <= Cardinality(Left(c)) /\ Cardinality(Left(c)') \in Nat
    BY <1>4, <2>6, FS_Subset, FS_CardinalityType
  <2>8. late[c] \in Nat /\ Most \in Nat
    BY MostIsNat DEF TypeOK
  <2>9. c \in quota => late[c] + Cardinality(Left(c)') <= Most
    BY <2>1, <2>6, <2>7, <2>8 DEF QuotaInv
  <2> QED
    BY <1>2, <2>1, <2>4, <2>5, <2>9 DEF QuotaInv, Most
<1> QED
  BY <1>5, <1>6 DEF QInv

\* What is over knows of no quota.
LEMMA CrashQuota == ASSUME TypeOK, QInv, Crash PROVE QInv'
<1>1. /\ \A i \in Items : pc'[i] = IF Alive(i[1]) THEN "done" ELSE pc[i]
      /\ \A i \in Items : tries'[i] = IF Alive(i[1]) THEN 1 ELSE tries[i]
      /\ \A c \in Calls : phase'[c] = IF Alive(c) THEN "crashed" ELSE phase[c]
      /\ quota' = {c \in quota : ~Alive(c)}
      /\ late' = late
  BY DEF Crash
<1>2. ASSUME NEW c \in Calls PROVE QuotaInv(c)'
  <2>1. Active(c)' \subseteq Active(c)
    BY <1>1 DEF Active
  <2>2. Left(c)' \subseteq Left(c)
    BY <1>1 DEF Left, Spare
  <2>3. QuotaInv(c) /\ late'[c] = late[c] /\ (c \in quota' => c \in quota)
    BY <1>1 DEF QInv
  <2>4. c \notin quota' /\ phase'[c] # "crashed" => c \notin quota /\ phase[c] # "crashed"
    BY <1>1
  <2> QED
    BY <2>1, <2>2, <2>3, <2>4, QuotaKept
<1> QED
  BY <1>2 DEF QInv

\* The other steps of a call, and the end of a pause
LEMMA OtherQuotaSteps ==
  ASSUME TypeOK, QInv, UNCHANGED <<quota, pc, tries, late>>,
         \A c \in Calls : phase'[c] # "crashed" => phase[c] # "crashed"
  PROVE  QInv'
<1>1. \A c \in Calls : Active(c)' = Active(c) /\ Left(c)' = Left(c)
  BY DEF Active, Left, Spare
<1>2. \A c \in Calls : QuotaInv(c)'
  BY <1>1, QuotaKept DEF QInv
<1> QED
  BY <1>2 DEF QInv

LEMMA QuotaInit == ASSUME Init PROVE QInv
<1>1. \A c \in Calls : Active(c) = {} /\ late[c] = 0 /\ c \notin quota
  BY DEF Init, Active
<1>2. IsFiniteSet({}) /\ Cardinality({}) = 0
  BY FS_EmptySet
<1>3. Most \in Nat /\ Concurrency \in Nat
  BY MostIsNat, LimitsAssumption
<1>4. ASSUME NEW c \in Calls PROVE QuotaInv(c)
  <2>1. Cardinality(Active(c)) <= Concurrency /\ late[c] <= Most
    BY <1>1, <1>2, <1>3
  <2> QED
    BY <1>1, <1>2, <2>1 DEF QuotaInv
<1> QED
  BY <1>4 DEF QInv

LEMMA QuotaStep == ASSUME IInv, QInv, [Next]_vars PROVE QInv'
<1>0. TypeOK
  BY DEF IInv
<1>1. CASE \E c \in Calls : Call(c) \/ CallStep(c)
  <2>1. PICK c \in Calls : Call(c) \/ CallStep(c)
    BY <1>1
  <2>2. CASE TakeItem(c)
    BY <1>0, <2>2, TakeItemQuota
  <2>3. CASE Call(c) \/ Gathered(c) \/ SaveNextFailed(c) \/ FinalSaveFails(c) \/ Return(c)
    <3>1. UNCHANGED <<quota, pc, tries, late>>
      BY <2>3 DEF Call, Gathered, SaveNextFailed, FinalSaveFails, Return, items
    <3>2. \A d \in Calls : phase'[d] # "crashed" => phase[d] # "crashed"
      BY <1>0, <2>3 DEF Call, Gathered, SaveNextFailed, FinalSaveFails, Return, TypeOK
    <3> QED
      BY <1>0, <3>1, <3>2, OtherQuotaSteps
  <2> QED
    BY <2>1, <2>2, <2>3 DEF CallStep
<1>2. CASE \E i \in Items : ItemStep(i)
  BY <1>0, <1>2, ItemQuotaSteps, StartPostQuota, JudgeQuota DEF ItemStep
<1>3. CASE PauseOver \/ Terminated \/ UNCHANGED vars
  <2>1. UNCHANGED <<phase, quota, pc, tries, late>>
    BY <1>3 DEF PauseOver, Terminated, vars, calls, items
  <2> QED
    BY <1>0, <2>1, OtherQuotaSteps
<1>4. CASE Crash
  BY <1>0, <1>4, CrashQuota
<1> QED
  BY <1>1, <1>2, <1>3, <1>4 DEF Next

\* A quota answer stops the call: whatever the other workers are doing then, each of them
\* sends at most the attempts of the one submission it is in, and no new one is begun.
THEOREM QuotaIsHeeded == Spec => []QuotaStops
<1>1. Init => IInv /\ QInv
  BY InitEstablishes, QuotaInit
<1>2. IInv /\ QInv /\ [Next]_vars => (IInv /\ QInv)'
  BY StepPreserves, QuotaStep
<1>3. QInv => QuotaStops
  BY DEF QInv, QuotaInv, QuotaStops, Most
<1> QED
  BY <1>1, <1>2, <1>3, PTL DEF Spec
=============================================================================
