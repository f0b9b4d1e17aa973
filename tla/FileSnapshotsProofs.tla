------------------------ MODULE FileSnapshotsProofs ------------------------
(***************************************************************************)
(* Theorems about FileSnapshots, for any calls, threads, inodes and        *)
(* contents, and without the bounds on time and changes.                   *)
(***************************************************************************)
EXTENDS FileSnapshots, FiniteSetTheorems, SequenceTheorems, TLAPS

(* Types *)

\* The state that stat() tells of an existing file, and the contents it has.
LEMMA StatType ==
  ASSUME TypeOK, Exists
  PROVE  /\ Stat \in Stats
         /\ inode \in Inodes
         /\ content[inode] \in Seq(Chunks)
         /\ content[inode] \in Contents
  <1>1. inode \in Inodes
    BY DEF TypeOK, Exists
  <1>2. content[inode] \in Contents /\ mtime[inode] \in Nat /\ ctime[inode] \in Nat
    BY <1>1 DEF TypeOK
  <1>3. content[inode] \in Seq(Chunks)
    BY <1>2, FilesAssumption
  <1>4. Len(content[inode]) \in Nat
    BY <1>3, LenProperties
  <1>5. QED
    BY <1>1, <1>2, <1>3, <1>4 DEF Stat, Stats

\* The contents a call has seen the file have stay contents.
LEMMA HeldType ==
  ASSUME TypeOK, NEW c \in Contents, Change(c)
  PROVE  held' \in [Calls -> SUBSET Contents]
  BY DEF Change, TypeOK

\* A permit given back leaves no more in use than there are.
LEMMA FewerThreads ==
  ASSUME TypeOK, NEW k, threads' = threads \ {k}
  PROVE  threads' \subseteq Calls /\ Cardinality(threads') <= Workers
  <1>1. IsFiniteSet(threads)
    BY CallsAssumption, FS_Subset DEF TypeOK
  <1>2. /\ Cardinality(threads \ {k}) <= Cardinality(threads)
        /\ Cardinality(threads \ {k}) \in Nat
        /\ Cardinality(threads) \in Nat
    BY <1>1, FS_Subset, FS_CardinalityType
  <1>3. Cardinality(threads') <= Workers
    BY <1>2, CallsAssumption DEF TypeOK
  <1>4. QED
    BY <1>3 DEF TypeOK

\* One element more counts as one more at most.
LEMMA OneMore ==
  ASSUME NEW S, IsFiniteSet(S), NEW x
  PROVE  /\ Cardinality(S \cup {x}) <= Cardinality(S) + 1
         /\ Cardinality(S \cup {x}) \in Nat
         /\ Cardinality(S) \in Nat
  <1>1. Cardinality(S) \in Nat
    BY FS_CardinalityType
  <1>2. CASE x \in S
    <2>1. S \cup {x} = S
      BY <1>2
    <2>2. QED
      BY <1>1, <2>1
  <1>3. CASE x \notin S
    BY <1>1, <1>3, FS_AddElement
  <1>4. QED
    BY <1>2, <1>3

\* A permit is handed out only while one is left.
LEMMA OneMoreThread ==
  ASSUME TypeOK, NEW k \in Calls, threads' = threads \cup {k}, Cardinality(threads) < Workers
  PROVE  threads' \subseteq Calls /\ Cardinality(threads') <= Workers
  <1>1. IsFiniteSet(threads)
    BY CallsAssumption, FS_Subset DEF TypeOK
  <1>2. /\ Cardinality(threads \cup {k}) <= Cardinality(threads) + 1
        /\ Cardinality(threads \cup {k}) \in Nat
        /\ Cardinality(threads) \in Nat
    BY <1>1, OneMore
  <1>3. Cardinality(threads') <= Workers
    BY <1>2, CallsAssumption
  <1>4. QED
    BY <1>3 DEF TypeOK

\* Every call that has the file open has an inode open.
Opened == \A k \in Calls : pc[k] = "read" => fd[k] \in Inodes

Typed == TypeOK /\ Opened

\* A step of the file system keeps the types.
LEMMA DiskTypes ==
  ASSUME Typed, DiskStep
  PROVE  Typed'
  <1> USE BoundsAssumption
  <1>1. CASE Tick
    BY <1>1 DEF Tick, Typed, TypeOK, Opened, hashing
  <1>2. CASE Remove
    BY <1>2 DEF Remove, Typed, TypeOK, Opened, hashing, Unlink, Exists
  <1>3. ASSUME NEW c \in Contents, Write(c) PROVE Typed'
    BY <1>3, HeldType DEF Write, Change, Typed, TypeOK, Opened, hashing, Exists
  <1>4. ASSUME NEW m \in 0..now, Touch(m) PROVE Typed'
    <2>1. content[inode] \in Contents
      BY <1>4, StatType DEF Touch, Typed
    <2>2. held' \in [Calls -> SUBSET Contents]
      BY <1>4, <2>1, HeldType DEF Touch, Typed
    <2>3. QED
      BY <1>4, <2>2 DEF Touch, Change, Typed, TypeOK, Opened, hashing, Exists
  <1>5. ASSUME NEW i \in Inodes, NEW c \in Contents, NEW m \in 0..now, NEW t \in 0..now,
               Replace(i, c, m, t)
        PROVE  Typed'
    <2>1. held' \in [Calls -> SUBSET Contents]
      BY <1>5, HeldType DEF Replace, Typed
    <2>2. QED
      BY <1>5, <2>1 DEF Replace, Change, Typed, TypeOK, Opened, hashing, Exists, Unlink
  <1>6. QED
    BY <1>1, <1>2, <1>3, <1>4, <1>5 DEF DiskStep

\* Where a call goes, it stays a call.
LEMMA LocationType ==
  ASSUME TypeOK, NEW k \in Calls,
         NEW l \in {"idle", "find", "wait", "add"} \cup Reading \cup Ended, GoTo(k, l)
  PROVE  pc' \in [Calls -> {"idle", "find", "wait", "add"} \cup Reading \cup Ended]
  BY DEF GoTo, TypeOK

\* The locals a thread leaves behind have their initial values.
LEMMA ReturnTypes ==
  ASSUME TypeOK, NEW k \in Calls, Return(k)
  PROVE  /\ before' \in [Calls -> Stats]
         /\ asked' \in [Calls -> Nat]
         /\ digest' \in [Calls -> Seq(Chunks)]
         /\ attempt' \in [Calls -> {1, 2}]
         /\ threads' \subseteq Calls /\ Cardinality(threads') <= Workers
  <1>1. NoStat \in Stats /\ << >> \in Seq(Chunks)
    BY DEF NoStat, Stats
  <1>2. threads' \subseteq Calls /\ Cardinality(threads') <= Workers
    BY FewerThreads DEF Return
  <1>3. QED
    BY <1>1, <1>2 DEF Return, TypeOK

\* A step of a call keeps the types.
LEMMA CallTypes ==
  ASSUME Typed, NEW k \in Calls, Begin(k) \/ CallStep(k)
  PROVE  Typed'
  <1> USE DEF Typed
  <1>1. CASE Begin(k)
    <2>1. known' \in [Calls -> Nat]
      BY <1>1, LenProperties DEF Begin, TypeOK
    <2>2. CASE Exists
      <3>1. /\ state' = [state EXCEPT ![k] = Stat]
            /\ held' = [held EXCEPT ![k] = {content[inode]}]
            /\ GoTo(k, "wait") \/ GoTo(k, "find")
        BY <1>1, <2>2 DEF Begin
      <3>2. held' \in [Calls -> SUBSET Contents] /\ state' \in [Calls -> Stats]
        BY <2>2, <3>1, StatType DEF TypeOK
      <3>3. /\ pc' \in [Calls -> {"idle", "find", "wait", "add"} \cup Reading \cup Ended]
            /\ \A j \in Calls : pc'[j] = "read" => pc[j] = "read"
        BY <3>1 DEF GoTo, TypeOK
      <3>4. QED
        BY <1>1, <2>1, <3>2, <3>3 DEF Begin, TypeOK, Opened, disk, hashing
    <2>3. CASE ~Exists
      <3>1. GoTo(k, "failed") /\ UNCHANGED <<state, held>>
        BY <1>1, <2>3 DEF Begin
      <3>2. /\ pc' \in [Calls -> {"idle", "find", "wait", "add"} \cup Reading \cup Ended]
            /\ \A j \in Calls : pc'[j] = "read" => pc[j] = "read"
        BY <3>1 DEF GoTo, TypeOK, Ended
      <3>3. QED
        BY <1>1, <2>1, <3>1, <3>2 DEF Begin, TypeOK, Opened, disk, hashing
    <2>4. QED
      BY <2>2, <2>3
  <1>2. CASE Find(k)
    <2>1. snap' \in [Calls -> Snapshots]
      <3>1. CASE UNCHANGED snap
        BY <3>1 DEF TypeOK
      <3>2. ASSUME NEW n \in 1..Len(rows), snap' = [snap EXCEPT ![k] = rows[n]]
            PROVE  snap' \in [Calls -> Snapshots]
        <4>1. rows[n] \in Snapshots
          BY ElementOfSeq DEF TypeOK
        <4>2. QED
          BY <3>2, <4>1 DEF TypeOK
      <3>3. QED
        BY <1>2, <3>1, <3>2 DEF Find, Matching
    <2>2. QED
      BY <1>2, <2>1 DEF Find, GoTo, TypeOK, Opened, disk, hashing, Ended
  <1>3. CASE Acquire(k)
    <2>1. threads' \subseteq Calls /\ Cardinality(threads') <= Workers
      BY <1>3, OneMoreThread DEF Acquire
    <2>2. QED
      BY <1>3, <2>1 DEF Acquire, GoTo, TypeOK, Opened, disk, hashing, Reading
  <1>4. CASE StatBefore(k)
    <2>1. before' \in [Calls -> Stats]
      BY <1>4, StatType DEF StatBefore, TypeOK
    <2>2. QED
      BY <1>4, <2>1 DEF StatBefore, GoTo, TypeOK, Opened, disk, Reading
  <1>5. CASE Open(k)
    <2>1. inode \in Inodes
      BY <1>5, StatType DEF Open
    <2>2. QED
      BY <1>5, <2>1 DEF Open, GoTo, TypeOK, Opened, disk, Reading
  <1>6. CASE Read(k)
    <2>1. content[fd[k]] \in Seq(Chunks)
      BY <1>6, FilesAssumption DEF Read, TypeOK, Opened
    <2>2. CASE Len(digest[k]) < Len(content[fd[k]])
      <3>1. Len(digest[k]) + 1 \in 1..Len(content[fd[k]])
        BY <2>1, <2>2, LenProperties DEF TypeOK
      <3>2. content[fd[k]][Len(digest[k]) + 1] \in Chunks
        BY <2>1, <3>1, ElementOfSeq
      <3>3. digest' = [digest EXCEPT ![k] = Append(@, content[fd[k]][Len(digest[k]) + 1])]
        BY <1>6, <2>2 DEF Read
      <3>4. Append(digest[k], content[fd[k]][Len(digest[k]) + 1]) \in Seq(Chunks)
        BY <3>2, AppendProperties DEF TypeOK
      <3>5. digest' \in [Calls -> Seq(Chunks)]
        BY <3>3, <3>4 DEF TypeOK
      <3>6. QED
        BY <1>6, <2>2, <3>5 DEF Read, TypeOK, Opened, disk
    <2>3. CASE ~(Len(digest[k]) < Len(content[fd[k]]))
      BY <1>6, <2>3 DEF Read, GoTo, TypeOK, Opened, disk, Reading
    <2>4. QED
      BY <2>2, <2>3
  <1>7. CASE StatAfter(k)
    <2> DEFINE kind == Judge(k, Stat)
    <2>0. kind \in {"stable", "changed"}
      BY DEF Judge
    <2>1. CASE kind = "stable" \/ attempt[k] = 2
      <3>1. Snapshot(Stat, digest[k], kind, IF kind = "stable" THEN asked[k] ELSE now) \in Snapshots
        <4>1. (IF kind = "stable" THEN asked[k] ELSE now) \in Nat
          BY BoundsAssumption DEF TypeOK
        <4>2. Stat \in Stats
          BY <1>7, StatType DEF StatAfter
        <4>3. digest[k] \in Seq(Chunks)
          BY DEF TypeOK
        <4>4. QED
          BY <2>0, <4>1, <4>2, <4>3 DEF Snapshot, Snapshots
      <3>2. snap' \in [Calls -> Snapshots] /\ Return(k) /\ GoTo(k, "add")
        BY <1>7, <2>1, <3>1 DEF StatAfter, TypeOK
      <3>3. QED
        BY <1>7, <3>2, ReturnTypes DEF StatAfter, GoTo, TypeOK, Opened, disk
    <2>2. CASE ~(kind = "stable" \/ attempt[k] = 2)
      BY <1>7, <2>2 DEF StatAfter, GoTo, TypeOK, Opened, disk, Reading
    <2>3. QED
      BY <2>1, <2>2
  <1>8. CASE Fail(k)
    BY <1>8, ReturnTypes DEF Fail, GoTo, TypeOK, Opened, disk, Ended
  <1>9. CASE Add(k)
    <2>1. rows' \in Seq(Snapshots)
      BY <1>9, AppendProperties DEF Add, TypeOK
    <2>2. QED
      BY <1>9, <2>1 DEF Add, GoTo, TypeOK, Opened, disk, hashing, Ended
  <1>10. QED
    BY <1>1, <1>2, <1>3, <1>4, <1>5, <1>6, <1>7, <1>8, <1>9 DEF CallStep

LEMMA TypedAlways == Spec => []Typed
  <1>1. Init => Typed
    <2> SUFFICES ASSUME Init PROVE Typed
      OBVIOUS
    <2>1. NoStat \in Stats /\ NoSnapshot \in Snapshots
      BY DEF NoStat, NoSnapshot, Snapshot, Stats, Snapshots
    <2>2. Cardinality(threads) <= Workers
      BY FS_EmptySet, CallsAssumption DEF Init
    <2>3. QED
      BY <2>1, <2>2, BoundsAssumption DEF Init, Typed, TypeOK, Opened
  <1>2. Typed /\ [Next]_vars => Typed'
    <2> SUFFICES ASSUME Typed, [Next]_vars PROVE Typed'
      OBVIOUS
    <2>1. CASE DiskStep
      BY <2>1, DiskTypes
    <2>2. ASSUME NEW k \in Calls, Begin(k) \/ CallStep(k) PROVE Typed'
      BY <2>2, CallTypes
    <2>3. CASE UNCHANGED vars
      BY <2>3 DEF vars, disk, hashing, Typed, TypeOK, Opened
    <2>4. QED
      BY <2>1, <2>2, <2>3 DEF Next, Terminated
  <1>3. QED
    BY <1>1, <1>2, PTL DEF Spec

\* No step, of a program on the machine, a call or its thread, leaves the types; in
\* particular no more threads are at work than hash_workers.
THEOREM TypeCorrect == Spec => []TypeOK
  BY TypedAlways, PTL DEF Typed

----------------------------------------------------------------------------
(* States that were seen *)

\* The file is in state s.
Current(s) == Exists /\ Stat = s

\* State s was first seen at t, and if the file was at rest then, either its inode still
\* has the name or it was given up later than the change that led to s.
Traced(s, t) ==
  /\ s.inode \in Inodes
  /\ t <= now
  /\ s.ctime < t => (s.inode = inode \/ s.ctime < unlinked[s.inode])

\* A state in which the file was seen at rest does not come back: as long as the file is
\* in it, neither the inode nor the content has changed.
LEMMA NotComeBack ==
  ASSUME Typed, DiskStep, NEW s \in Stats, NEW t \in Nat, Traced(s, t)
  PROVE  /\ Traced(s, t)'
         /\ (s.ctime < t /\ Current(s)') =>
              Current(s) /\ inode' = inode /\ content'[inode'] = content[inode]
  <1> USE DEF Typed
  <1>0. /\ now \in Nat /\ t <= now
        /\ s.inode \in Inodes /\ s.ctime \in Nat
        /\ inode \in Inodes \cup {NoFile}
        /\ unlinked \in [Inodes -> Nat]
        /\ ctime \in [Inodes -> Nat]
        /\ NoFile \notin Inodes
    BY BoundsAssumption, FilesAssumption DEF TypeOK, Stats, Traced
  <1>1. CASE Tick
    BY <1>0, <1>1 DEF Tick, Traced, Current, Stat, Exists
  <1>2. CASE Remove
    BY <1>0, <1>2 DEF Remove, Traced, Current, Stat, Exists, Unlink
  <1>3. ASSUME NEW c \in Contents, Write(c)
        PROVE  Traced(s, t)' /\ ~(s.ctime < t /\ Current(s)')
    <2>1. Traced(s, t)'
      BY <1>0, <1>3 DEF Write, Change, Traced
    <2>2. inode' = inode /\ inode \in Inodes /\ ctime'[inode'] = now
      BY <1>0, <1>3 DEF Write, Exists
    <2>3. Current(s)' => s.ctime = now
      BY <2>2 DEF Current, Stat
    <2>4. QED
      BY <1>0, <2>1, <2>3
  <1>4. ASSUME NEW m \in 0..now, Touch(m)
        PROVE  Traced(s, t)' /\ ~(s.ctime < t /\ Current(s)')
    <2>1. Traced(s, t)'
      BY <1>0, <1>4 DEF Touch, Change, Traced
    <2>2. inode' = inode /\ inode \in Inodes /\ ctime'[inode'] = now
      BY <1>0, <1>4 DEF Touch, Exists
    <2>3. Current(s)' => s.ctime = now
      BY <2>2 DEF Current, Stat
    <2>4. QED
      BY <1>0, <2>1, <2>3
  <1>5. ASSUME NEW i \in Inodes, NEW c \in Contents, NEW m \in 0..now, NEW u \in 0..now,
               Replace(i, c, m, u)
        PROVE  Traced(s, t)' /\ ~(s.ctime < t /\ Current(s)')
    <2>1. i # inode /\ inode' = i /\ now' = now /\ u >= unlinked[i] /\ ctime'[i] = u
      BY <1>0, <1>5 DEF Replace, Change
    <2>2. ASSUME s.ctime < t
          PROVE  s.inode = i \/ s.ctime < unlinked'[s.inode]
      BY <1>0, <1>5, <2>1, <2>2 DEF Replace, Unlink, Exists, Traced
    <2>3. ASSUME s.ctime < t, s.inode = i
          PROVE  s.ctime < u
      BY <1>0, <2>1, <2>3 DEF Traced
    <2>4. Current(s)' => s.inode = i /\ s.ctime = u
      BY <2>1 DEF Current, Stat
    <2>5. Traced(s, t)'
      BY <1>0, <2>1, <2>2 DEF Traced
    <2>6. QED
      BY <1>0, <2>3, <2>4, <2>5
  <1>6. QED
    BY <1>1, <1>2, <1>3, <1>4, <1>5 DEF DiskStep

Looking == {"open", "read", "restat"}

\* What the calls and the table remember of the file was seen of it.
Traces ==
  /\ \A k \in Calls : pc[k] \in Looking => Traced(before[k], asked[k])
  /\ \A k \in Calls : pc[k] = "add" => Traced(snap[k].stat, snap[k].asked)
  /\ \A n \in 1..Len(rows) : Traced(rows[n].stat, rows[n].asked)

\* What a thread has read, the file holds, if it is still as it was before.
ReadSoFar(k) ==
  /\ fd[k] = inode
  /\ Len(digest[k]) <= Len(content[inode])
  /\ \A n \in 1..Len(digest[k]) : digest[k][n] = content[inode][n]

Reads ==
  \A k \in Calls : (before[k].ctime < asked[k] /\ Current(before[k])) =>
    /\ pc[k] = "read" => ReadSoFar(k)
    /\ pc[k] = "restat" => digest[k] = content[inode]

\* A stable snapshot of the file at rest tells the content while the state lasts.
Tells(r) ==
  (r.kind = "stable" /\ AtRest(r) /\ Current(r.stat)) => content[inode] = r.digest

Telling ==
  /\ \A k \in Calls : pc[k] = "add" => Tells(snap[k])
  /\ \A n \in 1..Len(rows) : Tells(rows[n])

Seen == Typed /\ Traces /\ Reads /\ Telling

\* The programs on the machine cannot make any of it untrue.
LEMMA DiskSeen ==
  ASSUME Seen, DiskStep
  PROVE  Seen'
  <1> USE DEF Seen
  <1>1. Typed'
    BY DiskTypes
  <1>2. UNCHANGED <<pc, state, hashing, threads, snap, rows, known>>
    BY DEF DiskStep, Tick, Remove, Write, Touch, Replace, Change
  <1>3. ASSUME NEW r \in Snapshots, Traced(r.stat, r.asked)
        PROVE  Traced(r.stat, r.asked)' /\ (Tells(r) => Tells(r)')
    <2>1. PICK s \in Stats, t \in Nat : s = r.stat /\ t = r.asked
      BY DEF Snapshots
    <2>2. /\ Traced(s, t)'
          /\ (s.ctime < t /\ Current(s)') => Current(s) /\ content'[inode'] = content[inode]
      BY <1>3, <2>1, NotComeBack
    <2>3. QED
      BY <2>1, <2>2 DEF Tells, AtRest
  <1>4. ASSUME NEW k \in Calls, pc[k] \in Looking
        PROVE  /\ Traced(before[k], asked[k])'
               /\ (before[k].ctime < asked[k] /\ Current(before[k])') =>
                    Current(before[k]) /\ inode' = inode /\ content'[inode'] = content[inode]
    <2>1. PICK s \in Stats, t \in Nat : s = before[k] /\ t = asked[k]
      BY DEF Typed, TypeOK
    <2>2. Traced(s, t)
      BY <1>4, <2>1 DEF Traces
    <2>3. /\ Traced(s, t)'
          /\ (s.ctime < t /\ Current(s)') =>
               Current(s) /\ inode' = inode /\ content'[inode'] = content[inode]
      BY <2>2, NotComeBack
    <2>4. before'[k] = s /\ asked'[k] = t
      BY <1>2, <2>1 DEF hashing
    <2>5. QED
      BY <2>1, <2>3, <2>4
  <1>5. Traces' /\ Telling'
    <2>1. ASSUME NEW k \in Calls, pc'[k] = "add"
          PROVE  Traced(snap[k].stat, snap[k].asked)' /\ Tells(snap[k])'
      <3>1. PICK r \in Snapshots : r = snap[k]
        BY DEF Typed, TypeOK
      <3>2. Traced(r.stat, r.asked) /\ Tells(r)
        BY <1>2, <2>1, <3>1 DEF Traces, Telling
      <3>3. Traced(r.stat, r.asked)' /\ Tells(r)'
        BY <1>3, <3>2
      <3>4. snap'[k] = r
        BY <1>2, <3>1
      <3>5. QED
        BY <3>3, <3>4
    <2>2. ASSUME NEW n \in 1..Len(rows)
          PROVE  Traced(rows[n].stat, rows[n].asked)' /\ Tells(rows[n])'
      <3>1. PICK r \in Snapshots : r = rows[n]
        BY ElementOfSeq DEF Typed, TypeOK
      <3>2. Traced(r.stat, r.asked) /\ Tells(r)
        BY <3>1 DEF Traces, Telling
      <3>3. Traced(r.stat, r.asked)' /\ Tells(r)'
        BY <1>3, <3>2
      <3>4. rows'[n] = r
        BY <1>2, <3>1
      <3>5. QED
        BY <3>3, <3>4
    <2>3. \A k \in Calls : pc'[k] \in Looking => Traced(before[k], asked[k])'
      BY <1>2, <1>4
    <2>4. QED
      BY <1>2, <2>1, <2>2, <2>3 DEF Traces, Telling
  <1>6. Reads'
    <2> SUFFICES ASSUME NEW k \in Calls, (before[k].ctime < asked[k] /\ Current(before[k]))'
                 PROVE  (/\ pc[k] = "read" => ReadSoFar(k)
                         /\ pc[k] = "restat" => digest[k] = content[inode])'
      BY DEF Reads
    <2>1. CASE pc[k] \in {"read", "restat"}
      <3>1. /\ Current(before[k]) /\ before[k].ctime < asked[k]
            /\ inode' = inode /\ content'[inode'] = content[inode]
        BY <1>2, <1>4, <2>1 DEF Looking, hashing
      <3>2. /\ pc[k] = "read" => ReadSoFar(k)
            /\ pc[k] = "restat" => digest[k] = content[inode]
        BY <3>1 DEF Reads
      <3>3. QED
        BY <1>2, <3>1, <3>2 DEF ReadSoFar, hashing
    <2>2. CASE pc[k] \notin {"read", "restat"}
      BY <1>2, <2>2
    <2>3. QED
      BY <2>1, <2>2
  <1>7. QED
    BY <1>1, <1>5, <1>6

\* A step of one call leaves another call where it is.
LEMMA OtherCalls ==
  ASSUME Typed, NEW k \in Calls, Begin(k) \/ CallStep(k), NEW j \in Calls, j # k
  PROVE  /\ pc'[j] = pc[j] /\ state'[j] = state[j]
         /\ before'[j] = before[j] /\ asked'[j] = asked[j]
         /\ fd'[j] = fd[j] /\ digest'[j] = digest[j]
         /\ snap'[j] = snap[j] /\ known'[j] = known[j] /\ held'[j] = held[j]
  <1> USE DEF Typed, TypeOK, GoTo, hashing
  <1>1. CASE Begin(k)
    BY <1>1 DEF Begin
  <1>2. CASE Find(k)
    BY <1>2 DEF Find
  <1>3. CASE Acquire(k)
    BY <1>3 DEF Acquire
  <1>4. CASE StatBefore(k)
    BY <1>4 DEF StatBefore
  <1>5. CASE Open(k)
    BY <1>5 DEF Open
  <1>6. CASE Read(k)
    BY <1>6 DEF Read
  <1>7. CASE StatAfter(k)
    BY <1>7 DEF StatAfter, Return
  <1>8. CASE Fail(k)
    BY <1>8 DEF Fail, Return
  <1>9. CASE Add(k)
    BY <1>9 DEF Add
  <1>10. QED
    BY <1>1, <1>2, <1>3, <1>4, <1>5, <1>6, <1>7, <1>8, <1>9 DEF CallStep

\* What leads a call where, and what it takes along.
LEMMA OwnStep ==
  ASSUME Typed, NEW k \in Calls, Begin(k) \/ CallStep(k)
  PROVE  /\ pc'[k] = "find" => Begin(k)
         /\ pc'[k] = "add" => StatAfter(k)
         /\ pc'[k] = "hashed" => Add(k)
         /\ pc'[k] = "reused" => Find(k)
         /\ pc'[k] \in {"read", "restat"} => Open(k) \/ Read(k)
         /\ pc'[k] \in Looking =>
              \/ StatBefore(k)
              \/ pc[k] \in Looking /\ before'[k] = before[k] /\ asked'[k] = asked[k]
         /\ StatAfter(k) =>
              \/ pc'[k] = "stat"
              \/ snap'[k] = Snapshot(Stat, digest[k], Judge(k, Stat),
                                     IF Judge(k, Stat) = "stable" THEN asked[k] ELSE now)
  <1> USE DEF Typed, TypeOK, GoTo, Looking
  <1>1. CASE Begin(k)
    <2>1. pc'[k] \in {"wait", "find", "failed"} /\ pc[k] = "idle"
      BY <1>1 DEF Begin
    <2>2. QED
      BY <1>1, <2>1 DEF StatAfter
  <1>2. CASE Find(k)
    <2>1. pc'[k] \in {"wait", "reused"} /\ pc[k] = "find"
      BY <1>2 DEF Find
    <2>2. QED
      BY <1>2, <2>1 DEF StatAfter
  <1>3. CASE Acquire(k)
    BY <1>3 DEF Acquire, StatAfter
  <1>4. CASE StatBefore(k)
    BY <1>4 DEF StatBefore, StatAfter
  <1>5. CASE Open(k)
    BY <1>5 DEF Open, StatAfter
  <1>6. CASE Read(k)
    <2>1. pc'[k] \in {"read", "restat"} /\ pc[k] = "read" /\ UNCHANGED <<before, asked>>
      BY <1>6 DEF Read
    <2>2. QED
      BY <1>6, <2>1 DEF StatAfter
  <1>7. CASE StatAfter(k)
    BY <1>7 DEF StatAfter
  <1>8. CASE Fail(k)
    BY <1>8 DEF Fail, StatAfter
  <1>9. CASE Add(k)
    BY <1>9 DEF Add, StatAfter
  <1>10. QED
    BY <1>1, <1>2, <1>3, <1>4, <1>5, <1>6, <1>7, <1>8, <1>9 DEF CallStep

\* Only add_snapshot writes to the table, and only at its end.
LEMMA RowsGrow ==
  ASSUME Typed, NEW k \in Calls, Begin(k) \/ CallStep(k), NEW n \in 1..Len(rows')
  PROVE  \/ n \in 1..Len(rows) /\ rows'[n] = rows[n]
         \/ Add(k) /\ rows'[n] = snap[k]
  <1>1. CASE Add(k)
    <2>1. rows' = Append(rows, snap[k])
      BY <1>1 DEF Add
    <2>2. rows \in Seq(Snapshots) /\ snap[k] \in Snapshots
      BY DEF Typed, TypeOK
    <2>3. Len(rows) \in Nat /\ Len(rows') = Len(rows) + 1
      BY <2>1, <2>2, AppendProperties, LenProperties
    <2>4. CASE n = Len(rows) + 1
      BY <1>1, <2>1, <2>2, <2>4, AppendProperties
    <2>5. CASE n \in 1..Len(rows)
      BY <2>1, <2>2, <2>5, AppendProperties
    <2>6. QED
      BY <2>3, <2>4, <2>5
  <1>2. CASE ~Add(k)
    BY <1>2 DEF Begin, CallStep, Find, Acquire, StatBefore, Open, Read, StatAfter, Fail
  <1>3. QED
    BY <1>1, <1>2

\* Nor does a step of a call, which only looks at the file.
LEMMA CallSeen ==
  ASSUME Seen, NEW k \in Calls, Begin(k) \/ CallStep(k)
  PROVE  Seen'
  <1> USE DEF Seen
  <1>0. /\ Typed'
        /\ UNCHANGED disk
        /\ Typed
    BY CallTypes DEF Begin, CallStep, Find, Acquire, StatBefore, Open, Read, StatAfter, Fail, Add
  <1>1. Traces'
    <2>1. \A s, t : Traced(s, t) <=>
            (/\ s.inode \in Inodes
             /\ t <= now'
             /\ s.ctime < t => (s.inode = inode' \/ s.ctime < unlinked'[s.inode]))
      BY <1>0 DEF disk, Traced
    <2>2. Exists => Traced(Stat, now)
      <3>1. now \in Nat
        BY <1>0, BoundsAssumption DEF Typed, TypeOK
      <3>2. Exists => inode \in Inodes /\ Stat.inode = inode
        BY <1>0, StatType DEF Typed, Stat
      <3>3. QED
        BY <3>1, <3>2 DEF Traced
    <2>3. ASSUME NEW j \in Calls, pc'[j] \in Looking PROVE Traced(before'[j], asked'[j])
      <3>1. CASE pc[j] \in Looking /\ before'[j] = before[j] /\ asked'[j] = asked[j]
        BY <3>1 DEF Traces
      <3>2. CASE StatBefore(k) /\ j = k
        BY <1>0, <2>2, <3>2 DEF StatBefore, Typed, TypeOK
      <3>3. (pc[j] \in Looking /\ before'[j] = before[j] /\ asked'[j] = asked[j])
             \/ (StatBefore(k) /\ j = k)
        BY <1>0, <2>3, OwnStep, OtherCalls
      <3>4. QED
        BY <3>1, <3>2, <3>3
    <2>4. ASSUME NEW j \in Calls, pc'[j] = "add" PROVE Traced(snap'[j].stat, snap'[j].asked)
      <3>1. CASE pc[j] = "add" /\ snap'[j] = snap[j]
        BY <3>1 DEF Traces
      <3>2. CASE StatAfter(k) /\ j = k
        <4>1. snap'[k] = Snapshot(Stat, digest[k], Judge(k, Stat),
                                  IF Judge(k, Stat) = "stable" THEN asked[k] ELSE now)
          BY <1>0, <2>4, <3>2, OwnStep
        <4>2. Traced(before[k], asked[k]) /\ Exists
          BY <3>2 DEF StatAfter, Traces, Looking
        <4>3. QED
          BY <2>2, <3>2, <4>1, <4>2 DEF Snapshot, Judge
      <3>3. (pc[j] = "add" /\ snap'[j] = snap[j]) \/ (StatAfter(k) /\ j = k)
        BY <1>0, <2>4, OwnStep, OtherCalls
      <3>4. QED
        BY <3>1, <3>2, <3>3
    <2>5. ASSUME NEW n \in 1..Len(rows') PROVE Traced(rows'[n].stat, rows'[n].asked)
      <3>1. CASE n \in 1..Len(rows) /\ rows'[n] = rows[n]
        BY <3>1 DEF Traces
      <3>2. CASE Add(k) /\ rows'[n] = snap[k]
        BY <3>2 DEF Add, Traces
      <3>3. QED
        BY <1>0, <2>5, <3>1, <3>2, RowsGrow
    <2>6. QED
      BY <1>0, <2>1, <2>3, <2>4, <2>5 DEF Traces, Traced, disk
  <1>2. Reads'
    <2> SUFFICES ASSUME NEW j \in Calls, before'[j].ctime < asked'[j],
                        Exists, Stat = before'[j]
                 PROVE  /\ pc'[j] = "read" =>
                             /\ fd'[j] = inode
                             /\ Len(digest'[j]) <= Len(content[inode])
                             /\ \A n \in 1..Len(digest'[j]) : digest'[j][n] = content[inode][n]
                        /\ pc'[j] = "restat" => digest'[j] = content[inode]
      BY <1>0 DEF Reads, ReadSoFar, Current, Exists, Stat, disk
    <2>1. CASE Open(k) /\ j = k
      <3>1. fd'[j] = inode /\ digest'[j] = << >> /\ pc'[j] = "read"
        BY <1>0, <2>1 DEF Open, GoTo, Typed, TypeOK
      <3>2. Len(content[inode]) \in Nat
        BY <1>0, StatType, LenProperties DEF Typed
      <3>3. QED
        BY <3>1, <3>2
    <2>2. CASE Read(k) /\ j = k
      <3>1. before'[j] = before[j] /\ asked'[j] = asked[j] /\ pc[j] = "read"
        BY <2>2 DEF Read
      <3>2. ReadSoFar(j)
        BY <3>1 DEF Reads, Current
      <3>3. content[inode] \in Seq(Chunks) /\ digest[j] \in Seq(Chunks)
        BY <1>0, StatType DEF Typed, TypeOK
      <3>4. CASE Len(digest[j]) < Len(content[inode])
        <4>1. /\ fd' = fd /\ pc' = pc
              /\ digest' = [digest EXCEPT ![j] = Append(@, content[inode][Len(digest[j]) + 1])]
          BY <2>2, <3>2, <3>4 DEF Read, ReadSoFar
        <4>2. digest'[j] = Append(digest[j], content[inode][Len(digest[j]) + 1])
          BY <1>0, <4>1 DEF Typed, TypeOK
        <4>3. Len(digest[j]) \in Nat /\ Len(content[inode]) \in Nat
          BY <3>3, LenProperties
        <4>4. Len(digest[j]) + 1 \in 1..Len(content[inode])
          BY <3>4, <4>3
        <4>5. content[inode][Len(digest[j]) + 1] \in Chunks
          BY <3>3, <4>4, ElementOfSeq
        <4>6. /\ Len(digest'[j]) = Len(digest[j]) + 1
              /\ \A n \in 1..Len(digest[j]) : digest'[j][n] = digest[j][n]
              /\ digest'[j][Len(digest[j]) + 1] = content[inode][Len(digest[j]) + 1]
          BY <3>3, <4>2, <4>5, AppendProperties
        <4>7. QED
          BY <3>1, <3>2, <4>1, <4>3, <4>4, <4>6 DEF ReadSoFar
      <3>5. CASE ~(Len(digest[j]) < Len(content[inode]))
        <4>1. digest' = digest /\ pc'[j] = "restat"
          BY <1>0, <2>2, <3>2, <3>5 DEF Read, ReadSoFar, GoTo, Typed, TypeOK
        <4>2. Len(digest[j]) = Len(content[inode])
          BY <3>2, <3>3, <3>5, LenProperties DEF ReadSoFar
        <4>3. digest[j] = content[inode]
          BY <3>2, <3>3, <4>2, SeqEqual DEF ReadSoFar
        <4>4. QED
          BY <4>1, <4>3
      <3>6. QED
        BY <3>4, <3>5
    <2>3. CASE ~(Open(k) /\ j = k) /\ ~(Read(k) /\ j = k)
      <3>1. pc'[j] \in {"read", "restat"} =>
              /\ pc'[j] = pc[j] /\ before'[j] = before[j] /\ asked'[j] = asked[j]
              /\ fd'[j] = fd[j] /\ digest'[j] = digest[j]
        BY <1>0, <2>3, OwnStep, OtherCalls
      <3>2. QED
        BY <3>1 DEF Reads, ReadSoFar, Current
    <2>4. QED
      BY <2>1, <2>2, <2>3
  <1>3. Telling'
    <2>1. \A r : Tells(r) <=>
            ((r.kind = "stable" /\ AtRest(r) /\ Current(r.stat)') => content'[inode'] = r.digest)
      BY <1>0 DEF disk, Tells, Current, Exists, Stat
    <2>2. ASSUME NEW j \in Calls, pc'[j] = "add" PROVE Tells(snap'[j])
      <3>1. CASE pc[j] = "add" /\ snap'[j] = snap[j]
        BY <3>1 DEF Telling
      <3>2. CASE StatAfter(k) /\ j = k
        <4>1. snap'[k] = Snapshot(Stat, digest[k], Judge(k, Stat),
                                  IF Judge(k, Stat) = "stable" THEN asked[k] ELSE now)
          BY <1>0, <2>2, <3>2, OwnStep
        <4>2. pc[k] = "restat" /\ Exists
          BY <3>2 DEF StatAfter
        <4>3. ASSUME Judge(k, Stat) = "stable", before[k].ctime < asked[k]
              PROVE  digest[k] = content[inode]
          BY <4>2, <4>3 DEF Judge, Reads, Current
        <4>4. QED
          BY <3>2, <4>1, <4>3 DEF Tells, AtRest, Snapshot, Judge
      <3>3. (pc[j] = "add" /\ snap'[j] = snap[j]) \/ (StatAfter(k) /\ j = k)
        BY <1>0, <2>2, OwnStep, OtherCalls
      <3>4. QED
        BY <3>1, <3>2, <3>3
    <2>3. ASSUME NEW n \in 1..Len(rows') PROVE Tells(rows'[n])
      <3>1. CASE n \in 1..Len(rows) /\ rows'[n] = rows[n]
        BY <3>1 DEF Telling
      <3>2. CASE Add(k) /\ rows'[n] = snap[k]
        BY <3>2 DEF Add, Telling
      <3>3. QED
        BY <1>0, <2>3, <3>1, <3>2, RowsGrow
    <2>4. QED
      BY <1>0, <2>2, <2>3 DEF Telling, Tells, AtRest, Current, Exists, Stat, disk
  <1>4. QED
    BY <1>0, <1>1, <1>2, <1>3

LEMMA SeenAlways == Spec => []Seen
  <1>1. Init => Traces /\ Reads /\ Telling
    BY DEF Init, Traces, Reads, Telling, Looking
  <1>2. Typed /\ Traces /\ Reads /\ Telling /\ [Next]_vars => Seen'
    <2> SUFFICES ASSUME Seen, [Next]_vars PROVE Seen'
      BY DEF Seen
    <2>1. CASE DiskStep
      BY <2>1, DiskSeen
    <2>2. ASSUME NEW k \in Calls, Begin(k) \/ CallStep(k) PROVE Seen'
      BY <2>2, CallSeen
    <2>3. CASE UNCHANGED vars
      BY <2>3 DEF vars, disk, hashing, Seen, Typed, TypeOK, Opened, Traces, Traced, Reads,
         ReadSoFar, Telling, Tells, AtRest, Current, Exists, Stat
    <2>4. QED
      BY <2>1, <2>2, <2>3 DEF Next, Terminated
  <1>3. QED
    BY <1>1, <1>2, TypedAlways, PTL DEF Spec, Seen

\* The cache never tells of a file, in a state that was recorded when it was at rest,
\* another content than it has, whatever happens to the file.
THEOREM ReuseIsSound == Spec => []ReusableIsCurrent
  <1>1. Seen => ReusableIsCurrent
    BY DEF Seen, Telling, Tells, Current, ReusableIsCurrent
  <1>2. QED
    BY <1>1, SeenAlways, PTL

----------------------------------------------------------------------------
(* Answers *)

Busy(k) == pc[k] \notin Ended \cup {"idle"}

\* The content of the file is among those it had during every call that is under way.
HeldNow == \A k \in Calls : (Busy(k) /\ Exists) => content[inode] \in held[k]

\* A snapshot that a call could find tells a content the file had during the call.
Fits(r, k) ==
  (r.kind = "stable" /\ AtRest(r) /\ r.stat = state[k]) => r.digest \in held[k]

Finds ==
  \A k \in Calls : pc[k] = "find" =>
    /\ \A n \in 1..Len(rows) : Fits(rows[n], k)
    /\ \A j \in Calls : pc[j] = "add" => Fits(snap[j], k)

\* AnswerWasTrue, and the same of a snapshot that is about to be stored.
Answers ==
  \A k \in Calls : AtRest(snap[k]) =>
    /\ pc[k] = "reused" => snap[k].digest \in held[k]
    /\ (pc[k] \in {"add", "hashed"} /\ snap[k].kind = "stable") => snap[k].digest \in held[k]

Truthful == HeldNow /\ Finds /\ Answers

LEMMA DiskTruthful ==
  ASSUME Seen, Truthful, DiskStep
  PROVE  Truthful'
  <1> USE DEF Truthful
  <1>1. UNCHANGED <<pc, state, hashing, threads, snap, rows, known>>
    BY DEF DiskStep, Tick, Remove, Write, Touch, Replace, Change
  <1>2. ASSUME NEW k \in Calls
        PROVE  /\ held[k] \subseteq held'[k]
               /\ (Busy(k) /\ Exists') => content'[inode'] \in held'[k]
    <2>1. CASE Tick
      BY <2>1 DEF Tick, HeldNow, Exists
    <2>2. CASE Remove
      BY <2>2 DEF Remove, Exists
    <2>3. ASSUME NEW c \in Contents, Change(c)
          PROVE  held[k] \subseteq held'[k] /\ (Busy(k) => c \in held'[k])
      BY <2>3 DEF Change, Busy
    <2>4. ASSUME NEW c \in Contents, Write(c) PROVE Change(c) /\ content'[inode'] = c
      BY <2>4 DEF Write, Exists, Seen, Typed, TypeOK
    <2>5. ASSUME NEW m \in 0..now, Touch(m)
          PROVE  /\ Change(content[inode]) /\ content[inode] \in Contents
                 /\ content'[inode'] = content[inode]
      BY <2>5, StatType DEF Touch, Seen, Typed
    <2>6. ASSUME NEW i \in Inodes, NEW c \in Contents, NEW m \in 0..now, NEW t \in 0..now,
                 Replace(i, c, m, t)
          PROVE  Change(c) /\ content'[inode'] = c
      BY <2>6 DEF Replace, Seen, Typed, TypeOK
    <2>7. QED
      BY <2>1, <2>2, <2>3, <2>4, <2>5, <2>6 DEF DiskStep
  <1>3. HeldNow'
    BY <1>1, <1>2 DEF HeldNow, Busy
  <1>4. Finds' /\ Answers'
    BY <1>1, <1>2 DEF Finds, Answers, Fits, AtRest
  <1>5. QED
    BY <1>3, <1>4

LEMMA CallTruthful ==
  ASSUME Seen, Truthful, NEW k \in Calls, Begin(k) \/ CallStep(k)
  PROVE  Truthful'
  <1> USE DEF Truthful
  <1>0. /\ UNCHANGED disk
        /\ Typed
        /\ pc \in [Calls -> {"idle", "find", "wait", "add"} \cup Reading \cup Ended]
        /\ held \in [Calls -> SUBSET Contents]
        /\ Begin(k) \/ UNCHANGED held
    BY DEF Seen, Typed, TypeOK, Begin, CallStep, Find, Acquire, StatBefore, Open, Read, StatAfter,
       Fail, Add
  <1>1. HeldNow'
    <2>1. UNCHANGED <<inode, content>> /\ (Exists' <=> Exists)
      BY <1>0 DEF disk, Exists
    <2>2. ASSUME NEW j \in Calls, Busy(j)', Exists PROVE content[inode] \in held'[j]
      <3>1. CASE j # k
        BY <1>0, <2>2, <3>1, OtherCalls DEF HeldNow, Busy
      <3>2. CASE j = k /\ Begin(k)
        BY <1>0, <2>2, <3>2 DEF Begin
      <3>3. CASE j = k /\ ~Begin(k)
        <4>1. Busy(k) /\ held' = held
          BY <1>0, <3>3 DEF Busy, Ended, Reading, CallStep, Find, Acquire, StatBefore, Open, Read,
             StatAfter, Fail, Add
        <4>2. QED
          BY <2>2, <3>3, <4>1 DEF HeldNow
      <3>4. QED
        BY <3>1, <3>2, <3>3
    <2>3. QED
      BY <2>1, <2>2 DEF HeldNow
  <1>2. ASSUME NEW j \in Calls, Busy(j), j = k \/ held'[j] = held[j],
               pc'[k] = "add", AtRest(snap'[k]), snap'[k].kind = "stable"
        PROVE  snap'[k].digest \in held[j]
    <2>1. /\ StatAfter(k)
          /\ snap'[k] = Snapshot(Stat, digest[k], Judge(k, Stat),
                                 IF Judge(k, Stat) = "stable" THEN asked[k] ELSE now)
      BY <1>0, <1>2, OwnStep
    <2>2. /\ snap'[k].digest = digest[k]
          /\ before[k] = Stat /\ before[k].ctime < asked[k]
          /\ Exists /\ pc[k] = "restat"
      BY <1>2, <2>1 DEF Snapshot, Judge, AtRest, StatAfter
    <2>3. digest[k] = content[inode]
      BY <2>2 DEF Seen, Reads, Current
    <2>4. QED
      BY <1>2, <2>2, <2>3 DEF HeldNow
  <1>3. Finds'
    <2>1. ASSUME NEW j \in Calls, pc'[j] = "find", Begin(k), j = k
          PROVE  /\ \A n \in 1..Len(rows) : Fits(rows[n], j)'
                 /\ \A i \in Calls : pc'[i] = "add" => Fits(snap[i], j)'
      <3>1. /\ Exists /\ state'[k] = Stat /\ held'[k] = {content[inode]}
            /\ UNCHANGED <<rows, snap>>
        BY <1>0, <2>1 DEF Begin, GoTo, Seen, Typed, TypeOK
      <3>2. \A i \in Calls : pc'[i] = "add" => pc[i] = "add"
        BY <1>0, <2>1, OtherCalls
      <3>3. QED
        BY <2>1, <3>1, <3>2 DEF Seen, Telling, Tells, Current, Fits, AtRest
    <2>2. ASSUME NEW j \in Calls, pc'[j] = "find", ~(Begin(k) /\ j = k)
          PROVE  /\ pc[j] = "find" /\ state'[j] = state[j] /\ held'[j] = held[j]
      BY <1>0, <2>2, OwnStep, OtherCalls
    <2>3. ASSUME NEW j \in Calls, pc'[j] = "find", ~(Begin(k) /\ j = k),
                 NEW i \in Calls, pc'[i] = "add"
          PROVE  Fits(snap[i], j)'
      <3>1. CASE i = k
        <4>1. Busy(j)
          BY <2>2, <2>3 DEF Busy, Ended
        <4>2. QED
          BY <1>2, <2>2, <2>3, <3>1, <4>1 DEF Fits, AtRest
      <3>2. CASE i # k
        <4>1. pc[i] = "add" /\ snap'[i] = snap[i]
          BY <1>0, <2>3, <3>2, OtherCalls
        <4>2. QED
          BY <2>2, <2>3, <4>1 DEF Finds, Fits, AtRest
      <3>3. QED
        BY <3>1, <3>2
    <2>4. ASSUME NEW j \in Calls, pc'[j] = "find", ~(Begin(k) /\ j = k),
                 NEW n \in 1..Len(rows')
          PROVE  Fits(rows[n], j)'
      <3>1. CASE n \in 1..Len(rows) /\ rows'[n] = rows[n]
        BY <2>2, <2>4, <3>1 DEF Finds, Fits, AtRest
      <3>2. CASE Add(k) /\ rows'[n] = snap[k]
        BY <2>2, <2>4, <3>2 DEF Add, Finds, Fits, AtRest
      <3>3. QED
        BY <1>0, <2>4, <3>1, <3>2, RowsGrow
    <2>5. QED
      BY <1>0, <2>1, <2>3, <2>4 DEF Finds, Begin
  <1>4. Answers'
    <2> SUFFICES ASSUME NEW j \in Calls, AtRest(snap'[j]),
                        \/ pc'[j] = "reused"
                        \/ pc'[j] \in {"add", "hashed"} /\ snap'[j].kind = "stable"
                 PROVE  snap'[j].digest \in held'[j]
      BY DEF Answers, AtRest
    <2>1. CASE j # k
      BY <1>0, <2>1, OtherCalls DEF Answers
    <2>2. CASE j = k /\ pc'[k] = "add"
      <3>1. StatAfter(k)
        BY <1>0, <2>2, OwnStep
      <3>2. Busy(k) /\ held' = held
        BY <3>1 DEF StatAfter, Busy, Ended
      <3>3. QED
        BY <1>2, <2>2, <3>2
    <2>3. CASE j = k /\ pc'[k] = "hashed"
      <3>1. Add(k)
        BY <1>0, <2>3, OwnStep
      <3>2. QED
        BY <2>3, <3>1 DEF Add, Answers
    <2>4. CASE j = k /\ pc'[k] = "reused"
      <3>1. Find(k) /\ pc[k] = "find" /\ held' = held
        BY <1>0, <2>4, OwnStep DEF Find
      <3>2. PICK n \in Matching(state[k]) : snap' = [snap EXCEPT ![k] = rows[n]]
        BY <1>0, <2>4, <3>1 DEF Find, GoTo
      <3>3. n \in 1..Len(rows) /\ rows[n].stat = state[k] /\ rows[n].kind = "stable"
        BY <3>2 DEF Matching, Matches
      <3>4. snap'[k] = rows[n]
        BY <3>2 DEF Seen, Typed, TypeOK
      <3>5. QED
        BY <2>4, <3>1, <3>3, <3>4 DEF Finds, Fits
    <2>5. QED
      BY <2>1, <2>2, <2>3, <2>4
  <1>5. QED
    BY <1>1, <1>3, <1>4

\* Neither a found hash nor a stable new one of a file at rest is of a content from
\* before the call, or of none at all.
THEOREM AnswersAreTrue == Spec => []AnswerWasTrue
  <1>1. Init => Truthful
    BY DEF Init, Truthful, HeldNow, Finds, Answers, Busy
  <1>2. Seen /\ Truthful /\ [Next]_vars => Truthful'
    <2> SUFFICES ASSUME Seen, Truthful, [Next]_vars PROVE Truthful'
      OBVIOUS
    <2>1. CASE DiskStep
      BY <2>1, DiskTruthful
    <2>2. ASSUME NEW k \in Calls, Begin(k) \/ CallStep(k) PROVE Truthful'
      BY <2>2, CallTruthful
    <2>3. CASE UNCHANGED vars
      BY <2>3 DEF vars, disk, hashing, Truthful, HeldNow, Finds, Answers, Busy, Fits, AtRest, Exists
    <2>4. QED
      BY <2>1, <2>2, <2>3 DEF Next, Terminated
  <1>3. Truthful => AnswerWasTrue
    BY DEF Truthful, Answers, AnswerWasTrue
  <1>4. QED
    BY <1>1, <1>2, <1>3, SeenAlways, PTL DEF Spec

----------------------------------------------------------------------------
(* Reuse *)

\* A row that find_snapshot would select for its state.
Usable(r) == r.kind = "stable" /\ AtRest(r)

\* What a call that hashes knows of the usable rows there were when it began: while it
\* looks for a snapshot, no state but its own can be both among them and the file's;
\* then none can.
Novel ==
  \A k \in Calls \ Forced : pc[k] # "idle" =>
    /\ known[k] <= Len(rows)
    /\ \A n \in 1..known[k] : Usable(rows[n]) =>
         /\ pc[k] = "find" => (rows[n].stat = state[k] \/ ~Current(rows[n].stat))
         /\ pc[k] \in {"wait"} \cup Reading => ~Current(rows[n].stat)
         /\ pc[k] \in {"add", "hashed"} => rows[n].stat # snap[k].stat

LEMMA DiskNovel ==
  ASSUME Seen, Novel, DiskStep
  PROVE  Novel'
  <1>1. UNCHANGED <<pc, state, snap, rows, known>>
    BY DEF DiskStep, Tick, Remove, Write, Touch, Replace, Change
  <1>2. ASSUME NEW n \in 1..Len(rows), Usable(rows[n]), Current(rows[n].stat)'
        PROVE  Current(rows[n].stat)
    <2>1. rows[n] \in Snapshots /\ rows'[n] = rows[n]
      BY <1>1, ElementOfSeq DEF Seen, Typed, TypeOK
    <2>2. PICK s \in Stats, t \in Nat : s = rows[n].stat /\ t = rows[n].asked
      BY <2>1 DEF Snapshots
    <2>3. Traced(s, t) /\ s.ctime < t
      BY <1>2, <2>2 DEF Seen, Traces, Usable, AtRest
    <2>4. Current(s)' => Current(s)
      BY <2>3, NotComeBack DEF Seen
    <2>5. QED
      BY <1>2, <2>1, <2>2, <2>4
  <1>3. ASSUME NEW k \in Calls \ Forced, pc[k] # "idle", NEW n \in 1..known[k]
        PROVE  n \in 1..Len(rows)
    BY <1>3, LenProperties DEF Novel, Seen, Typed, TypeOK
  <1>4. QED
    BY <1>1, <1>2, <1>3 DEF Novel, Usable, AtRest

LEMMA CallNovel ==
  ASSUME Seen, Novel, NEW k \in Calls, Begin(k) \/ CallStep(k)
  PROVE  Novel'
  <1>0. /\ Typed
        /\ UNCHANGED disk
        /\ Len(rows) \in Nat /\ known \in [Calls -> Nat]
        /\ pc \in [Calls -> {"idle", "find", "wait", "add"} \cup Reading \cup Ended]
        /\ Begin(k) \/ UNCHANGED known
    BY LenProperties DEF Seen, Typed, TypeOK, Begin, CallStep, Find, Acquire, StatBefore, Open,
       Read, StatAfter, Fail, Add
  <1>1. /\ Len(rows') \in Nat /\ Len(rows) <= Len(rows')
        /\ \A n \in 1..Len(rows) : rows'[n] = rows[n]
    <2>1. CASE Add(k)
      <3>1. rows \in Seq(Snapshots) /\ snap[k] \in Snapshots /\ rows' = Append(rows, snap[k])
        BY <2>1 DEF Add, Seen, Typed, TypeOK
      <3>2. QED
        BY <1>0, <3>1, AppendProperties
    <2>2. CASE ~Add(k)
      BY <1>0, <2>2 DEF Begin, CallStep, Find, Acquire, StatBefore, Open, Read, StatAfter, Fail
    <2>3. QED
      BY <2>1, <2>2
  <1>2. ASSUME NEW j \in Calls \ Forced, pc'[j] # "idle"
        PROVE  /\ known'[j] <= Len(rows')
               /\ \A n \in 1..known'[j] : rows'[n] = rows[n] /\ n \in 1..Len(rows)
    <2>1. CASE Begin(k) /\ j = k
      BY <1>0, <1>1, <2>1 DEF Begin
    <2>2. CASE ~(Begin(k) /\ j = k)
      <3>1. known'[j] = known[j]
        BY <1>0, <2>2, OtherCalls
      <3>2. pc[j] # "idle"
        <4>1. CASE j # k
          BY <1>0, <1>2, <4>1, OtherCalls
        <4>2. CASE j = k
          BY <2>2, <4>2 DEF CallStep, Find, Acquire, StatBefore, Open, Read, StatAfter, Fail, Add
        <4>3. QED
          BY <4>1, <4>2
      <3>3. QED
        BY <1>0, <1>1, <3>1, <3>2 DEF Novel
    <2>3. QED
      BY <2>1, <2>2
  <1>3. ASSUME NEW j \in Calls \ Forced, pc'[j] # "idle", NEW n \in 1..known'[j],
               Usable(rows[n])
        PROVE  /\ pc'[j] = "find" => (rows[n].stat = state'[j] \/ ~Current(rows[n].stat))
               /\ pc'[j] \in {"wait"} \cup Reading => ~Current(rows[n].stat)
               /\ pc'[j] \in {"add", "hashed"} => rows[n].stat # snap'[j].stat
    <2>1. CASE j # k
      <3>1. /\ pc'[j] = pc[j] /\ state'[j] = state[j]
            /\ snap'[j] = snap[j] /\ known'[j] = known[j]
        BY <1>0, <2>1, OtherCalls
      <3>2. QED
        BY <1>3, <3>1 DEF Novel
    <2>2. CASE j = k /\ Begin(k)
      <3>1. pc'[k] \in {"find", "failed"} /\ (pc'[k] = "find" => state'[k] = Stat)
        BY <1>0, <1>3, <2>2 DEF Begin, GoTo, Seen, Typed, TypeOK
      <3>2. QED
        BY <2>2, <3>1 DEF Current, Reading
    <2>3. CASE j = k /\ ~Begin(k)
      <3>1. known'[k] = known[k] /\ CallStep(k)
        BY <1>0, <2>3
      <3>2. CASE Find(k)
        <4>1. CASE Matching(state[k]) = {} /\ pc'[k] = "wait"
          <5>1. n \in 1..Len(rows)
            BY <1>2, <1>3
          <5>2. rows[n].stat # state[k]
            BY <1>3, <4>1, <5>1 DEF Matching, Matches, Usable
          <5>3. pc[k] = "find"
            BY <3>2 DEF Find
          <5>4. ~Current(rows[n].stat)
            BY <1>3, <2>3, <3>1, <5>2, <5>3 DEF Novel
          <5>5. QED
            BY <2>3, <4>1, <5>4
        <4>2. CASE pc'[k] = "reused"
          BY <2>3, <4>2 DEF Reading
        <4>3. QED
          BY <1>0, <3>2, <4>1, <4>2 DEF Find, GoTo
      <3>3. CASE StatAfter(k)
        <4>1. ~Current(rows[n].stat) /\ Exists
          BY <1>3, <2>3, <3>1, <3>3 DEF StatAfter, Novel, Reading
        <4>2. /\ pc'[k] \in {"stat", "add"}
              /\ pc'[k] = "add" => snap'[k].stat = Stat
          <5>1. pc'[k] \in {"stat", "add"}
            BY <1>0, <3>3 DEF StatAfter, GoTo
          <5>2. pc'[k] = "stat" \/ snap'[k] =
                  Snapshot(Stat, digest[k], Judge(k, Stat),
                           IF Judge(k, Stat) = "stable" THEN asked[k] ELSE now)
            BY <1>0, <3>3, OwnStep
          <5>3. QED
            BY <5>1, <5>2 DEF Snapshot
        <4>3. QED
          BY <2>3, <4>1, <4>2 DEF Current
      <3>4. CASE Add(k)
        BY <1>0, <1>3, <2>3, <3>1, <3>4 DEF Add, GoTo, Novel, Reading
      <3>5. CASE Fail(k)
        <4>1. pc'[k] = "failed"
          BY <1>0, <3>5 DEF Fail, GoTo
        <4>2. QED
          BY <2>3, <4>1 DEF Reading
      <3>6. CASE Acquire(k) \/ StatBefore(k) \/ Open(k) \/ Read(k)
        <4>1. pc[k] \in {"wait"} \cup Reading /\ pc'[k] \in Reading
          BY <1>0, <3>6 DEF Acquire, StatBefore, Open, Read, GoTo, Reading
        <4>2. QED
          BY <1>3, <2>3, <3>1, <4>1 DEF Novel, Reading
      <3>7. QED
        BY <3>1, <3>2, <3>3, <3>4, <3>5, <3>6 DEF CallStep
    <2>4. QED
      BY <2>1, <2>2, <2>3
  <1>4. QED
    BY <1>0, <1>2, <1>3 DEF Novel, Usable, AtRest, Current, Exists, Stat, disk

\* A call hashes again only what the table did not know of when it began.
THEOREM KnownIsReused == Spec => []KnownNotRehashed
  <1>1. Init => Novel
    BY DEF Init, Novel
  <1>2. Seen /\ Novel /\ [Next]_vars => Novel'
    <2> SUFFICES ASSUME Seen, Novel, [Next]_vars PROVE Novel'
      OBVIOUS
    <2>1. CASE DiskStep
      BY <2>1, DiskNovel
    <2>2. ASSUME NEW k \in Calls, Begin(k) \/ CallStep(k) PROVE Novel'
      BY <2>2, CallNovel
    <2>3. CASE UNCHANGED vars
      BY <2>3 DEF vars, disk, hashing, Novel, Usable, AtRest, Current, Exists, Stat
    <2>4. QED
      BY <2>1, <2>2, <2>3 DEF Next, Terminated
  <1>3. Novel => KnownNotRehashed
    BY DEF Novel, Usable, KnownNotRehashed
  <1>4. QED
    BY <1>1, <1>2, <1>3, SeenAlways, PTL DEF Spec
=============================================================================
