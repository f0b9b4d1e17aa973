--------------------------- MODULE FileSnapshots ---------------------------
(***************************************************************************)
(* client.hash_file over one path: stat the file, look for a stored        *)
(* snapshot of that state, and otherwise let a worker thread stat, read    *)
(* and stat again (files.snapshot_file) and append what it saw to the      *)
(* file_snapshots table.  Programs on the machine write, touch, replace    *)
(* and remove the file at any moment.                                      *)
(*                                                                         *)
(* The clock that stamps files is coarse: many changes may share a tick.   *)
(* The file system stamps the ctime of an inode at every change of its     *)
(* content or attributes; mtime can be set to anything.                    *)
(***************************************************************************)
EXTENDS Naturals, Sequences, FiniteSets

CONSTANTS
  Calls,       \* calls of hash_file
  Forced,      \* those with force=True
  Workers,     \* Config.hash_workers
  Inodes,      \* inode numbers
  NoFile,      \* in place of an inode number: the path names no file
  Chunks,      \* what one read() may return
  Contents,    \* contents of files
  MaxTime,     \* bound: ticks of the clock
  MaxChanges   \* bound: changes of the file

ASSUME CallsAssumption == IsFiniteSet(Calls) /\ Forced \subseteq Calls /\ Workers \in Nat \ {0}
ASSUME FilesAssumption == NoFile \notin Inodes /\ Contents \subseteq Seq(Chunks)
ASSUME BoundsAssumption == MaxTime \in Nat /\ MaxChanges \in Nat

VARIABLES
  now,       \* the clock of the file system
  inode,     \* what the path names
  content,   \* of every inode
  mtime,
  ctime,
  unlinked,  \* when each inode that is not in use was given up
  changes,
  pc,        \* where each call is
  state,     \* its first stat, by which it looks for a snapshot
  before,    \* the stat before reading
  asked,     \* history: the tick of that stat
  fd,        \* the inode it has open
  digest,    \* what it has fed to the hash
  attempt,
  threads,   \* the calls that hold a permit of _hash_sem
  snap,      \* the snapshot it made or found
  rows,      \* file_snapshots, by id
  known,     \* history: how many rows there were when the call began
  held       \* history: contents of the file since the call began

disk == <<now, inode, content, mtime, ctime, unlinked, changes>>
hashing == <<before, asked, fd, digest, attempt>>
vars == <<disk, pc, state, hashing, threads, snap, rows, known, held>>

----------------------------------------------------------------------------
(* The file system *)

Ended == {"hashed", "reused", "failed"}
Reading == {"stat", "open", "read", "restat"}

\* FileState: the properties that same_state and find_snapshot compare.
Stat == [inode |-> inode, size |-> Len(content[inode]),
         mtime |-> mtime[inode], ctime |-> ctime[inode]]

Exists == inode # NoFile

\* The path has this content from now on.
Change(c) ==
  /\ changes < MaxChanges
  /\ changes' = changes + 1
  /\ held' = [k \in Calls |-> IF pc[k] \in Ended \cup {"idle"} THEN held[k] ELSE held[k] \cup {c}]
  /\ UNCHANGED <<now, pc, state, hashing, threads, snap, rows, known>>

Write(c) ==
  /\ Exists
  /\ Change(c)
  /\ content' = [content EXCEPT ![inode] = c]
  /\ mtime' = [mtime EXCEPT ![inode] = now]
  /\ ctime' = [ctime EXCEPT ![inode] = now]
  /\ UNCHANGED <<inode, unlinked>>

\* utime() sets any mtime, as cp -p and tar do.
Touch(m) ==
  /\ Exists
  /\ Change(content[inode])
  /\ mtime' = [mtime EXCEPT ![inode] = m]
  /\ ctime' = [ctime EXCEPT ![inode] = now]
  /\ UNCHANGED <<inode, content, unlinked>>

Unlink == IF Exists THEN [unlinked EXCEPT ![inode] = now] ELSE unlinked

\* Another file, written at t or later under its own inode number, takes the place
\* of this one.  An inode that a reader has open is not given to another file.
Replace(i, c, m, t) ==
  /\ i # inode
  /\ \A k \in Calls : fd[k] # i
  /\ t >= unlinked[i]
  /\ Change(c)
  /\ inode' = i
  /\ content' = [content EXCEPT ![i] = c]
  /\ mtime' = [mtime EXCEPT ![i] = m]
  /\ ctime' = [ctime EXCEPT ![i] = t]
  /\ unlinked' = Unlink

Remove ==
  /\ Exists
  /\ changes < MaxChanges
  /\ changes' = changes + 1
  /\ inode' = NoFile
  /\ unlinked' = Unlink
  /\ UNCHANGED <<now, content, mtime, ctime, pc, state, hashing, threads, snap, rows, known, held>>

Tick ==
  /\ now < MaxTime
  /\ now' = now + 1
  /\ UNCHANGED <<inode, content, mtime, ctime, unlinked, changes,
                 pc, state, hashing, threads, snap, rows, known, held>>

DiskStep ==
  \/ Tick
  \/ Remove
  \/ \E c \in Contents : Write(c)
  \/ \E m \in 0..now : Touch(m)
  \/ \E i \in Inodes, c \in Contents, m \in 0..now, t \in 0..now : Replace(i, c, m, t)

----------------------------------------------------------------------------
(* hash_file *)

NoStat == [inode |-> NoFile, size |-> 0, mtime |-> 0, ctime |-> 0]

\* "asked" is the tick in which the recorded state was first seen.
Snapshot(s, d, kind, at) == [stat |-> s, digest |-> d, kind |-> kind, asked |-> at]
NoSnapshot == Snapshot(NoStat, << >>, "none", 0)

Init ==
  /\ now = 0
  /\ inode \in Inodes
  /\ content \in [Inodes -> Contents]
  /\ \A i, k \in Inodes : content[i] = content[k]
  /\ mtime = [i \in Inodes |-> 0]
  /\ ctime = [i \in Inodes |-> 0]
  /\ unlinked = [i \in Inodes |-> 0]
  /\ changes = 0
  /\ pc = [k \in Calls |-> "idle"]
  /\ state = [k \in Calls |-> NoStat]
  /\ before = [k \in Calls |-> NoStat]
  /\ asked = [k \in Calls |-> 0]
  /\ fd = [k \in Calls |-> NoFile]
  /\ digest = [k \in Calls |-> << >>]
  /\ attempt = [k \in Calls |-> 1]
  /\ threads = {}
  /\ snap = [k \in Calls |-> NoSnapshot]
  /\ rows = << >>
  /\ known = [k \in Calls |-> 0]
  /\ held = [k \in Calls |-> {}]

GoTo(k, l) == pc' = [pc EXCEPT ![k] = l]

\* stat_file raises for a missing file.
Begin(k) ==
  /\ pc[k] = "idle"
  /\ IF Exists
       THEN /\ GoTo(k, IF k \in Forced THEN "wait" ELSE "find")
            /\ state' = [state EXCEPT ![k] = Stat]
            /\ held' = [held EXCEPT ![k] = {content[inode]}]
       ELSE GoTo(k, "failed") /\ UNCHANGED <<state, held>>
  /\ known' = [known EXCEPT ![k] = Len(rows)]
  /\ UNCHANGED <<disk, hashing, threads, snap, rows>>

\* Mistake: a snapshot of a changing file is as good as any.
MatchesAnyKind(r, s) == r.stat = s

\* Mistake: two parameters of the SELECT are in the wrong order.
MatchesSwapped(r, s) ==
  r.stat = [s EXCEPT !.mtime = s.ctime, !.ctime = s.mtime] /\ r.kind = "stable"

Matches(r, s) == r.stat = s /\ r.kind = "stable"

\* Ids of the rows that find_snapshot selects; it returns the latest.
Matching(s) == {n \in 1..Len(rows) : Matches(rows[n], s)}

Find(k) ==
  /\ pc[k] = "find"
  /\ \/ Matching(state[k]) = {} /\ GoTo(k, "wait") /\ UNCHANGED snap
     \/ \E n \in Matching(state[k]) :
          /\ \A m \in Matching(state[k]) : m <= n
          /\ snap' = [snap EXCEPT ![k] = rows[n]]
          /\ GoTo(k, "reused")
  /\ UNCHANGED <<disk, state, hashing, threads, rows, known, held>>

\* Mistake: a thread is started whether or not one is free.
AcquireAnyway(k) ==
  /\ pc[k] = "wait"
  /\ threads' = threads \cup {k}
  /\ GoTo(k, "stat")
  /\ UNCHANGED <<disk, state, hashing, snap, rows, known, held>>

\* The semaphore lets the call start a thread.
Acquire(k) ==
  /\ pc[k] = "wait"
  /\ Cardinality(threads) < Workers
  /\ threads' = threads \cup {k}
  /\ GoTo(k, "stat")
  /\ UNCHANGED <<disk, state, hashing, snap, rows, known, held>>

----------------------------------------------------------------------------
(* snapshot_file, in its thread *)

\* The thread's locals are gone, and its permit is given back.
Return(k) ==
  /\ before' = [before EXCEPT ![k] = NoStat]
  /\ asked' = [asked EXCEPT ![k] = 0]
  /\ digest' = [digest EXCEPT ![k] = << >>]
  /\ attempt' = [attempt EXCEPT ![k] = 1]
  /\ threads' = threads \ {k}

StatBefore(k) ==
  /\ pc[k] = "stat"
  /\ Exists
  /\ before' = [before EXCEPT ![k] = Stat]
  /\ asked' = [asked EXCEPT ![k] = now]
  /\ GoTo(k, "open")
  /\ UNCHANGED <<disk, state, fd, digest, attempt, threads, snap, rows, known, held>>

Open(k) ==
  /\ pc[k] = "open"
  /\ Exists
  /\ fd' = [fd EXCEPT ![k] = inode]
  /\ digest' = [digest EXCEPT ![k] = << >>]
  /\ GoTo(k, "read")
  /\ UNCHANGED <<disk, state, before, asked, attempt, threads, snap, rows, known, held>>

\* The file is open: it is read on though another may have its name by now.
Read(k) ==
  /\ pc[k] = "read"
  /\ LET file == content[fd[k]]
         pos == Len(digest[k]) IN
       IF pos < Len(file)
         THEN /\ digest' = [digest EXCEPT ![k] = Append(@, file[pos + 1])]
              /\ UNCHANGED <<pc, fd>>
         ELSE GoTo(k, "restat") /\ fd' = [fd EXCEPT ![k] = NoFile] /\ UNCHANGED digest
  /\ UNCHANGED <<disk, state, before, asked, attempt, threads, snap, rows, known, held>>

\* Mistake: the file is taken to be unchanged after the second attempt.
JudgeSecondStable(k, after) ==
  IF before[k] = after \/ attempt[k] = 2 THEN "stable" ELSE "changed"

\* Whether the state was the same before and after the read.
Judge(k, after) == IF before[k] = after THEN "stable" ELSE "changed"

StatAfter(k) ==
  /\ pc[k] = "restat"
  /\ Exists
  /\ LET kind == Judge(k, Stat) IN
       IF kind = "stable" \/ attempt[k] = 2
         THEN /\ snap' = [snap EXCEPT ![k] = Snapshot(Stat, digest[k], kind,
                                               IF kind = "stable" THEN asked[k] ELSE now)]
              /\ Return(k)
              /\ GoTo(k, "add")
         ELSE /\ attempt' = [attempt EXCEPT ![k] = 2]
              /\ GoTo(k, "stat")
              /\ UNCHANGED <<threads, snap, before, asked, digest>>
  /\ UNCHANGED <<disk, state, fd, rows, known, held>>

\* Mistake: the error leaves the thread without the permit being given back.
FailHoldingPermit(k) ==
  /\ pc[k] \in {"stat", "open", "restat"}
  /\ ~Exists
  /\ GoTo(k, "failed")
  /\ UNCHANGED <<disk, state, hashing, threads, snap, rows, known, held>>

\* The file is missing: stat() or open() raises, and the async with gives the thread back.
Fail(k) ==
  /\ pc[k] \in {"stat", "open", "restat"}
  /\ ~Exists
  /\ Return(k)
  /\ GoTo(k, "failed")
  /\ UNCHANGED <<disk, state, fd, snap, rows, known, held>>

\* add_snapshot
Add(k) ==
  /\ pc[k] = "add"
  /\ rows' = Append(rows, snap[k])
  /\ GoTo(k, "hashed")
  /\ UNCHANGED <<disk, state, hashing, threads, snap, known, held>>

CallStep(k) ==
  \/ Find(k) \/ Acquire(k)
  \/ StatBefore(k) \/ Open(k) \/ Read(k) \/ StatAfter(k) \/ Fail(k)
  \/ Add(k)

Terminated == (\A k \in Calls : pc[k] \in Ended) /\ UNCHANGED vars

Next ==
  \/ DiskStep
  \/ \E k \in Calls : Begin(k) \/ CallStep(k)
  \/ Terminated

Spec == Init /\ [][Next]_vars

\* The event loop and the worker threads run what can run.
Fairness == \A k \in Calls : WF_vars(CallStep(k))

FairSpec == Spec /\ Fairness

----------------------------------------------------------------------------
(* Properties *)

Stats == [inode : Inodes \cup {NoFile}, size : Nat, mtime : Nat, ctime : Nat]
Snapshots == [stat : Stats, digest : Seq(Chunks), kind : {"none", "stable", "changed"}, asked : Nat]

\* Every variable keeps to its values, and no more threads hash than hash_workers.
TypeOK ==
  /\ now \in 0..MaxTime
  /\ inode \in Inodes \cup {NoFile}
  /\ content \in [Inodes -> Contents]
  /\ mtime \in [Inodes -> Nat]
  /\ ctime \in [Inodes -> Nat]
  /\ unlinked \in [Inodes -> Nat]
  /\ changes \in 0..MaxChanges
  /\ pc \in [Calls -> {"idle", "find", "wait", "add"} \cup Reading \cup Ended]
  /\ state \in [Calls -> Stats]
  /\ before \in [Calls -> Stats]
  /\ asked \in [Calls -> Nat]
  /\ fd \in [Calls -> Inodes \cup {NoFile}]
  /\ digest \in [Calls -> Seq(Chunks)]
  /\ attempt \in [Calls -> {1, 2}]
  /\ threads \subseteq Calls /\ Cardinality(threads) <= Workers
  /\ snap \in [Calls -> Snapshots]
  /\ rows \in Seq(Snapshots)
  /\ known \in [Calls -> Nat]
  /\ held \in [Calls -> SUBSET Contents]

\* A file at rest: the change that led to the recorded state was in an earlier tick of
\* the clock than the first look at it.  A second change in the tick of the first
\* leaves no trace in what stat() tells.
AtRest(r) == r.stat.ctime < r.asked

\* README:175-181.  A snapshot that a hash may be reused from tells the content: as
\* long as the file has the recorded state, its content is the one that was hashed,
\* whatever was done to the file while it was read and since.
ReusableIsCurrent ==
  \A n \in 1..Len(rows) :
    (rows[n].kind = "stable" /\ AtRest(rows[n]) /\ Exists /\ Stat = rows[n].stat)
      => content[inode] = rows[n].digest

\* A hash that hash_file finds, or makes and calls stable, is of a content that the
\* file had during the call: not of one gone before, nor pieced together from two.
AnswerWasTrue ==
  \A k \in Calls :
    (\/ pc[k] = "reused" /\ AtRest(snap[k])
     \/ pc[k] = "hashed" /\ AtRest(snap[k]) /\ snap[k].kind = "stable")
      => snap[k].digest \in held[k]

\* A file in a state that the table knew when the call began is not hashed again.
KnownNotRehashed ==
  \A k \in Calls \ Forced : pc[k] = "hashed" =>
    \A n \in 1..known[k] :
      (rows[n].kind = "stable" /\ AtRest(rows[n])) => rows[n].stat # snap[k].stat

\* Every call ends, with a snapshot or the error, however often the file changes: no
\* call keeps the thread pool from another.
CallEnds == \A k \in Calls : (pc[k] # "idle") ~> (pc[k] \in Ended)
=============================================================================
