---------------------------- MODULE BulkVerify ----------------------------
(***************************************************************************)
(* verify_many: workers take one item after the other, hash its file, look *)
(* its capture up and put the result into a buffer that is written to the  *)
(* verifications table in chunks; what is left is written when all workers *)
(* are done.  Meanwhile other calls hash the same files and prune() deletes*)
(* old history.                                                            *)
(*                                                                         *)
(* The event loop runs one step at a time: what lies between two awaits is *)
(* one action.  How a hash is found and what a lookup answers are the      *)
(* matter of FileSnapshots and CdxCache.                                   *)
(***************************************************************************)
EXTENDS Naturals, FiniteSets

CONSTANTS
  NItems,        \* how many items the call was given
  Workers,       \* the tasks of run_bulk
  Main,          \* the call itself, when it writes what is left
  Paths,
  NoPath,        \* in place of a path: the item is a digest
  PathOf,        \* the file of each item
  BatchSize,     \* Config.cache_batch_size
  Older,         \* snapshots from before the call have ids 1..Older
  MaxSnapshots,  \* bound: ids of snapshots
  MaxFailures,   \* bound: transactions that the database refuses
  MaxRaises      \* bound: progress callbacks that raise

Items == 1..NItems
SnapshotIds == 1..MaxSnapshots
NoSnapshot == 0

ASSUME ItemsAssumption == NItems \in Nat /\ PathOf \in [Items -> Paths \cup {NoPath}]
\* run_bulk makes min(concurrency, len(items)) of them.
ASSUME WorkersAssumption ==
  /\ IsFiniteSet(Workers) /\ Main \notin Workers /\ NoPath \notin Paths
  /\ Workers = {} <=> NItems = 0
ASSUME SizesAssumption ==
  /\ BatchSize \in Nat \ {0}
  /\ Older \in Nat /\ MaxSnapshots \in Nat /\ Older <= MaxSnapshots
  /\ MaxFailures \in Nat /\ MaxRaises \in Nat

VARIABLES
  next,      \* the index that the next worker takes
  pc,        \* where each worker is
  item,      \* what it works at
  snap,      \* the snapshot that each item's result refers to
  buffer,    \* WriteBuffer: items whose results wait to be written
  batch,     \* the chunk that each writer writes
  stored,    \* verifications: how many rows each item has
  result,    \* what the call has for each item
  phase,     \* of the call
  pathOf,    \* file_snapshots: the path of each row that was ever added
  table,     \* the rows that it holds
  referred,  \* rows that earlier verifications refer to
  failures,
  raises,
  lost       \* history: items in chunks that were not written

work == <<next, pc, item, snap, buffer, batch, stored, result, phase, lost>>
history == <<pathOf, table, referred>>
vars == <<work, history, failures, raises>>

Writers == Workers \cup {Main}

----------------------------------------------------------------------------
(* file_snapshots *)

IsNew(s) == pathOf[s] = NoPath

Newest(p) == {s \in SnapshotIds : pathOf[s] = p /\ \A r \in SnapshotIds : pathOf[r] = p => r <= s}

Append(p, s) ==
  /\ IsNew(s) /\ \A r \in SnapshotIds : IsNew(r) => s <= r
  /\ pathOf' = [pathOf EXCEPT ![s] = p]
  /\ table' = table \cup {s}
  /\ UNCHANGED referred

\* Somebody else hashes a file that has changed.
HashedByOthers(p) ==
  /\ \E s \in SnapshotIds : Append(p, s)
  /\ UNCHANGED <<work, failures, raises>>

Stored == {i \in Items : stored[i] > 0}

\* Rows that a verification refers to, when these earlier ones are left.
InUse(earlier) == earlier \cup {snap[i] : i \in Stored}

\* Mistake: rows that verifications refer to are not spared.
PrunableInUse(cut, earlier) ==
  {s \in table : s <= cut /\ \A p \in Paths : s \notin Newest(p)}

Prunable(cut, earlier) ==
  {s \in table : /\ s <= cut
                 /\ s \notin InUse(earlier)
                 /\ \A p \in Paths : s \notin Newest(p)}

\* In one transaction the old verifications go, and then the old snapshots.  The cutoff
\* lies before this call: its own results are not old, and when an earlier verification
\* was made is open.
Prune(cut, gone) ==
  /\ gone \subseteq {s \in referred : s <= cut}
  /\ referred' = referred \ gone
  /\ table' = table \ Prunable(cut, referred \ gone)
  /\ UNCHANGED <<work, pathOf, failures, raises>>

----------------------------------------------------------------------------
(* The transaction that writes a chunk *)

\* The foreign key of every row must be there.
CanInsert(S) == \A i \in S : snap[i] \in table \cup {NoSnapshot}

AddRows(S) == [i \in Items |-> IF i \in S THEN stored[i] + 1 ELSE stored[i]]

\* Mistake: each row is committed by itself.
RowsLeftCommitted(S) == {i \in S : snap[i] \in table \cup {NoSnapshot}}

\* Rows of a refused chunk that are there all the same: none, it is rolled back.
RowsLeft(S) == {}

Insert(x) ==
  /\ CanInsert(batch[x])
  /\ stored' = AddRows(batch[x])
  /\ UNCHANGED <<lost, failures>>

Refuse(x) ==
  /\ \/ ~CanInsert(batch[x]) /\ UNCHANGED failures
     \/ failures < MaxFailures /\ failures' = failures + 1
  /\ stored' = AddRows(RowsLeft(batch[x]))
  /\ lost' = lost \cup batch[x]

----------------------------------------------------------------------------
(* The workers *)

Init ==
  /\ next = 1
  /\ pc = [w \in Workers |-> "idle"]
  /\ item = [w \in Workers |-> 1]
  /\ snap = [i \in Items |-> NoSnapshot]
  /\ buffer = {}
  /\ batch = [x \in Writers |-> {}]
  /\ stored = [i \in Items |-> 0]
  /\ result = [i \in Items |-> "none"]
  /\ phase = "running"
  /\ pathOf \in [SnapshotIds -> Paths \cup {NoPath}]
  /\ \A s \in SnapshotIds : (pathOf[s] = NoPath) <=> s > Older
  /\ table = 1..Older
  /\ referred \in SUBSET (1..Older)
  /\ failures = 0
  /\ raises = 0
  /\ lost = {}

\* The loop head of run_bulk; the iterator is shared.
Take(w) ==
  /\ pc[w] = "idle"
  /\ \/ /\ next <= NItems
        /\ item' = [item EXCEPT ![w] = next]
        /\ next' = next + 1
        /\ pc' = [pc EXCEPT ![w] = IF PathOf[next] = NoPath THEN "look" ELSE "hash"]
     \/ /\ next > NItems
        /\ pc' = [pc EXCEPT ![w] = "stopped"]
        /\ UNCHANGED <<next, item>>
  /\ UNCHANGED <<snap, buffer, batch, stored, result, phase, lost, history, failures, raises>>

\* The item has its result.  The progress callback is told; when it raises, the worker
\* ends, and so does the gather, without the other workers.
Finish(w, r) ==
  /\ result' = [result EXCEPT ![item[w]] = r]
  /\ \/ /\ pc' = [pc EXCEPT ![w] = "idle"]
        /\ UNCHANGED <<phase, raises>>
     \/ /\ raises < MaxRaises
        /\ raises' = raises + 1
        /\ pc' = [pc EXCEPT ![w] = "dead"]
        /\ phase' = IF phase = "running" THEN "broken" ELSE phase

\* An exception that is not a verdict: on_error makes a result of it, which is told and
\* not recorded.
Excepts(w) ==
  /\ pc[w] \in {"hash", "look"}
  /\ Finish(w, "error")
  /\ UNCHANGED <<next, item, snap, buffer, batch, stored, lost, history, failures>>

\* Mistake: one result more than fits.
FullBeyond(S) == Cardinality(S) > BatchSize

Full(S) == Cardinality(S) >= BatchSize

\* Mistake: a chunk stays in the buffer while it is written.
KeptWhileWritten(S) == S

\* What flush leaves in the buffer.
Kept(S) == {}

\* The end of one() once there is a verdict: buffer.add, and flush when it is full.
AddResult(w) ==
  LET all == buffer \cup {item[w]}
  IN  \/ /\ Full(all)
         /\ batch' = [batch EXCEPT ![w] = all]
         /\ buffer' = Kept(all)
         /\ pc' = [pc EXCEPT ![w] = "write"]
         /\ UNCHANGED <<result, phase, raises>>
      \/ /\ ~Full(all)
         /\ buffer' = all
         /\ UNCHANGED batch
         /\ Finish(w, "verdict")

\* hash_file finds a snapshot that matches the file or adds one; a file that cannot be
\* read is a verdict at once.
Hash(w) ==
  LET p == PathOf[item[w]]
  IN  /\ pc[w] = "hash"
      /\ \E s \in SnapshotIds :
           /\ \/ s \in table /\ pathOf[s] = p /\ UNCHANGED history
              \/ Append(p, s)
           /\ snap' = [snap EXCEPT ![item[w]] = s]
      /\ pc' = [pc EXCEPT ![w] = "look"]
      /\ UNCHANGED <<next, item, buffer, batch, stored, result, phase, lost, failures, raises>>

FileError(w) ==
  /\ pc[w] = "hash"
  /\ AddResult(w)
  /\ UNCHANGED <<next, item, snap, stored, lost, history, failures>>

\* find and compare, whatever the verdict; a failed lookup is one too.
Look(w) ==
  /\ pc[w] = "look"
  /\ AddResult(w)
  /\ UNCHANGED <<next, item, snap, stored, lost, history, failures>>

WriteChunk(w) ==
  /\ pc[w] = "write"
  /\ Insert(w)
  /\ batch' = [batch EXCEPT ![w] = {}]
  /\ Finish(w, "verdict")
  /\ UNCHANGED <<next, item, snap, buffer, history>>

\* Mistake: a chunk that is refused is tried again and again.
ChunkRetried(w) ==
  /\ pc[w] = "write"
  /\ Refuse(w)
  /\ UNCHANGED <<next, pc, item, snap, buffer, batch, result, phase, history, raises>>

\* The exception reaches the worker whose result filled the chunk.
ChunkRefused(w) ==
  /\ pc[w] = "write"
  /\ Refuse(w)
  /\ batch' = [batch EXCEPT ![w] = {}]
  /\ Finish(w, "error")
  /\ UNCHANGED <<next, item, snap, buffer, history>>

----------------------------------------------------------------------------
(* The call *)

Ended == {"returned", "raised"}

Gathered == phase = "running" /\ \A w \in Workers : pc[w] = "stopped"

\* Mistake: what does not fill a chunk is forgotten.
NothingLeft == {}

Remaining == buffer

\* The finally clause.
Flush ==
  /\ Gathered \/ phase = "broken"
  /\ phase' = IF phase = "broken" THEN "writing_broken" ELSE "writing"
  /\ batch' = [batch EXCEPT ![Main] = Remaining]
  /\ buffer' = {}
  /\ UNCHANGED <<next, pc, item, snap, stored, result, lost, history, failures, raises>>

Return ==
  /\ phase \in {"writing", "writing_broken"}
  /\ \/ /\ Insert(Main)
        /\ phase' = IF phase = "writing" THEN "returned" ELSE "raised"
     \/ /\ Refuse(Main)
        /\ phase' = "raised"
  /\ batch' = [batch EXCEPT ![Main] = {}]
  /\ UNCHANGED <<next, pc, item, snap, buffer, result, history, raises>>

WorkerStep(w) ==
  \/ Take(w) \/ Hash(w) \/ FileError(w) \/ Look(w) \/ Excepts(w)
  \/ WriteChunk(w) \/ ChunkRefused(w)

Terminated ==
  /\ phase \in Ended
  /\ \A w \in Workers : pc[w] \in {"stopped", "dead"}
  /\ UNCHANGED vars

Next ==
  \/ \E w \in Workers : WorkerStep(w)
  \/ Flush \/ Return
  \/ \E p \in Paths : HashedByOthers(p)
  \/ \E cut \in 1..Older, gone \in SUBSET referred : Prune(cut, gone)
  \/ Terminated

Spec == Init /\ [][Next]_vars

\* The event loop runs what can run.
FairSpec ==
  /\ Spec
  /\ \A w \in Workers : WF_vars(WorkerStep(w))
  /\ WF_vars(Flush \/ Return)

----------------------------------------------------------------------------
(* Properties *)

\* Every variable keeps to its values, and between two steps the buffer is never full.
TypeOK ==
  /\ next \in 1..NItems + 1
  /\ pc \in [Workers -> {"idle", "hash", "look", "write", "stopped", "dead"}]
  /\ item \in [Workers -> Items]
  /\ snap \in [Items -> SnapshotIds \cup {NoSnapshot}]
  /\ buffer \subseteq Items /\ Cardinality(buffer) < BatchSize
  /\ batch \in [Writers -> SUBSET Items]
  /\ stored \in [Items -> Nat]
  /\ result \in [Items -> {"none", "verdict", "error"}]
  /\ phase \in {"running", "broken", "writing", "writing_broken"} \cup Ended
  /\ pathOf \in [SnapshotIds -> Paths \cup {NoPath}]
  /\ table \subseteq SnapshotIds
  /\ referred \subseteq SnapshotIds
  /\ failures \in 0..MaxFailures
  /\ raises \in 0..MaxRaises
  /\ lost \subseteq Items

\* The history is append-only and has one row for one verification: whoever flushes
\* while others add and flush, no result is written twice.
StoredOnce == \A i \in Items : stored[i] <= 1

\* A call that returns has a result for each item, and each verdict it tells is in the
\* history, but for those of chunks that the database refused.
VerdictsStored ==
  phase = "returned" =>
    \A i \in Items : /\ result[i] # "none"
                     /\ result[i] = "verdict" => stored[i] = 1 \/ i \in lost

\* An item that is told as an error has no verdict in the history: the caller, who will
\* try again, and the report agree.
ErrorsNotStored == \A i \in Items : result[i] = "error" => stored[i] = 0

\* prune keeps what verifications refer to, those that are stored while it runs
\* included, and the newest snapshot of each path (cache.py:590-592).
PruneKeeps ==
  /\ \A i \in Items : stored[i] > 0 => snap[i] \in table \cup {NoSnapshot}
  /\ referred \subseteq table
  /\ \A p \in Paths : Newest(p) \subseteq table

\* run_bulk ends, whatever item, chunk or callback fails.
CallEnds == <>(phase \in Ended)

\* README.md:102: "One failing item never aborts a batch; every item gets its own
\* result."  A call raises only when a callback did or the database failed: refuted, for
\* one row whose snapshot prune() has deleted makes the last chunk, and with it the
\* call, fail.
ItemNeverAborts ==
  phase = "raised" => failures > 0 \/ raises > 0
=============================================================================
