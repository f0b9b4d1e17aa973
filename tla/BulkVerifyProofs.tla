------------------------- MODULE BulkVerifyProofs -------------------------
(***************************************************************************)
(* Proofs about BulkVerify, for any number of items, workers and paths and *)
(* any size of the chunks.                                                 *)
(***************************************************************************)
EXTENDS BulkVerify, FiniteSetTheorems, TLAPS

\* The buffer is a finite set, so that it has a size.
LEMMA BufferSize ==
  ASSUME ItemsAssumption, NEW S \in SUBSET Items
  PROVE  Cardinality(S) \in Nat
  <1>1. IsFiniteSet(Items)
    BY FS_Interval DEF ItemsAssumption, Items
  <1>2. QED
    BY <1>1, FS_Subset, FS_CardinalityType

\* No step leaves the types, and between two steps the buffer is never full.
THEOREM TypeCorrect == Spec => []TypeOK
  <1> USE ItemsAssumption, WorkersAssumption, SizesAssumption
  <1>1. Init => TypeOK
    <2> SUFFICES ASSUME Init PROVE TypeOK
      OBVIOUS
    <2>1. Cardinality(buffer) < BatchSize
      BY FS_EmptySet DEF Init, SizesAssumption
    <2>2. QED
      BY <2>1 DEF Init, TypeOK, Items, SnapshotIds, NoSnapshot, Ended, ItemsAssumption,
         WorkersAssumption, SizesAssumption
  <1>2. TypeOK /\ [Next]_vars => TypeOK'
    <2> SUFFICES ASSUME TypeOK, [Next]_vars PROVE TypeOK'
      OBVIOUS
    <2>1. ASSUME NEW w \in Workers, Take(w) PROVE TypeOK'
      <3>1. CASE next <= NItems /\ item' = [item EXCEPT ![w] = next] /\ next' = next + 1
        <4>1. next \in Items /\ next' \in 1..NItems + 1
          BY <3>1 DEF TypeOK, Items, ItemsAssumption
        <4>2. pc' \in [Workers -> {"idle", "hash", "look", "write", "stopped", "dead"}]
          BY <2>1 DEF Take, TypeOK
        <4>3. QED
          BY <2>1, <3>1, <4>1, <4>2 DEF Take, TypeOK, history
      <3>2. CASE UNCHANGED <<next, item>>
        BY <2>1, <3>2 DEF Take, TypeOK, history
      <3>3. QED
        BY <2>1, <3>1, <3>2 DEF Take
    <2>2. ASSUME NEW w \in Workers, Hash(w) PROVE TypeOK'
      <3>1. /\ pathOf' \in [SnapshotIds -> Paths \cup {NoPath}]
            /\ table' \subseteq SnapshotIds /\ referred' \subseteq SnapshotIds
            /\ snap' \in [Items -> SnapshotIds \cup {NoSnapshot}]
        <4>1. PICK s \in SnapshotIds :
                /\ \/ UNCHANGED history
                   \/ Append(PathOf[item[w]], s)
                /\ snap' = [snap EXCEPT ![item[w]] = s]
          BY <2>2 DEF Hash
        <4>2. PathOf[item[w]] \in Paths \cup {NoPath}
          BY DEF TypeOK, ItemsAssumption
        <4>3. QED
          BY <4>1, <4>2 DEF Append, TypeOK, history
      <3>2. QED
        BY <2>2, <3>1 DEF Hash, TypeOK
    <2>3. ASSUME NEW w \in Workers, FileError(w) \/ Look(w) PROVE TypeOK'
      <3>1. AddResult(w)
        BY <2>3 DEF FileError, Look
      <3>2. buffer' \subseteq Items /\ Cardinality(buffer') < BatchSize
        <4>1. CASE Full(buffer \cup {item[w]}) /\ buffer' = {}
          BY <4>1, FS_EmptySet DEF SizesAssumption
        <4>2. CASE ~Full(buffer \cup {item[w]}) /\ buffer' = buffer \cup {item[w]}
          <5>1. buffer' \in SUBSET Items
            BY <4>2 DEF TypeOK
          <5>2. Cardinality(buffer') \in Nat
            BY <5>1, BufferSize
          <5>3. QED
            BY <4>2, <5>1, <5>2 DEF Full, SizesAssumption
        <4>3. QED
          BY <3>1, <4>1, <4>2 DEF AddResult, Kept
      <3>3. /\ batch' \in [Writers -> SUBSET Items]
            /\ pc' \in [Workers -> {"idle", "hash", "look", "write", "stopped", "dead"}]
            /\ result' \in [Items -> {"none", "verdict", "error"}]
            /\ phase' \in {"running", "broken", "writing", "writing_broken"} \cup Ended
            /\ raises' \in 0..MaxRaises
        BY <3>1 DEF AddResult, Finish, TypeOK, SizesAssumption
      <3>4. QED
        BY <2>3, <3>2, <3>3 DEF FileError, Look, TypeOK, history
    <2>4. ASSUME NEW w \in Workers, Excepts(w) PROVE TypeOK'
      BY <2>4 DEF Excepts, Finish, TypeOK, history, SizesAssumption
    <2>5. ASSUME NEW w \in Workers, WriteChunk(w) PROVE TypeOK'
      BY <2>5 DEF WriteChunk, Insert, AddRows, Finish, TypeOK, history, SizesAssumption, Writers
    <2>6. ASSUME NEW w \in Workers, ChunkRefused(w) PROVE TypeOK'
      BY <2>6 DEF ChunkRefused, Refuse, RowsLeft, AddRows, Finish, TypeOK, history,
         SizesAssumption, Writers
    <2>7. CASE Flush
      BY <2>7, FS_EmptySet DEF Flush, Remaining, TypeOK, history, SizesAssumption, Writers
    <2>8. CASE Return
      BY <2>8 DEF Return, Insert, Refuse, RowsLeft, AddRows, TypeOK, history,
         SizesAssumption, Writers, Ended
    <2>9. ASSUME NEW p \in Paths, HashedByOthers(p) PROVE TypeOK'
      BY <2>9 DEF HashedByOthers, Append, TypeOK, work
    <2>10. ASSUME NEW cut \in 1..Older, NEW gone \in SUBSET referred, Prune(cut, gone)
           PROVE TypeOK'
      BY <2>10 DEF Prune, TypeOK, work
    <2>11. CASE Terminated \/ UNCHANGED vars
      BY <2>11 DEF Terminated, vars, work, history, TypeOK
    <2>12. QED
      BY <2>1, <2>2, <2>3, <2>4, <2>5, <2>6, <2>7, <2>8, <2>9, <2>10, <2>11
      DEF Next, WorkerStep
  <1>3. QED
    BY <1>1, <1>2, PTL DEF Spec

----------------------------------------------------------------------------
(* Where the result of each item is *)

Busy == {w \in Workers : pc[w] \in {"hash", "look"}}

\* Nobody has a result of this item yet.
Untold(i) ==
  /\ result[i] = "none"
  /\ stored[i] = 0
  /\ i \notin buffer /\ i \notin lost
  /\ \A x \in Writers : i \notin batch[x]

\* An item that is not taken, or at which a worker is, has no result, and no two
\* workers are at the same one.
Places ==
  /\ \A i \in Items : i >= next => Untold(i)
  /\ \A w \in Busy : item[w] < next /\ Untold(item[w])
  /\ \A v, w \in Busy : item[v] = item[w] => v = w

\* A result that is still to be written is in one place only and not stored.
Apart ==
  /\ \A i \in buffer : stored[i] = 0 /\ \A x \in Writers : i \notin batch[x]
  /\ \A x, y \in Writers : \A i \in batch[x] : stored[i] = 0 /\ (i \in batch[y] => x = y)
  /\ \A i \in Items : stored[i] <= 1

\* What is told as an error will not be written.
Unwritten(i) == stored[i] = 0 /\ i \notin buffer /\ \A x \in Writers : i \notin batch[x]

Errors ==
  /\ \A i \in Items : result[i] = "error" => Unwritten(i)
  /\ \A w \in Workers : pc[w] = "write" => item[w] \in batch[w]

\* Each item that was taken is worked at or told, and a verdict that was told is on its
\* way to the table, in it, or lost with its chunk.
OnItsWay(i) == i \in buffer \cup lost \/ stored[i] = 1 \/ \E x \in Writers : i \in batch[x]

Verdicts ==
  /\ \A i \in Items : i < next =>
       \/ result[i] # "none"
       \/ \E w \in Workers : item[w] = i /\ pc[w] \in {"hash", "look", "write"}
  /\ \A i \in Items : result[i] = "verdict" => OnItsWay(i)

\* The call writes what is left when all workers have stopped, unless a callback raised.
Ends ==
  /\ \A w \in Workers : pc[w] = "stopped" => next > NItems
  /\ \A w \in Workers : pc[w] # "write" => batch[w] = {}
  /\ phase \in {"writing", "returned"} => buffer = {} /\ \A w \in Workers : pc[w] = "stopped"
  /\ phase \notin {"writing", "writing_broken"} => batch[Main] = {}

Accounted == Places /\ Apart /\ Errors /\ Verdicts /\ Ends

LEMMA AccountedInit == Init => Accounted
  <1> SUFFICES ASSUME Init PROVE Accounted
    OBVIOUS
  <1>1. \A i \in Items : Untold(i) /\ ~(i < next)
    BY ItemsAssumption DEF Init, Untold, Items
  <1>2. Busy = {} /\ \A w \in Workers : pc[w] = "idle"
    BY DEF Init, Busy
  <1>3. Places /\ Verdicts
    BY <1>1, <1>2 DEF Places, Verdicts, Untold
  <1>4. Apart /\ Errors
    BY <1>1, <1>2 DEF Init, Apart, Errors, Untold
  <1>5. Ends
    BY <1>2, WorkersAssumption DEF Init, Ends, Writers
  <1>6. QED
    BY <1>3, <1>4, <1>5 DEF Accounted

\* A worker that comes to a result leaves all others where they are.
LEMMA PlacesLeft ==
  ASSUME TypeOK, Places, NEW w \in Busy, UNCHANGED <<next, item>>, Busy' = Busy \ {w},
         \A i \in Items : i # item[w] /\ Untold(i) => Untold(i)'
  PROVE  Places'
  <1>1. \A i \in Items : i >= next => i # item[w]
    BY ItemsAssumption DEF Places, TypeOK, Items, Busy
  <1>2. \A v \in Busy : item[v] \in Items
    BY DEF TypeOK, Busy
  <1>3. QED
    BY <1>1, <1>2 DEF Places

\* A worker that takes the next item is the only one at it.
LEMMA TakeAccounted ==
  ASSUME TypeOK, Accounted, NEW w \in Workers, Take(w)
  PROVE  Accounted'
  <1> USE ItemsAssumption DEF Accounted
  <1>1. UNCHANGED <<result, stored, buffer, batch, lost, phase>>
    BY DEF Take
  <1>2. Apart' /\ Errors'
    BY <1>1 DEF Take, TypeOK, Apart, Errors, Unwritten
  <1>3. \A i \in Items : Untold(i) <=> Untold(i)'
    BY <1>1 DEF Untold
  <1>4. CASE next <= NItems
    <2>0. /\ next \in Items /\ item'[w] = next /\ next' = next + 1
          /\ \A v \in Workers \ {w} : item'[v] = item[v] /\ pc'[v] = pc[v]
          /\ pc[w] = "idle" /\ pc'[w] \in {"hash", "look"}
      BY <1>4, ItemsAssumption DEF Take, TypeOK, Items
    <2>1. Busy' = Busy \cup {w} /\ w \notin Busy
      BY <2>0 DEF Busy
    <2>2. \A i \in Items : (i >= next' => i >= next) /\ (i < next' => i < next \/ i = next)
      BY <2>0 DEF TypeOK, Items
    <2>3. \A v \in Busy : item'[v] = item[v] /\ item[v] \in Items /\ item[v] # next
                          /\ item[v] < next'
      BY <2>0, <2>1 DEF Places, Busy, TypeOK, Items
    <2>4. Untold(next) /\ next < next'
      BY <2>0 DEF Places, Items
    <2>5. Places'
      BY <1>3, <2>0, <2>1, <2>2, <2>3, <2>4 DEF Places
    <2>6. Verdicts'
      <3>1. \A i \in Items : OnItsWay(i) => OnItsWay(i)'
        BY <1>1 DEF OnItsWay
      <3>2. \A v \in Workers : pc[v] \in {"hash", "look", "write"} => v # w
        BY <2>0
      <3>3. \A i \in Items : i < next =>
              \/ result[i] # "none"
              \/ \E v \in Workers : item'[v] = i /\ pc'[v] \in {"hash", "look", "write"}
        BY <2>0, <3>2 DEF Verdicts
      <3>4. item'[w] = next /\ pc'[w] \in {"hash", "look", "write"}
        BY <2>0
      <3>5. \A i \in Items : i < next' =>
              \/ result'[i] # "none"
              \/ \E v \in Workers : item'[v] = i /\ pc'[v] \in {"hash", "look", "write"}
        BY <1>1, <2>2, <3>3, <3>4
      <3>6. \A i \in Items : result'[i] = "verdict" => OnItsWay(i)'
        BY <1>1, <3>1 DEF Verdicts
      <3>7. QED
        BY <3>5, <3>6 DEF Verdicts
    <2>7. \A v \in Workers : pc'[v] # "stopped"
      <3>1. ~(next > NItems)
        BY <1>4 DEF TypeOK
      <3>2. QED
        BY <2>0, <3>1 DEF Ends
    <2>8. Ends'
      BY <1>1, <2>0, <2>7 DEF Ends
    <2>9. QED
      BY <1>2, <2>5, <2>6, <2>8
  <1>5. CASE next > NItems /\ UNCHANGED <<next, item>> /\ pc' = [pc EXCEPT ![w] = "stopped"]
    <2>1. Places'
      BY <1>3, <1>5 DEF Take, TypeOK, Places, Busy
    <2>2. Verdicts' /\ Ends'
      BY <1>1, <1>5 DEF Take, TypeOK, Verdicts, OnItsWay, Ends
    <2>3. QED
      BY <1>2, <2>1, <2>2
  <1>6. QED
    BY <1>4, <1>5 DEF Take, TypeOK, Items

LEMMA HashAccounted ==
  ASSUME TypeOK, Accounted, NEW w \in Workers, Hash(w)
  PROVE  Accounted'
  <1> USE DEF Accounted
  <1>1. Places'
    BY DEF Hash, TypeOK, Places, Untold, Busy
  <1>2. Apart' /\ Errors'
    BY DEF Hash, TypeOK, Apart, Errors, Unwritten
  <1>3. Verdicts' /\ Ends'
    BY DEF Hash, TypeOK, Verdicts, OnItsWay, Ends
  <1>4. QED
    BY <1>1, <1>2, <1>3

\* An exception leaves its item without a verdict anywhere.
LEMMA ExceptsAccounted ==
  ASSUME TypeOK, Accounted, NEW w \in Workers, Excepts(w)
  PROVE  Accounted'
  <1> USE DEF Accounted
  <1>1. Places'
    <2>1. w \in Busy /\ Busy' = Busy \ {w} /\ UNCHANGED <<next, item>>
      BY DEF Excepts, Finish, TypeOK, Busy
    <2>2. \A i \in Items : i # item[w] /\ Untold(i) => Untold(i)'
      BY DEF Excepts, Finish, TypeOK, Untold
    <2>3. QED
      BY <2>1, <2>2, PlacesLeft
  <1>2. Apart' /\ Errors'
    BY DEF Excepts, Finish, TypeOK, Apart, Errors, Unwritten, Places, Untold, Busy
  <1>3. Verdicts'
    BY DEF Excepts, Finish, TypeOK, Verdicts, OnItsWay
  <1>4. Ends'
    BY DEF Excepts, Finish, TypeOK, Ends, Ended
  <1>5. QED
    BY <1>1, <1>2, <1>3, <1>4

\* A verdict goes to the buffer, or with the whole buffer into the worker's chunk.
LEMMA AddAccounted ==
  ASSUME TypeOK, Accounted, NEW w \in Workers, FileError(w) \/ Look(w)
  PROVE  Accounted'
  <1> USE DEF Accounted
  <1>0. w \in Busy /\ AddResult(w) /\ UNCHANGED <<next, item, snap, stored, lost, history>>
    BY DEF FileError, Look, Busy
  <1>1. CASE
         /\ batch' = [batch EXCEPT ![w] = buffer \cup {item[w]}] /\ buffer' = {}
         /\ pc' = [pc EXCEPT ![w] = "write"]
         /\ UNCHANGED <<result, phase, raises>>
    <2>1. Places'
      <3>1. Busy' = Busy \ {w}
        BY <1>0, <1>1 DEF TypeOK, Busy
      <3>2. \A i \in Items : i # item[w] /\ Untold(i) => Untold(i)'
        BY <1>0, <1>1 DEF TypeOK, Untold, Writers
      <3>3. QED
        BY <1>0, <3>1, <3>2, PlacesLeft
    <2>2. Apart'
      BY <1>0, <1>1 DEF TypeOK, Apart, Places, Untold, Writers
    <2>3. Errors'
      BY <1>0, <1>1 DEF TypeOK, Errors, Unwritten, Places, Untold, Writers
    <2>4. Verdicts'
      BY <1>0, <1>1 DEF TypeOK, Verdicts, OnItsWay, Ends, Busy, Writers
    <2>5. Ends'
      BY <1>0, <1>1, WorkersAssumption DEF TypeOK, Ends, Busy, Writers
    <2>6. QED
      BY <2>1, <2>2, <2>3, <2>4, <2>5
  <1>2. CASE
         /\ buffer' = buffer \cup {item[w]} /\ UNCHANGED batch
         /\ Finish(w, "verdict")
    <2>1. Places'
      <3>1. Busy' = Busy \ {w}
        BY <1>0, <1>2 DEF Finish, TypeOK, Busy
      <3>2. \A i \in Items : i # item[w] /\ Untold(i) => Untold(i)'
        BY <1>0, <1>2 DEF Finish, TypeOK, Untold
      <3>3. QED
        BY <1>0, <3>1, <3>2, PlacesLeft
    <2>2. Apart' /\ Errors'
      BY <1>0, <1>2 DEF Finish, TypeOK, Apart, Errors, Unwritten, Places, Untold, Busy
    <2>3. Verdicts'
      BY <1>0, <1>2 DEF Finish, TypeOK, Verdicts, OnItsWay
    <2>4. Ends'
      BY <1>0, <1>2 DEF Finish, TypeOK, Ends, Busy, Ended
    <2>5. QED
      BY <2>1, <2>2, <2>3, <2>4
  <1>3. QED
    BY <1>0, <1>1, <1>2 DEF AddResult, Kept

\* A chunk that is written is stored once; its items are in no other place.
LEMMA WriteAccounted ==
  ASSUME TypeOK, Accounted, NEW w \in Workers, WriteChunk(w)
  PROVE  Accounted'
  <1> USE DEF Accounted
  <1>0. w \in Writers /\ pc[w] = "write" /\ item[w] \in batch[w]
    BY DEF WriteChunk, Writers, Errors
  <1>1. Places'
    BY <1>0 DEF WriteChunk, Insert, AddRows, Finish, TypeOK, Places, Untold, Busy
  <1>2. Apart'
    BY <1>0 DEF WriteChunk, Insert, AddRows, Finish, TypeOK, Apart
  <1>3. Errors'
    BY <1>0 DEF WriteChunk, Insert, AddRows, Finish, TypeOK, Errors, Unwritten, Apart
  <1>4. Verdicts'
    <2>1. \A i \in batch[w] : stored'[i] = 1
      BY <1>0 DEF WriteChunk, Insert, AddRows, TypeOK, Apart
    <2>2. \A i \in Items \ batch[w] : OnItsWay(i) => OnItsWay(i)'
      BY <1>0 DEF WriteChunk, Insert, AddRows, TypeOK, OnItsWay
    <2>3. /\ \A i \in Items \ {item[w]} : result'[i] = result[i]
          /\ result'[item[w]] = "verdict"
          /\ \A v \in Workers \ {w} : pc'[v] = pc[v]
          /\ UNCHANGED <<next, item>>
      BY DEF WriteChunk, Finish, TypeOK
    <2>4. QED
      BY <1>0, <2>1, <2>2, <2>3 DEF Verdicts, OnItsWay
  <1>5. Ends'
    BY <1>0, WorkersAssumption DEF WriteChunk, Insert, Finish, TypeOK, Ends, Writers, Ended
  <1>6. QED
    BY <1>1, <1>2, <1>3, <1>4, <1>5

\* A chunk that is refused is lost, and the item that filled it is told as an error.
LEMMA RefuseAccounted ==
  ASSUME TypeOK, Accounted, NEW w \in Workers, ChunkRefused(w)
  PROVE  Accounted'
  <1> USE DEF Accounted
  <1>0. /\ w \in Writers /\ pc[w] = "write" /\ item[w] \in batch[w]
        /\ stored' = stored /\ lost' = lost \cup batch[w]
    BY DEF ChunkRefused, Refuse, RowsLeft, AddRows, Writers, Errors, TypeOK
  <1>1. Places'
    BY <1>0 DEF ChunkRefused, Finish, TypeOK, Places, Untold, Busy
  <1>2. Apart' /\ Errors'
    BY <1>0 DEF ChunkRefused, Finish, TypeOK, Apart, Errors, Unwritten
  <1>3. Verdicts'
    BY <1>0 DEF ChunkRefused, Finish, TypeOK, Verdicts, OnItsWay
  <1>4. Ends'
    BY <1>0, WorkersAssumption DEF ChunkRefused, Finish, TypeOK, Ends, Writers, Ended
  <1>5. QED
    BY <1>1, <1>2, <1>3, <1>4

LEMMA FlushAccounted ==
  ASSUME TypeOK, Accounted, Flush
  PROVE  Accounted'
  <1> USE DEF Accounted
  <1>0. Main \in Writers /\ batch[Main] = {}
    BY DEF Flush, Gathered, Writers, Ends
  <1>1. Places'
    BY <1>0 DEF Flush, Remaining, TypeOK, Places, Untold, Busy
  <1>2. Apart' /\ Errors'
    BY <1>0 DEF Flush, Remaining, TypeOK, Apart, Errors, Unwritten, Writers
  <1>3. Verdicts'
    BY <1>0 DEF Flush, Remaining, TypeOK, Verdicts, OnItsWay
  <1>4. Ends'
    BY <1>0, WorkersAssumption DEF Flush, Gathered, Remaining, TypeOK, Ends, Writers, Ended
  <1>5. QED
    BY <1>1, <1>2, <1>3, <1>4

LEMMA ReturnAccounted ==
  ASSUME TypeOK, Accounted, Return
  PROVE  Accounted'
  <1> USE DEF Accounted
  <1>0. Main \in Writers
    BY DEF Writers
  <1>1. CASE Insert(Main)
    <2>1. Places'
      BY <1>0, <1>1 DEF Return, Insert, AddRows, TypeOK, Places, Untold, Busy
    <2>2. Apart'
      BY <1>0, <1>1 DEF Return, Insert, AddRows, TypeOK, Apart
    <2>3. Errors'
      <3>1. \A w \in Workers : w # Main /\ batch'[w] = batch[w]
        BY <1>0, WorkersAssumption DEF Return, TypeOK, Writers
      <3>2. \A i \in Items : Unwritten(i) => Unwritten(i)'
        BY <1>0, <1>1 DEF Return, Insert, AddRows, TypeOK, Unwritten
      <3>3. QED
        BY <3>1, <3>2 DEF Return, Errors
    <2>4. Verdicts'
      BY <1>0, <1>1 DEF Return, Insert, AddRows, TypeOK, Verdicts, OnItsWay, Apart
    <2>5. Ends'
      BY <1>0, <1>1, WorkersAssumption DEF Return, TypeOK, Ends, Writers
    <2>6. QED
      BY <2>1, <2>2, <2>3, <2>4, <2>5
  <1>2. CASE Refuse(Main) /\ phase' = "raised"
    <2>0. stored' = stored /\ lost' = lost \cup batch[Main]
      BY <1>0, <1>2 DEF Refuse, RowsLeft, AddRows, TypeOK
    <2>1. Places'
      BY <1>0, <1>2, <2>0 DEF Return, TypeOK, Places, Untold, Busy
    <2>2. Apart'
      BY <1>0, <1>2, <2>0 DEF Return, TypeOK, Apart
    <2>3. Errors'
      <3>1. \A w \in Workers : w # Main /\ batch'[w] = batch[w]
        BY <1>0, WorkersAssumption DEF Return, TypeOK, Writers
      <3>2. \A i \in Items : Unwritten(i) => Unwritten(i)'
        BY <1>0, <2>0 DEF Return, TypeOK, Unwritten
      <3>3. QED
        BY <3>1, <3>2 DEF Return, Errors
    <2>4. Verdicts'
      BY <1>0, <1>2, <2>0 DEF Return, TypeOK, Verdicts, OnItsWay
    <2>5. Ends'
      BY <1>0, <1>2, WorkersAssumption DEF Return, TypeOK, Ends, Writers
    <2>6. QED
      BY <2>1, <2>2, <2>3, <2>4, <2>5
  <1>3. QED
    BY <1>1, <1>2 DEF Return

LEMMA AccountedAlways == Spec => []Accounted
  <1>1. TypeOK /\ Accounted /\ [Next]_vars => Accounted'
    <2> SUFFICES ASSUME TypeOK, Accounted, [Next]_vars PROVE Accounted'
      OBVIOUS
    <2>1. ASSUME UNCHANGED work PROVE Accounted'
      BY <2>1 DEF work, Accounted, Places, Apart, Errors, Verdicts, Ends, Untold, Busy,
         Unwritten, OnItsWay
    <2>2. CASE \E p \in Paths : HashedByOthers(p)
      BY <2>1, <2>2 DEF HashedByOthers
    <2>3. CASE \E cut \in 1..Older, gone \in SUBSET referred : Prune(cut, gone)
      BY <2>1, <2>3 DEF Prune
    <2>4. CASE Terminated \/ UNCHANGED vars
      BY <2>1, <2>4 DEF Terminated, vars
    <2>5. QED
      BY <2>2, <2>3, <2>4, TakeAccounted, HashAccounted, ExceptsAccounted, AddAccounted,
         WriteAccounted, RefuseAccounted, FlushAccounted, ReturnAccounted
      DEF Next, WorkerStep
  <1>2. QED
    BY <1>1, AccountedInit, TypeCorrect, PTL DEF Spec

\* No result is written twice, whoever flushes while others add.
THEOREM NothingTwice == Spec => []StoredOnce
  <1>1. Accounted => StoredOnce
    BY DEF Accounted, Apart, StoredOnce
  <1>2. QED
    BY <1>1, AccountedAlways, PTL

\* An item that is told as an error is not in the history.
THEOREM NoErrorStored == Spec => []ErrorsNotStored
  <1>1. Accounted => ErrorsNotStored
    BY DEF Accounted, Errors, Unwritten, ErrorsNotStored
  <1>2. QED
    BY <1>1, AccountedAlways, PTL

\* When the call returns, each item has a result, and each verdict is in the history
\* but for the chunks that the database refused.
THEOREM ReturnedIsStored == Spec => []VerdictsStored
  <1>1. TypeOK /\ Accounted => VerdictsStored
    <2> SUFFICES ASSUME TypeOK, Accounted, phase = "returned", NEW i \in Items
                 PROVE  /\ result[i] # "none"
                        /\ result[i] = "verdict" => stored[i] = 1 \/ i \in lost
      BY DEF VerdictsStored
    <2>1. \A w \in Workers : pc[w] = "stopped"
      BY DEF Accounted, Ends
    <2>2. i < next
      <3>1. PICK w \in Workers : TRUE
        BY ItemsAssumption, WorkersAssumption DEF Items
      <3>2. next > NItems
        BY <2>1, <3>1 DEF Accounted, Ends
      <3>3. QED
        BY <3>2, ItemsAssumption DEF TypeOK, Items
    <2>3. buffer = {} /\ \A x \in Writers : batch[x] = {}
      BY <2>1 DEF Accounted, Ends, Writers
    <2>4. QED
      BY <2>1, <2>2, <2>3 DEF Accounted, Verdicts, OnItsWay
  <1>2. QED
    BY <1>1, AccountedAlways, TypeCorrect, PTL

----------------------------------------------------------------------------
(* The history of snapshots *)

\* Ids are given out in order, and nothing that is referred to is gone.
References ==
  /\ \A r, s \in SnapshotIds : IsNew(r) /\ r <= s => IsNew(s)
  /\ PruneKeeps

\* A row that is added is the newest of its path, and spared as that.
LEMMA AppendKeeps ==
  ASSUME TypeOK, References, NEW q \in Paths \cup {NoPath}, NEW s \in SnapshotIds, Append(q, s)
  PROVE  /\ \A r, t \in SnapshotIds : IsNew(r)' /\ r <= t => IsNew(t)'
         /\ referred' \subseteq table'
         /\ \A p \in Paths : Newest(p)' \subseteq table'
  <1>1. \A r \in SnapshotIds : r # s => pathOf'[r] = pathOf[r]
    BY DEF Append, TypeOK
  <1>2. pathOf'[s] = q /\ IsNew(s) /\ \A r \in SnapshotIds : IsNew(r) => s <= r
    BY DEF Append, TypeOK
  <1>3. \A r, t \in SnapshotIds : IsNew(r)' /\ r <= t => IsNew(t)'
    BY <1>1, <1>2, SizesAssumption DEF IsNew, References, SnapshotIds
  <1>4. \A p \in Paths : Newest(p)' \subseteq table'
    <2> SUFFICES ASSUME NEW p \in Paths, NEW t \in Newest(p)' PROVE t \in table'
      OBVIOUS
    <2>1. CASE t = s
      BY <2>1 DEF Append
    <2>2. CASE t # s
      <3>1. t \in SnapshotIds /\ pathOf[t] = p
        BY <1>1, <2>2 DEF Newest
      <3>2. \A r \in SnapshotIds : pathOf[r] = p => r <= t
        BY <1>1, <1>2, WorkersAssumption DEF Newest, IsNew
      <3>3. QED
        BY <3>1, <3>2 DEF Newest, References, PruneKeeps, Append
    <2>3. QED
      BY <2>1, <2>2
  <1>5. QED
    BY <1>3, <1>4 DEF Append, References, PruneKeeps

\* What is stored refers to rows that are there when it is stored.
LEMMA InsertRefers ==
  ASSUME TypeOK, References, NEW x \in Writers, Insert(x), UNCHANGED <<snap, history>>
  PROVE  References'
  <1>1. \A i \in Items : stored'[i] > 0 => stored[i] > 0 \/ i \in batch[x]
    BY DEF Insert, AddRows, TypeOK
  <1>2. QED
    BY <1>1 DEF Insert, CanInsert, References, PruneKeeps, IsNew, Newest, history

\* Nothing is stored, and nothing is deleted.
LEMMA RefersAsBefore ==
  ASSUME References, UNCHANGED <<stored, snap, history>>
  PROVE  References'
  BY DEF References, PruneKeeps, IsNew, Newest, history

LEMMA ReferencesAlways == Spec => []References
  <1>1. Init => References
    <2> SUFFICES ASSUME Init PROVE References
      OBVIOUS
    <2>1. \A r, s \in SnapshotIds : IsNew(r) /\ r <= s => IsNew(s)
      BY SizesAssumption DEF Init, IsNew, SnapshotIds
    <2>2. \A p \in Paths : Newest(p) \subseteq table
      BY SizesAssumption, WorkersAssumption DEF Init, Newest, SnapshotIds
    <2>3. QED
      BY <2>1, <2>2 DEF Init, References, PruneKeeps
  <1>2. TypeOK /\ Accounted /\ References /\ [Next]_vars => References'
    <2> SUFFICES ASSUME TypeOK, Accounted, References, [Next]_vars PROVE References'
      OBVIOUS
    <2>1. ASSUME NEW w \in Workers, Hash(w) PROVE References'
      <3>1. PICK s \in SnapshotIds :
              /\ \/ UNCHANGED history
                 \/ Append(PathOf[item[w]], s)
              /\ snap' = [snap EXCEPT ![item[w]] = s]
        BY <2>1 DEF Hash
      <3>2. PathOf[item[w]] \in Paths \cup {NoPath}
        BY ItemsAssumption DEF TypeOK
      <3>3. /\ \A r, t \in SnapshotIds : IsNew(r)' /\ r <= t => IsNew(t)'
            /\ referred' \subseteq table'
            /\ \A p \in Paths : Newest(p)' \subseteq table'
            /\ table \subseteq table'
        <4>1. CASE UNCHANGED history
          BY <4>1 DEF history, References, PruneKeeps, IsNew, Newest
        <4>2. CASE Append(PathOf[item[w]], s)
          BY <3>2, <4>2, AppendKeeps DEF Append
        <4>3. QED
          BY <3>1, <4>1, <4>2
      <3>4. \A i \in Items : stored'[i] > 0 => stored[i] > 0 /\ snap'[i] = snap[i]
        BY <2>1, <3>1 DEF Hash, TypeOK, Accounted, Places, Untold, Busy
      <3>5. QED
        BY <3>3, <3>4 DEF References, PruneKeeps
    <2>2. ASSUME NEW w \in Workers, WriteChunk(w) PROVE References'
      BY <2>2, InsertRefers DEF WriteChunk, Writers
    <2>3. ASSUME NEW w \in Workers, ChunkRefused(w) PROVE References'
      <3>1. stored' = stored
        BY <2>3 DEF ChunkRefused, Refuse, AddRows, RowsLeft, TypeOK
      <3>2. QED
        BY <2>3, <3>1, RefersAsBefore DEF ChunkRefused
    <2>4. CASE Return
      <3>1. CASE Insert(Main)
        BY <2>4, <3>1, InsertRefers DEF Return, Writers
      <3>2. CASE Refuse(Main)
        <4>1. stored' = stored
          BY <3>2 DEF Refuse, AddRows, RowsLeft, TypeOK
        <4>2. QED
          BY <2>4, <4>1, RefersAsBefore DEF Return
      <3>3. QED
        BY <2>4, <3>1, <3>2 DEF Return
    <2>5. ASSUME NEW p \in Paths, HashedByOthers(p) PROVE References'
      <3>1. PICK s \in SnapshotIds : Append(p, s)
        BY <2>5 DEF HashedByOthers
      <3>2. table \subseteq table' /\ UNCHANGED <<stored, snap>>
        BY <2>5, <3>1 DEF HashedByOthers, Append, work
      <3>3. QED
        BY <3>1, <3>2, AppendKeeps DEF References, PruneKeeps
    <2>6. ASSUME NEW cut \in 1..Older, NEW gone \in SUBSET referred, Prune(cut, gone)
          PROVE References'
      <3>1. UNCHANGED <<stored, snap, pathOf>>
        BY <2>6 DEF Prune, work
      <3>2. \A i \in Items : stored[i] > 0 => snap[i] \in InUse(referred')
        BY <2>6 DEF Prune, InUse, Stored
      <3>3. referred' \subseteq InUse(referred') /\ referred' \subseteq referred
        BY <2>6 DEF Prune, InUse
      <3>4. table' = table \ Prunable(cut, referred')
        BY <2>6 DEF Prune
      <3>5. QED
        BY <3>1, <3>2, <3>3, <3>4 DEF References, PruneKeeps, Prunable, IsNew, Newest
    <2>7. CASE \/ \E w \in Workers : Take(w) \/ FileError(w) \/ Look(w) \/ Excepts(w)
               \/ Flush \/ Terminated \/ UNCHANGED vars
      BY <2>7, RefersAsBefore DEF Take, FileError, Look, Excepts, Flush, Terminated, vars, work
    <2>8. QED
      BY <2>1, <2>2, <2>3, <2>4, <2>5, <2>6, <2>7 DEF Next, WorkerStep
  <1>3. QED
    BY <1>1, <1>2, TypeCorrect, AccountedAlways, PTL DEF Spec

\* prune spares what is referred to, also by what is stored while the call runs, and
\* the newest row of each path.
THEOREM PruneSpares == Spec => []PruneKeeps
  <1>1. References => PruneKeeps
    BY DEF References
  <1>2. QED
    BY <1>1, ReferencesAlways, PTL
=============================================================================
