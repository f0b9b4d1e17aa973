--------------------------- MODULE CdxCacheProofs ---------------------------
(***************************************************************************)
(* What an answer of the cache stands for, for any captures, selections,   *)
(* lookups, limits and lifetimes: which rows the rows of a query cover,    *)
(* and that the capture select_capture picks from them is as good as any   *)
(* row that they cover.                                                    *)
(***************************************************************************)
EXTENDS CdxCache, FiniteSetTheorems, WellFoundedInduction, TLAPS

\* A row counts as answered by what a query returned: it is there, or as many rows as the
\* query asks for are there instead, each at least as near to where the query begins.
Covered(k, S, r) ==
  \/ r \in S
  \/ /\ k.limit # 0
     /\ \E Q \in SUBSET (S \ {r}) :
          /\ Q \subseteq InRange(k, Rows) /\ Cardinality(Q) = Limit
          /\ \A q \in Q : IF k.limit > 0 THEN q.timestamp <= r.timestamp
                                         ELSE q.timestamp >= r.timestamp

\* What the rows S lack of a query, the index listed when the entry in the log was on its way.
EntryCovered(k, S) ==
  queries[k] # NoEntry =>
    /\ queries[k].count # 0 => S # {}
    /\ \A r \in InRange(k, Rows) :
         listedAt[r] + Latency < queries[k].at => Covered(k, S, r)

CacheInv ==
  /\ \A k \in Keys : /\ queries[k].at <= now
                     /\ queries[k] # NoEntry => queries[k].count # -1
  /\ \A k \in Keys : EntryCovered(k, captures_for(k))

\* Rows that an answer is not to miss
Due(c, r) ==
  \/ r \in owed[c]
  \/ origin[c] \subseteq {"index"} /\ listedAt[r] < began[c]
  \/ c \in quiet /\ ~Immutable(c) /\ listedAt[r] + LongestTtl + Latency < began[c]

Age(c) == IF Immutable(c) THEN 0 ELSE NoCaptureTtl + Latency

\* A query that a lookup is through with
Told(c, k) ==
  \A r \in InRange(k, Rows) :
    /\ Due(c, r) => Covered(k, rows[c], r)
    /\ rows[c] = {} /\ (c \in quiet \/ Immutable(c)) => listedAt[r] + Age(c) >= began[c]

Past(c) == {j \in DOMAIN QueriesOf(sel[c]) : j < part[c] \/ pc[c] = "done"}

\* The rows it read stand for the rows it is owed, and for the entry in the log as long as
\* this entry is the one it will read.
LogInv(c) ==
  /\ \A r \in owed[c] : r \in InRange(Key(c), Rows) => r \in seen[c]
  /\ c \in quiet => EntryCovered(Key(c), seen[c])

StoreInv(c) ==
  /\ began[c] <= asked[c] /\ now <= asked[c] + Latency
  /\ seen[c] \subseteq InRange(Key(c), Rows)
  /\ \A r \in InRange(Key(c), Rows) :
       r \in owed[c] \/ listedAt[r] < asked[c] => Covered(Key(c), seen[c], r)

LookupInv(c) ==
  /\ asked[c] <= now /\ began[c] <= now
  /\ seen[c] \subseteq Listed /\ rows[c] \subseteq Listed /\ owed[c] \subseteq captures
  /\ pc[c] = "log" => LogInv(c)
  /\ pc[c] = "store" => StoreInv(c)
  /\ \A j \in Past(c) : Told(c, QueriesOf(sel[c])[j])
  /\ pc[c] = "done" => answer[c] \in select_capture(rows[c], sel[c])

IInv ==
  /\ TypeOK /\ part \in [Lookups -> Nat]
  /\ CacheInv
  /\ \A c \in Lookups : LookupInv(c)

----------------------------------------------------------------------------
(* The order of min()'s key *)

LEMMA SelectionTyped ==
  ASSUME NEW s \in Selections
  PROVE  /\ s.policy \in Policies
         /\ s.policy = "latest" => s.timestamp = 0
         /\ s.policy # "latest" => s.timestamp \in Nat /\ s.timestamp # 0
BY SelectionsAssumption DEF Timestamps

LEMMA RowTyped ==
  ASSUME NEW r \in Rows
  PROVE  r.timestamp \in Nat /\ r.timestamp # 0 /\ r # NoRow
BY RowsAssumption DEF Timestamps

LEMMA RankTyped == ASSUME NEW r PROVE Rank(r) \in Nat
<1>1. Match(r) \in {"exact", "normalized", "scheme_differs", "different"}
  BY DEF Match, compare_urls
<1> QED
  BY <1>1 DEF Rank, MatchRank

LEMMA DistanceTyped == ASSUME NEW s \in Selections, NEW r \in Rows PROVE Distance(s, r) \in Int
<1>1. s.policy # "latest" => s.timestamp \in Int
  BY SelectionTyped
<1>2. r.timestamp \in Int
  BY RowTyped
<1>3. s.policy \in Policies
  BY SelectionTyped
<1> QED
  BY <1>1, <1>2, <1>3 DEF Distance, Policies

\* The last part of the key
Last(s, r) ==
  CASE s.policy = "exact"   -> IF Ok(r) THEN 0 ELSE 1
    [] s.policy = "nearest" -> r.timestamp
    [] s.policy \notin {"exact", "nearest"} -> 0

LEMMA LastTyped == ASSUME NEW s, NEW r \in Rows PROVE Last(s, r) \in Int
BY RowTyped DEF Last

LEMMA BetterByKey ==
  ASSUME NEW s \in Selections, NEW a \in Rows, NEW b \in Rows
  PROVE  Better(s, a, b) <=>
           \/ Distance(s, a) < Distance(s, b)
           \/ /\ Distance(s, a) = Distance(s, b)
              /\ \/ Rank(a) < Rank(b)
                 \/ Rank(a) = Rank(b) /\ Last(s, a) < Last(s, b)
<1>1. (\/ s.policy = "exact" /\ Ok(a) /\ ~Ok(b)
       \/ s.policy = "nearest" /\ a.timestamp < b.timestamp) <=> Last(s, a) < Last(s, b)
  BY RowTyped DEF Last
<1> QED
  BY <1>1 DEF Better

LEMMA BetterIrreflexive == ASSUME NEW s \in Selections, NEW a \in Rows PROVE ~Better(s, a, a)
BY BetterByKey, DistanceTyped, RankTyped, LastTyped

LEMMA BetterTransitive ==
  ASSUME NEW s \in Selections, NEW a \in Rows, NEW b \in Rows, NEW d \in Rows,
         Better(s, a, b), Better(s, b, d)
  PROVE  Better(s, a, d)
<1>1. /\ Distance(s, a) \in Int /\ Distance(s, b) \in Int /\ Distance(s, d) \in Int
      /\ Rank(a) \in Int /\ Rank(b) \in Int /\ Rank(d) \in Int
      /\ Last(s, a) \in Int /\ Last(s, b) \in Int /\ Last(s, d) \in Int
  BY DistanceTyped, RankTyped, LastTyped
<1> QED
  BY <1>1, BetterByKey

\* What is no better than b is no better than what b is no better than.
LEMMA NotBetterTransitive ==
  ASSUME NEW s \in Selections, NEW a \in Rows, NEW b \in Rows, NEW d \in Rows,
         ~Better(s, a, b), ~Better(s, b, d)
  PROVE  ~Better(s, a, d)
<1>1. /\ Distance(s, a) \in Int /\ Distance(s, b) \in Int /\ Distance(s, d) \in Int
      /\ Rank(a) \in Int /\ Rank(b) \in Int /\ Rank(d) \in Int
      /\ Last(s, a) \in Int /\ Last(s, b) \in Int /\ Last(s, d) \in Int
  BY DistanceTyped, RankTyped, LastTyped
<1> QED
  BY <1>1, BetterByKey

\* A finite pool has a best row, for the rows that beat a row are fewer for a better one.
LEMMA BestExists ==
  ASSUME NEW s \in Selections, NEW P \in SUBSET Rows, P # {}
  PROVE  \E r \in P : \A q \in P : ~Better(s, q, r)
<1> DEFINE Beaters(r) == {q \in P : Better(s, q, r)}
           T == {Beaters(r) : r \in P}
           R == StrictSubsetOrdering(P)
<1>1. IsFiniteSet(P)
  BY RowsAssumption, FS_Subset
<1>2. IsWellFoundedOn(R, SUBSET P)
  BY <1>1, FS_FiniteSubsetsOfFinite, FS_StrictSubsetOrderingWellFounded
<1>3. T \subseteq SUBSET P /\ T # {}
  OBVIOUS
<1>4. \E x \in T : \A y \in T : ~(<<y, x>> \in R)
  <2> HIDE DEF T, R
  <2> QED
    BY <1>2, <1>3, WFMin
<1>5. PICK r \in P : \A q \in P : ~(<<Beaters(q), Beaters(r)>> \in R)
  BY <1>4
<1>6. ASSUME NEW q \in P, Better(s, q, r) PROVE FALSE
  <2>1. Beaters(q) \subseteq Beaters(r)
    BY <1>6, BetterTransitive
  <2>2. q \in Beaters(r) /\ q \notin Beaters(q)
    BY <1>6, BetterIrreflexive
  <2> QED
    BY <1>5, <2>1, <2>2 DEF StrictSubsetOrdering
<1> QED
  BY <1>6

\* select_capture returns a row of the pool that no other one is better than.
LEMMA SelectsTheBest ==
  ASSUME NEW s \in Selections, NEW S \in SUBSET Rows, NEW a \in select_capture(S, s)
  PROVE  /\ a \in Rows \cup {NoRow}
         /\ \A r \in Pool(s, S) : a \in Rows /\ a # NoRow /\ ~Better(s, r, a)
<1>1. Pool(s, S) \in SUBSET Rows
  BY DEF Pool
<1>2. CASE Pool(s, S) = {}
  <2>1. a = NoRow
    BY <1>2 DEF select_capture
  <2> QED
    BY <1>2, <2>1
<1>3. CASE Pool(s, S) # {}
  <2>1. \E r \in Pool(s, S) : \A q \in Pool(s, S) : ~Better(s, q, r)
    BY <1>1, <1>3, BestExists
  <2>2. a \in Pool(s, S) /\ \A q \in Pool(s, S) : ~Better(s, q, a)
    BY <2>1 DEF select_capture
  <2> QED
    BY <1>1, <2>2, RowTyped
<1> QED
  BY <1>2, <1>3

----------------------------------------------------------------------------
(* The queries of a selection, and what their rows cover *)

LEMMA QueryTyped ==
  ASSUME NEW s \in Selections, NEW j \in DOMAIN QueriesOf(s)
  PROVE  /\ QueriesOf(s)[j] \in Keys
         /\ j \in {1, 2} /\ Len(QueriesOf(s)) \in {1, 2}
         /\ DOMAIN QueriesOf(s) = 1..Len(QueriesOf(s)) /\ 1 \in DOMAIN QueriesOf(s)
<1>1. QueriesOf(s)[j] \in Keys
  BY DEF Keys
<1>2. s.policy \in Policies
  BY SelectionTyped
<1>3. (\E q : QueriesOf(s) = <<q>>) \/ (\E q, p : QueriesOf(s) = <<q, p>>)
  BY <1>2 DEF QueriesOf, Policies
<1> QED
  BY <1>1, <1>3

LEMMA FirstQuery == ASSUME NEW s \in Selections PROVE 1 \in DOMAIN QueriesOf(s)
<1>1. s.policy \in Policies
  BY SelectionTyped
<1>2. (\E q : QueriesOf(s) = <<q>>) \/ (\E q, p : QueriesOf(s) = <<q, p>>)
  BY <1>1 DEF QueriesOf, Policies
<1> QED
  BY <1>2

\* An exact selection asks for all rows of its second, any other one for Limit rows.
LEMMA QueryLimit ==
  ASSUME NEW s \in Selections, NEW j \in DOMAIN QueriesOf(s)
  PROVE  /\ s.policy = "exact" => QueriesOf(s)[j].limit = 0
         /\ s.policy # "exact" => /\ QueriesOf(s)[j].limit \in {Limit, -Limit}
                                  /\ QueriesOf(s)[j].limit # 0
                                  /\ Size(QueriesOf(s)[j]) = Limit
<1>1. s.policy \in Policies /\ Limit \in Nat /\ Limit # 0
  BY SelectionTyped, LimitAssumption
<1>2. After(s).limit = Limit /\ Before(s).limit = -Limit
  BY DEF After, Before
<1>3. ASSUME s.policy # "exact"
      PROVE  QueriesOf(s)[j] \in {After(s), Before(s)}
  BY <1>1, <1>3 DEF QueriesOf, Policies
<1>4. s.policy = "exact" => QueriesOf(s)[j].limit = 0
  BY DEF QueriesOf
<1>5. ASSUME s.policy # "exact" PROVE QueriesOf(s)[j].limit \in {Limit, -Limit}
  BY <1>2, <1>3, <1>5
<1> QED
  BY <1>1, <1>4, <1>5 DEF Size

LEMMA KeyLimit ==
  ASSUME NEW k \in Keys PROVE k.limit = 0 \/ (k.limit # 0 /\ Size(k) = Limit)
<1>1. PICK s \in Selections : \E j \in DOMAIN QueriesOf(s) : k = QueriesOf(s)[j]
  BY DEF Keys
<1> QED
  BY <1>1, QueryLimit

\* What may be selected, one of the queries asks for.
LEMMA PoolInRange ==
  ASSUME NEW s \in Selections, NEW r \in Pool(s, Rows)
  PROVE  \E j \in DOMAIN QueriesOf(s) : r \in InRange(QueriesOf(s)[j], Rows)
<1>1. s.policy \in Policies /\ r \in Rows /\ r.timestamp \in Nat
  BY SelectionTyped, RowTyped DEF Pool
<1>2. CASE s.policy = "exact"
  BY <1>1, <1>2, SelectionTyped DEF QueriesOf, InRange, Pool
<1>3. CASE s.policy = "first_after"
  BY <1>1, <1>3, SelectionTyped DEF QueriesOf, InRange, Pool, After
<1>4. CASE s.policy = "last_before"
  BY <1>1, <1>4, SelectionTyped DEF QueriesOf, InRange, Pool, Before
<1>5. CASE s.policy = "latest"
  BY <1>1, <1>5, SelectionTyped DEF QueriesOf, InRange, Pool, Before
<1>6. CASE s.policy = "nearest"
  <2>1. s.timestamp \in Nat /\ DOMAIN QueriesOf(s) = {1, 2}
    BY <1>6, SelectionTyped DEF QueriesOf
  <2>2. CASE r.timestamp >= s.timestamp
    BY <1>1, <1>6, <2>1, <2>2 DEF QueriesOf, InRange, After
  <2>3. CASE r.timestamp <= s.timestamp
    <3>1. r \in InRange(QueriesOf(s)[2], Rows)
      BY <1>1, <1>6, <2>1, <2>3 DEF QueriesOf, InRange, Before
    <3> QED
      BY <2>1, <3>1
  <2> QED
    BY <1>1, <2>1, <2>2, <2>3
<1> QED
  BY <1>1, <1>2, <1>3, <1>4, <1>5, <1>6 DEF Policies

LEMMA CoverGrows ==
  ASSUME NEW k, NEW S, NEW T, NEW r, Covered(k, S, r), S \subseteq T
  PROVE  Covered(k, T, r)
BY DEF Covered

LEMMA CoverInRange ==
  ASSUME NEW k, NEW S \in SUBSET Rows, NEW r \in InRange(k, Rows), Covered(k, S, r)
  PROVE  Covered(k, InRange(k, S), r)
<1>1. CASE r \in S
  BY <1>1 DEF Covered, InRange
<1>2. CASE r \notin S
  <2>1. PICK Q \in SUBSET (S \ {r}) :
          /\ Q \subseteq InRange(k, Rows) /\ Cardinality(Q) = Limit
          /\ \A q \in Q : IF k.limit > 0 THEN q.timestamp <= r.timestamp
                                         ELSE q.timestamp >= r.timestamp
    BY <1>2 DEF Covered
  <2>2. Q \in SUBSET (InRange(k, S) \ {r}) /\ k.limit # 0
    BY <1>2, <2>1 DEF InRange, Covered
  <2> QED
    BY <2>1, <2>2 DEF Covered
<1> QED
  BY <1>1, <1>2

LEMMA NothingCoversNothing ==
  ASSUME NEW k, NEW S, NEW r, Covered(k, S, r) PROVE S # {}
<1>1. ASSUME NEW Q \in SUBSET {}, Cardinality(Q) = Limit PROVE FALSE
  <2>1. Q = {} /\ Cardinality({}) = 0
    BY FS_EmptySet
  <2> QED
    BY <1>1, <2>1, LimitAssumption
<1>2. ASSUME S = {} PROVE FALSE
  <2>1. PICK Q \in SUBSET ({} \ {r}) : Cardinality(Q) = Limit
    BY <1>2 DEF Covered
  <2> QED
    BY <1>1, <2>1
<1> QED
  BY <1>2

\* Of all the rows of its range, the index leaves out those that others cover.
LEMMA AnswersCover ==
  ASSUME NEW k \in Keys, NEW Q \in Answers(k)
  PROVE  /\ Q \subseteq InRange(k, Rows) /\ Q \subseteq Listed
         /\ \A r \in InRange(k, Rows) : r \in Listed => Covered(k, Q, r)
<1>1. Q \subseteq InRange(k, Listed) /\ Listed \subseteq Rows
  BY DEF Answers, Listed
<1>2. Q \subseteq InRange(k, Rows) /\ Q \subseteq Listed
  BY <1>1 DEF InRange
<1>3. ASSUME NEW r \in InRange(k, Rows), r \in Listed, r \notin Q PROVE Covered(k, Q, r)
  <2>1. r \in InRange(k, Listed)
    BY <1>3 DEF InRange
  <2>2. /\ k.limit # 0 /\ Cardinality(Q) = Size(k)
        /\ \A q \in Q : IF k.limit > 0 THEN q.timestamp <= r.timestamp
                                       ELSE q.timestamp >= r.timestamp
    BY <1>3, <2>1 DEF Answers
  <2>3. Size(k) = Limit /\ Q \in SUBSET (Q \ {r})
    BY <1>3, <2>2, KeyLimit
  <2> QED
    BY <1>2, <2>2, <2>3 DEF Covered
<1> QED
  BY <1>2, <1>3 DEF Covered

\* A row that the rows of a selection's queries cover is taken, or a row no worse, or it is
\* crowded out by rows that are no better an answer.
LEMMA CoveredIsNotMissed ==
  ASSUME NEW s \in Selections, NEW S \in SUBSET Listed, NEW a \in select_capture(S, s),
         NEW r \in Pool(s, Rows), ~Crowded(s, r),
         NEW j \in DOMAIN QueriesOf(s), r \in InRange(QueriesOf(s)[j], Rows),
         Covered(QueriesOf(s)[j], S, r)
  PROVE  a # NoRow /\ ~Better(s, r, a)
<1> DEFINE k == QueriesOf(s)[j]
<1>1. S \in SUBSET Rows /\ r \in Rows
  BY DEF Listed, Pool
<1>2. CASE r \in S
  <2>1. r \in Pool(s, S)
    BY <1>2 DEF Pool
  <2> QED
    BY <1>1, <2>1, SelectsTheBest
<1>3. CASE r \notin S
  <2>1. k.limit # 0
    BY <1>3 DEF Covered
  <2>2. PICK Q \in SUBSET (S \ {r}) :
          /\ Q \subseteq InRange(k, Rows) /\ Cardinality(Q) = Limit
          /\ \A q \in Q : IF k.limit > 0 THEN q.timestamp <= r.timestamp
                                         ELSE q.timestamp >= r.timestamp
    BY <1>3 DEF Covered
  <2>3. s.policy # "exact" /\ s.policy \in Policies
    BY <2>1, QueryLimit, SelectionTyped
  <2>4. ~(Q \subseteq Crowd(s, r))
    <3>1. IsFiniteSet(Crowd(s, r))
      <4>1. Crowd(s, r) \subseteq Rows
        BY DEF Crowd, Listed
      <4> QED
        BY <4>1, RowsAssumption, FS_Subset
    <3>2. Q \subseteq Crowd(s, r) => Cardinality(Q) <= Cardinality(Crowd(s, r))
      BY <3>1, FS_Subset
    <3>3. ~(Cardinality(Crowd(s, r)) >= Limit)
      BY <2>3 DEF Crowded
    <3> QED
      BY <2>2, <3>1, <3>2, <3>3, FS_CardinalityType, LimitAssumption
  <2>5. PICK q \in Q : q \notin Crowd(s, r)
    BY <2>4
  <2>6. /\ q \in Rows /\ q \in S /\ q \in Listed /\ q # r /\ q \in InRange(k, Rows)
        /\ q.timestamp \in Nat /\ r.timestamp \in Nat
    BY <1>1, <2>2, RowTyped
  <2>7. \/ /\ s.policy \in {"first_after", "nearest"}
           /\ s.timestamp <= q.timestamp /\ q.timestamp <= r.timestamp
        \/ /\ s.policy \in {"last_before", "nearest"}
           /\ r.timestamp <= q.timestamp /\ q.timestamp <= s.timestamp
        \/ s.policy = "latest" /\ r.timestamp <= q.timestamp
    <3>1. Limit \in Nat /\ Limit > 0
      BY LimitAssumption
    <3>2. CASE k = After(s) /\ s.policy \in {"first_after", "nearest"}
      <4>1. k.limit > 0 /\ k.from = s.timestamp /\ s.timestamp \in Nat /\ s.timestamp # 0
        BY <3>1, <3>2, SelectionTyped DEF After
      <4>2. q.timestamp <= r.timestamp
        BY <2>2, <4>1
      <4>3. q.timestamp >= s.timestamp
        BY <2>6, <4>1 DEF InRange
      <4> QED
        BY <2>6, <3>2, <4>1, <4>2, <4>3
    <3>3. CASE k = Before(s) /\ s.policy \in {"last_before", "nearest", "latest"}
      <4>1. ~(k.limit > 0) /\ k.to = s.timestamp
        BY <3>1, <3>3 DEF Before
      <4>2. q.timestamp >= r.timestamp
        BY <2>2, <4>1
      <4>3. s.policy # "latest" => q.timestamp <= s.timestamp
        BY <2>6, <3>3, <4>1, SelectionTyped DEF InRange
      <4> QED
        BY <2>6, <3>3, <4>2, <4>3
    <3>4. \/ k = After(s) /\ s.policy \in {"first_after", "nearest"}
          \/ k = Before(s) /\ s.policy \in {"last_before", "nearest", "latest"}
      BY <2>3 DEF QueriesOf, Policies
    <3> QED
      BY <3>2, <3>3, <3>4
  <2>8. q \in Pool(s, Rows) /\ ~Better(s, r, q)
    BY <2>5, <2>6, <2>7 DEF Crowd
  <2>9. q \in Pool(s, S)
    BY <2>6, <2>8 DEF Pool
  <2>10. a \in Rows /\ a # NoRow /\ ~Better(s, q, a)
    BY <1>1, <2>9, SelectsTheBest
  <2> QED
    BY <1>1, <2>6, <2>8, <2>10, NotBetterTransitive
<1> QED
  BY <1>2, <1>3

----------------------------------------------------------------------------
(* What time and other lookups leave alone *)

\* The index lists a row now or not at all, and the cache only grows.
Onward ==
  /\ now <= now' /\ captures \subseteq captures' /\ Listed \subseteq Listed'
  /\ \A r \in Rows : listedAt'[r] = listedAt[r] \/ listedAt'[r] = now

\* A lookup that takes no step
Same(d) ==
  /\ pc'[d] = pc[d] /\ sel'[d] = sel[d] /\ part'[d] = part[d] /\ seen'[d] = seen[d]
  /\ asked'[d] = asked[d] /\ rows'[d] = rows[d] /\ origin'[d] = origin[d]
  /\ answer'[d] = answer[d] /\ began'[d] = began[d] /\ owed'[d] = owed[d]

LEMMA TimesTyped ==
  ASSUME TypeOK
  PROVE  /\ now \in Nat /\ CdxTtl \in Nat /\ NoCaptureTtl \in Nat /\ Latency \in Nat
         /\ LongestTtl \in Nat /\ CdxTtl <= LongestTtl /\ NoCaptureTtl <= LongestTtl
         /\ MaxTime \in Nat /\ now <= MaxTime
         /\ \A r \in Rows : listedAt[r] \in Nat
         /\ \A c \in Lookups : asked[c] \in Nat /\ began[c] \in Nat
         /\ \A k \in Keys : queries[k].at \in Nat /\ queries[k].count \in Int
<1>1. Unlisted \in Nat /\ MaxTime \in Nat
  BY TimesAssumption DEF Unlisted
<1>2. \A r \in Rows : listedAt[r] \in Nat
  BY <1>1 DEF TypeOK
<1>3. \A k \in Keys : queries[k].at \in Nat /\ queries[k].count \in Int
  <2>1. IsFiniteSet(Rows) /\ Cardinality(Rows) \in Nat
    BY RowsAssumption, FS_CardinalityType
  <2>2. \A k \in Keys : queries[k] \in [at : 0..MaxTime, count : -1..Cardinality(Rows)]
    BY DEF TypeOK
  <2> QED
    BY <1>1, <2>1, <2>2
<1> QED
  BY <1>1, <1>2, <1>3, TimesAssumption DEF TypeOK, LongestTtl

LEMMA LookupTyped ==
  ASSUME TypeOK, NEW c \in Lookups
  PROVE  /\ sel[c] \in Selections /\ part[c] \in DOMAIN QueriesOf(sel[c])
         /\ Key(c) \in Keys /\ Key(c) = QueriesOf(sel[c])[part[c]]
         /\ Age(c) \in Nat
<1>1. sel[c] \in Selections /\ part[c] \in DOMAIN QueriesOf(sel[c])
  BY DEF TypeOK
<1> QED
  BY <1>1, QueryTyped, TimesAssumption DEF Key, Age

\* What was listed before some time in the past was already listed then.
LEMMA ListedEarlier ==
  ASSUME TypeOK, Onward, NEW r \in Rows, NEW n \in Nat, NEW t \in Nat, t <= now,
         listedAt'[r] + n < t
  PROVE  listedAt[r] + n < t
<1>1. now \in Nat /\ listedAt[r] \in Nat
  BY TimesTyped
<1>2. listedAt'[r] = listedAt[r] \/ listedAt'[r] = now
  BY DEF Onward
<1> QED
  BY <1>1, <1>2

LEMMA DueStays ==
  ASSUME TypeOK, Onward, NEW c \in Lookups, NEW r \in Rows, began[c] <= now,
         origin[c] \subseteq origin'[c], c \in quiet' => c \in quiet,
         sel'[c] = sel[c], began'[c] = began[c], owed'[c] = owed[c], Due(c, r)'
  PROVE  Due(c, r)
<1>1. /\ began[c] \in Nat /\ LongestTtl \in Nat /\ Latency \in Nat /\ LongestTtl + Latency \in Nat
      /\ listedAt[r] \in Nat
  BY TimesTyped
<1>2. PICK t \in Nat : t = began[c] /\ t <= now
  BY <1>1
<1>3. CASE r \in owed'[c]
  BY <1>3 DEF Due
<1>4. CASE origin'[c] \subseteq {"index"} /\ listedAt'[r] < began'[c]
  <2>0. listedAt'[r] \in Nat
    BY <1>1, TimesTyped DEF Onward
  <2>1. listedAt'[r] + 0 < t
    BY <1>1, <1>2, <1>4, <2>0
  <2>2. listedAt[r] + 0 < t
    BY <1>2, <2>1, ListedEarlier
  <2> QED
    BY <1>1, <1>2, <1>4, <2>2 DEF Due
<1>5. CASE c \in quiet' /\ ~Immutable(c)' /\ listedAt'[r] + LongestTtl + Latency < began'[c]
  <2>1. listedAt'[r] \in Nat
    BY <1>1, TimesTyped DEF Onward
  <2>2. listedAt'[r] + (LongestTtl + Latency) < t
    BY <1>1, <1>2, <1>5, <2>1
  <2>3. listedAt[r] + (LongestTtl + Latency) < t
    BY <1>1, <1>2, <2>2, ListedEarlier
  <2>4. listedAt[r] + LongestTtl + Latency < began[c]
    BY <1>1, <1>2, <2>3
  <2> QED
    BY <1>5, <2>4 DEF Due, Immutable
<1> QED
  BY <1>3, <1>4, <1>5 DEF Due

LEMMA ToldStays ==
  ASSUME TypeOK, Onward, NEW c \in Lookups, began[c] <= now, NEW k, Told(c, k),
         rows[c] \subseteq rows'[c], origin[c] \subseteq origin'[c],
         c \in quiet' => c \in quiet,
         sel'[c] = sel[c], began'[c] = began[c], owed'[c] = owed[c]
  PROVE  Told(c, k)'
<1> SUFFICES ASSUME NEW r \in InRange(k, Rows)
             PROVE  /\ Due(c, r)' => Covered(k, rows'[c], r)
                    /\ rows'[c] = {} /\ (c \in quiet' \/ Immutable(c)')
                         => listedAt'[r] + Age(c)' >= began'[c]
  BY DEF Told, Covered
<1>1. r \in Rows
  BY DEF InRange
<1>2. Due(c, r)' => Covered(k, rows'[c], r)
  BY <1>1, DueStays, CoverGrows DEF Told
<1>3. ASSUME rows'[c] = {}, c \in quiet' \/ Immutable(c)'
      PROVE  listedAt'[r] + Age(c)' >= began'[c]
  <2>1. listedAt[r] + Age(c) >= began[c]
    BY <1>3 DEF Told, Immutable
  <2>2. /\ Age(c)' = Age(c) /\ Age(c) \in Nat /\ listedAt[r] \in Nat /\ began[c] \in Nat
        /\ now \in Nat
    BY <1>1, TimesTyped, LookupTyped DEF Age, Immutable
  <2> QED
    BY <1>1, <2>1, <2>2 DEF Onward
<1> QED
  BY <1>2, <1>3

LEMMA EntryStays ==
  ASSUME TypeOK, CacheInv, Onward, NEW k \in Keys, NEW S, NEW T, EntryCovered(k, S),
         S \subseteq T, queries'[k] = queries[k]
  PROVE  EntryCovered(k, T)'
<1> SUFFICES ASSUME queries[k] # NoEntry
             PROVE  /\ queries[k].count # 0 => T # {}
                    /\ \A r \in InRange(k, Rows) :
                         listedAt'[r] + Latency < queries[k].at => Covered(k, T, r)
  BY DEF EntryCovered, Covered
<1>1. PICK t \in Nat : t = queries[k].at /\ t <= now
  BY TimesTyped DEF CacheInv
<1>2. ASSUME NEW r \in InRange(k, Rows), listedAt'[r] + Latency < t PROVE Covered(k, T, r)
  <2>1. r \in Rows /\ Latency \in Nat
    BY TimesAssumption DEF InRange
  <2>2. listedAt[r] + Latency < t
    BY <1>1, <1>2, <2>1, ListedEarlier
  <2> QED
    BY <1>1, <2>2, CoverGrows DEF EntryCovered
<1> QED
  BY <1>1, <1>2 DEF EntryCovered

LEMMA CacheStays ==
  ASSUME TypeOK, CacheInv, Onward, now' \in Nat, queries' = queries
  PROVE  CacheInv'
<1>1. ASSUME NEW k \in Keys PROVE EntryCovered(k, captures_for(k))'
  <2>1. PICK S : S = captures_for(k)
    OBVIOUS
  <2>2. PICK T : T = captures_for(k)'
    OBVIOUS
  <2>3. S \subseteq T
    BY <2>1, <2>2 DEF captures_for, InRange, Onward
  <2>4. EntryCovered(k, T)'
    BY <2>1, <2>3, EntryStays DEF CacheInv
  <2> QED
    BY <2>2, <2>4 DEF EntryCovered, Covered
<1>2. ASSUME NEW k \in Keys
      PROVE  queries'[k].at <= now' /\ (queries'[k] # NoEntry => queries'[k].count # -1)
  BY <1>2, TimesTyped DEF CacheInv, Onward
<1> QED
  BY <1>1, <1>2 DEF CacheInv

LEMMA LookupStays ==
  ASSUME IInv, Onward, now' \in Nat, NEW d \in Lookups, Same(d), d \in quiet' => d \in quiet,
         pc[d] = "store" => now' <= asked[d] + Latency,
         pc[d] = "log" /\ d \in quiet' => queries'[Key(d)] = queries[Key(d)]
  PROVE  LookupInv(d)'
<1>1. TypeOK /\ CacheInv /\ LookupInv(d)
  BY DEF IInv
<1>2. now \in Nat /\ asked[d] \in Nat /\ began[d] \in Nat /\ Latency \in Nat
  BY <1>1, TimesTyped
<1>3. asked'[d] <= now' /\ began'[d] <= now'
  BY <1>1, <1>2 DEF LookupInv, Onward, Same
<1>4. seen'[d] \subseteq Listed' /\ rows'[d] \subseteq Listed' /\ owed'[d] \subseteq captures'
  BY <1>1 DEF LookupInv, Onward, Same
<1>5. PICK k \in Keys : k = Key(d) /\ k = Key(d)'
  BY <1>1, LookupTyped DEF Key, Same
<1>6. PICK S : S = seen[d] /\ S = seen'[d]
  BY DEF Same
<1>7. ASSUME pc'[d] = "log" PROVE LogInv(d)'
  <2>1. \A r \in owed'[d] : r \in InRange(k, Rows) => r \in S
    BY <1>1, <1>5, <1>6, <1>7 DEF LookupInv, LogInv, Same
  <2>2. ASSUME d \in quiet' PROVE EntryCovered(k, S)'
    <3>1. EntryCovered(k, S) /\ queries'[k] = queries[k]
      BY <1>1, <1>5, <1>6, <1>7, <2>2 DEF LookupInv, LogInv, Same
    <3> QED
      BY <1>1, <3>1, EntryStays
  <2> QED
    BY <1>5, <1>6, <2>1, <2>2 DEF LogInv, EntryCovered, Covered
<1>8. ASSUME pc'[d] = "store" PROVE StoreInv(d)'
  <2>1. StoreInv(d)
    BY <1>1, <1>8 DEF LookupInv, Same
  <2>2. began'[d] <= asked'[d] /\ now' <= asked'[d] + Latency
    BY <1>8, <2>1 DEF StoreInv, Same
  <2>3. S \subseteq InRange(k, Rows)
    BY <1>5, <1>6, <2>1 DEF StoreInv
  <2>4. ASSUME NEW r \in InRange(k, Rows), r \in owed'[d] \/ listedAt'[r] < asked'[d]
        PROVE  Covered(k, S, r)
    <3>1. r \in Rows
      BY DEF InRange
    <3>2. PICK t \in Nat : t = asked[d] /\ t <= now
      BY <1>1, <1>2 DEF LookupInv
    <3>3. listedAt'[r] < asked'[d] => listedAt[r] < asked[d]
      <4>1. listedAt'[r] \in Nat /\ listedAt[r] \in Nat
        BY <1>1, <1>2, <3>1, TimesTyped DEF Onward
      <4>2. listedAt'[r] + 0 < t => listedAt[r] + 0 < t
        BY <1>1, <3>1, <3>2, ListedEarlier
      <4> QED
        BY <3>2, <4>1, <4>2 DEF Same
    <3> QED
      BY <1>5, <1>6, <2>1, <2>4, <3>3 DEF StoreInv, Same
  <2> QED
    BY <1>5, <1>6, <2>2, <2>3, <2>4 DEF StoreInv, Covered
<1>9. ASSUME NEW j \in Past(d)' PROVE Told(d, QueriesOf(sel[d])[j])'
  <2>1. j \in Past(d)
    BY <1>9 DEF Past, Same
  <2>2. PICK q : q = QueriesOf(sel[d])[j] /\ q = QueriesOf(sel'[d])[j]
    BY DEF Same
  <2>3. Told(d, q) /\ began[d] <= now
    BY <1>1, <2>1, <2>2 DEF LookupInv
  <2>4. Told(d, q)'
    BY <1>1, <2>3, ToldStays DEF Same
  <2> QED
    BY <2>2, <2>4 DEF Told, Covered
<1>10. pc'[d] = "done" => answer'[d] \in select_capture(rows'[d], sel'[d])
  BY <1>1 DEF LookupInv, Same
<1> QED
  BY <1>3, <1>4, <1>7, <1>8, <1>9, <1>10 DEF LookupInv

----------------------------------------------------------------------------
(* A query returns its rows *)

\* What the variables of one lookup may become
LEMMA ReturnsTyped ==
  ASSUME TypeOK, part \in [Lookups -> Nat], NEW c \in Lookups, NEW found \in SUBSET Rows,
         NEW from \in {"cache", "index"}, Returns(c, found, from)
  PROVE  /\ rows' \in [Lookups -> SUBSET Rows] /\ seen' \in [Lookups -> SUBSET Rows]
         /\ origin' \in [Lookups -> SUBSET {"cache", "index"}]
         /\ asked' \in [Lookups -> 0..MaxTime]
         /\ answer' \in [Lookups -> Rows \cup {NoRow}]
         /\ pc' \in [Lookups -> {"idle", "look", "log", "ask", "store", "done", "failed"}]
         /\ part' \in [Lookups -> Nat]
         /\ \A d \in Lookups : part'[d] \in DOMAIN QueriesOf(sel'[d])
<1>1. rows[c] \cup found \in SUBSET Rows /\ 0 \in 0..MaxTime
  BY TimesAssumption DEF TypeOK
<1>2. rows' \in [Lookups -> SUBSET Rows]
  BY <1>1 DEF Returns, TypeOK
<1>3. /\ seen' \in [Lookups -> SUBSET Rows] /\ asked' \in [Lookups -> 0..MaxTime]
      /\ origin' \in [Lookups -> SUBSET {"cache", "index"}]
  BY <1>1 DEF Returns, TypeOK
<1>4. answer' \in [Lookups -> Rows \cup {NoRow}]
  <2>1. \A r \in select_capture(rows[c] \cup found, sel[c]) : r \in Rows \cup {NoRow}
    BY <1>1, LookupTyped, SelectsTheBest
  <2> QED
    BY <2>1 DEF Returns, TypeOK
<1>5. pc' \in [Lookups -> {"idle", "look", "log", "ask", "store", "done", "failed"}]
  BY DEF Returns, TypeOK
<1>6. /\ part' \in [Lookups -> Nat]
      /\ \A d \in Lookups : part'[d] \in DOMAIN QueriesOf(sel'[d])
  <2>1. /\ part[c] \in Nat /\ part[c] \in DOMAIN QueriesOf(sel[c]) /\ sel[c] \in Selections
        /\ \A d \in Lookups : part[d] \in DOMAIN QueriesOf(sel[d])
        /\ sel' = sel
    BY LookupTyped DEF TypeOK, Returns
  <2>2. CASE QueriesLeft(c)
    <3>1. part' = [part EXCEPT ![c] = @ + 1]
      BY <2>2 DEF Returns
    <3>2. part[c] + 1 \in DOMAIN QueriesOf(sel[c])
      <4>1. /\ DOMAIN QueriesOf(sel[c]) = 1..Len(QueriesOf(sel[c]))
            /\ Len(QueriesOf(sel[c])) \in Nat
        BY <2>1, QueryTyped
      <4> QED
        BY <2>1, <2>2, <4>1 DEF QueriesLeft
    <3> QED
      BY <2>1, <3>1, <3>2
  <2>3. CASE ~QueriesLeft(c)
    BY <2>1, <2>3 DEF Returns
  <2> QED
    BY <2>2, <2>3
<1> QED
  BY <1>2, <1>3, <1>4, <1>5, <1>6

\* The rows that a query has to answer for when its rows are from the cache or the index
Owing(c, r, from) ==
  \/ r \in owed[c]
  \/ from = "index" /\ listedAt[r] < began[c]
  \/ c \in quiet /\ ~Immutable(c) /\ listedAt[r] + LongestTtl + Latency < began[c]

Answering(c, found, from, k) ==
  \A r \in InRange(k, Rows) :
    /\ Owing(c, r, from) => Covered(k, found, r)
    /\ found = {} /\ (c \in quiet \/ Immutable(c)) => listedAt[r] + Age(c) >= began[c]

LEMMA ReturnsKeeps ==
  ASSUME IInv, NEW c \in Lookups, NEW found \in SUBSET Listed, NEW from \in {"cache", "index"},
         Returns(c, found, from), captures \subseteq captures',
         c \in quiet' => c \in quiet,
         Answering(c, found, from, Key(c))
  PROVE  LookupInv(c)'
<1>1. TypeOK /\ LookupInv(c) /\ part \in [Lookups -> Nat]
  BY DEF IInv
<1>2. /\ UNCHANGED <<now, listedAt, began, sel, owed>>
      /\ rows'[c] = rows[c] \cup found /\ origin'[c] = origin[c] \cup {from}
      /\ seen'[c] = {} /\ asked'[c] = 0
  BY <1>1 DEF Returns, TypeOK
<1>3. Listed' = Listed /\ Onward /\ now \in Nat
  <2>1. Listed' = Listed
    BY <1>2 DEF Listed
  <2> QED
    BY <1>1, <1>2, <2>1, TimesTyped DEF Onward
<1>4. /\ sel[c] \in Selections /\ part[c] \in DOMAIN QueriesOf(sel[c]) /\ part[c] \in Nat
      /\ DOMAIN QueriesOf(sel[c]) = 1..Len(QueriesOf(sel[c])) /\ Len(QueriesOf(sel[c])) \in Nat
  BY <1>1, LookupTyped, QueryTyped
<1>5. PICK k \in Keys : k = Key(c) /\ k = QueriesOf(sel[c])[part[c]]
  BY <1>1, LookupTyped
<1>6. Told(c, k)'
  <2> SUFFICES ASSUME NEW r \in InRange(k, Rows)
               PROVE  /\ Due(c, r)' => Covered(k, rows'[c], r)
                      /\ rows'[c] = {} /\ (c \in quiet' \/ Immutable(c)')
                           => listedAt'[r] + Age(c)' >= began'[c]
    BY DEF Told, Covered
  <2>1. Due(c, r)' => Owing(c, r, from)
    BY <1>2 DEF Due, Owing, Immutable
  <2>2. Due(c, r)' => Covered(k, rows'[c], r)
    BY <1>2, <1>5, <2>1, CoverGrows DEF Answering
  <2>3. Age(c)' = Age(c) /\ Immutable(c)' = Immutable(c)
    BY <1>2 DEF Age, Immutable
  <2> QED
    BY <1>2, <1>5, <2>2, <2>3 DEF Answering
<1>7. ASSUME NEW j \in DOMAIN QueriesOf(sel[c]), j < part[c] \/ j = part[c]
      PROVE  Told(c, QueriesOf(sel[c])[j])'
  <2>1. PICK q : q = QueriesOf(sel[c])[j]
    OBVIOUS
  <2>2. CASE j = part[c]
    BY <1>2, <1>5, <1>6, <2>1, <2>2 DEF Told, Covered
  <2>3. CASE j < part[c]
    <3>1. Told(c, q) /\ began[c] <= now
      BY <1>1, <1>7, <2>1, <2>3 DEF LookupInv, Past
    <3>2. Told(c, q)'
      BY <1>1, <1>2, <1>3, <3>1, ToldStays
    <3> QED
      BY <1>2, <2>1, <3>2 DEF Told, Covered
  <2> QED
    BY <1>7, <2>2, <2>3
<1>8. ASSUME NEW j \in Past(c)' PROVE j \in DOMAIN QueriesOf(sel[c]) /\ j \in Nat /\ j <= part[c]
  <2>1. j \in DOMAIN QueriesOf(sel[c]) /\ j \in Nat /\ (j < part'[c] \/ pc'[c] = "done")
    BY <1>2, <1>4, <1>8 DEF Past
  <2>2. CASE QueriesLeft(c)
    <3>1. part'[c] = part[c] + 1 /\ pc'[c] = "look"
      BY <1>1, <2>2 DEF Returns, TypeOK
    <3> QED
      BY <1>4, <2>1, <3>1
  <2>3. CASE ~QueriesLeft(c)
    BY <1>4, <2>1, <2>3 DEF QueriesLeft
  <2> QED
    BY <2>2, <2>3
<1>9. \A j \in Past(c)' : Told(c, QueriesOf(sel[c])[j])'
  BY <1>4, <1>7, <1>8
<1>10. pc'[c] = "done" => answer'[c] \in select_capture(rows'[c], sel'[c])
  <2>1. CASE QueriesLeft(c)
    BY <1>1, <2>1 DEF Returns, TypeOK
  <2>2. CASE ~QueriesLeft(c)
    BY <1>1, <1>2, <2>2 DEF Returns, TypeOK
  <2> QED
    BY <2>1, <2>2
<1>11. pc'[c] \notin {"log", "store"}
  BY <1>1 DEF Returns, TypeOK
<1>12. /\ asked'[c] <= now' /\ began'[c] <= now'
       /\ seen'[c] \subseteq Listed' /\ rows'[c] \subseteq Listed' /\ owed'[c] \subseteq captures'
  BY <1>1, <1>2, <1>3 DEF LookupInv
<1> QED
  BY <1>9, <1>10, <1>11, <1>12 DEF LookupInv

----------------------------------------------------------------------------
(* The steps *)

\* A step of one lookup
LEMMA OneStep ==
  ASSUME IInv, NEW c \in Lookups, TypeOK', part' \in [Lookups -> Nat], now' = now, Onward,
         CacheInv', LookupInv(c)',
         \A d \in Lookups \ {c} :
           /\ Same(d)
           /\ d \in quiet' => d \in quiet
           /\ pc[d] = "log" /\ d \in quiet' => queries'[Key(d)] = queries[Key(d)]
  PROVE  IInv'
<1>1. now' \in Nat
  BY TimesTyped DEF IInv
<1>2. ASSUME NEW d \in Lookups, d # c PROVE LookupInv(d)'
  <2>1. pc[d] = "store" => now' <= asked[d] + Latency
    BY DEF IInv, LookupInv, StoreInv
  <2> QED
    BY <1>1, <1>2, <2>1, LookupStays
<1> QED
  BY <1>2 DEF IInv

LEMMA TickPreserves == ASSUME IInv, Tick PROVE IInv'
<1>1. /\ now' = now + 1 /\ now < MaxTime /\ now \in Nat
      /\ UNCHANGED <<listedAt, captures, queries, begun, pc, sel, part, seen, asked, rows,
                     origin, answer, began, owed, quiet>>
  BY TimesTyped DEF Tick, history, IInv
<1>2. TypeOK /\ CacheInv
  BY DEF IInv
<1>3. Listed' = Listed /\ now' \in 0..MaxTime
  BY <1>1, TimesAssumption DEF Listed
<1>4. \A r \in Listed : listedAt[r] <= now'
  BY <1>1, <1>2, TimesTyped DEF TypeOK, Listed
<1>5. TypeOK'
  BY <1>1, <1>2, <1>3, <1>4 DEF TypeOK
<1>6. Onward /\ now' \in Nat
  BY <1>1, <1>3 DEF Onward
<1>7. CacheInv'
  BY <1>1, <1>2, <1>6, CacheStays
<1>8. ASSUME NEW d \in Lookups PROVE LookupInv(d)'
  <2>1. pc[d] = "store" => now' <= asked[d] + Latency
    BY <1>1, <1>2, TimesTyped DEF Tick
  <2>2. Same(d)
    BY <1>1 DEF Same
  <2> QED
    BY <1>1, <1>6, <2>1, <2>2, LookupStays DEF Key
<1> QED
  BY <1>1, <1>5, <1>7, <1>8 DEF IInv

LEMMA ListPreserves == ASSUME IInv, NEW r \in Rows, List(r) PROVE IInv'
<1>1. /\ listedAt' = [listedAt EXCEPT ![r] = now]
      /\ UNCHANGED <<now, captures, queries, begun, pc, sel, part, seen, asked, rows,
                     origin, answer, began, owed, quiet>>
  BY DEF List, history
<1>2. TypeOK /\ CacheInv /\ now \in Nat /\ now \in 0..Unlisted /\ now # Unlisted
  BY TimesTyped, TimesAssumption DEF IInv, TypeOK, Unlisted
<1>3. /\ listedAt'[r] = now /\ \A q \in Rows : q # r => listedAt'[q] = listedAt[q]
      /\ listedAt' \in [Rows -> 0..Unlisted]
  BY <1>1, <1>2 DEF TypeOK
<1>4. Listed' = Listed \cup {r}
  BY <1>2, <1>3 DEF Listed, Unlisted
<1>5. \A q \in Listed' : listedAt'[q] <= now'
  BY <1>1, <1>2, <1>3, <1>4 DEF TypeOK, Listed
<1>6. TypeOK'
  BY <1>1, <1>2, <1>3, <1>4, <1>5 DEF TypeOK
<1>7. Onward /\ now' \in Nat
  BY <1>1, <1>2, <1>3, <1>4 DEF Onward
<1>8. CacheInv'
  BY <1>1, <1>2, <1>7, CacheStays
<1>9. ASSUME NEW d \in Lookups PROVE LookupInv(d)'
  <2>1. pc[d] = "store" => now' <= asked[d] + Latency
    BY <1>1 DEF IInv, LookupInv, StoreInv
  <2>2. Same(d)
    BY <1>1 DEF Same
  <2> QED
    BY <1>1, <1>7, <2>1, <2>2, LookupStays DEF Key
<1> QED
  BY <1>1, <1>6, <1>8, <1>9 DEF IInv

LEMMA FindPreserves ==
  ASSUME IInv, NEW c \in Lookups, NEW s \in Selections, Find(c, s) PROVE IInv'
<1>1. /\ UNCHANGED <<now, listedAt, captures, queries, seen, asked>>
      /\ begun' = begun + 1 /\ begun < MaxLookups /\ pc' = [pc EXCEPT ![c] = "look"]
      /\ sel' = [sel EXCEPT ![c] = s] /\ part' = [part EXCEPT ![c] = 1]
      /\ rows' = [rows EXCEPT ![c] = {}] /\ origin' = [origin EXCEPT ![c] = {}]
      /\ answer' = [answer EXCEPT ![c] = NoRow] /\ began' = [began EXCEPT ![c] = now]
      /\ owed' = [owed EXCEPT ![c] = captures] /\ quiet' = quiet \cup {c}
  BY DEF Find
<1>2. TypeOK /\ CacheInv /\ now \in Nat /\ part \in [Lookups -> Nat] /\ now \in 0..MaxTime
  BY TimesTyped DEF IInv, TypeOK
<1>3. Listed' = Listed /\ captures \subseteq Rows
  BY <1>1, <1>2 DEF Listed, TypeOK
<1>4. begun' \in 0..MaxLookups
  BY <1>1, <1>2, TimesAssumption DEF TypeOK
<1>5. \A d \in Lookups : part'[d] \in DOMAIN QueriesOf(sel'[d])
  <2>1. part'[c] = 1 /\ sel'[c] = s
    BY <1>1, <1>2 DEF TypeOK
  <2>2. \A d \in Lookups : d # c => part'[d] = part[d] /\ sel'[d] = sel[d]
    BY <1>1, <1>2 DEF TypeOK
  <2> QED
    BY <1>2, <2>1, <2>2, FirstQuery DEF TypeOK
<1>6. TypeOK'
  BY <1>1, <1>2, <1>3, <1>4, <1>5 DEF TypeOK
<1>7. Onward
  BY <1>1, <1>2, <1>3 DEF Onward
<1>8. CacheInv'
  BY <1>1, <1>2, <1>7, CacheStays
<1>9. LookupInv(c)'
  <2>1. /\ pc'[c] = "look" /\ part'[c] = 1 /\ rows'[c] = {} /\ began'[c] = now
        /\ owed'[c] = captures /\ seen'[c] = seen[c] /\ asked'[c] = asked[c] /\ sel'[c] = s
    BY <1>1, <1>2 DEF TypeOK
  <2>2. Past(c)' = {}
    BY <2>1, QueryTyped DEF Past
  <2> QED
    BY <1>1, <1>2, <1>3, <2>1, <2>2 DEF LookupInv, IInv
<1>10. \A d \in Lookups \ {c} : Same(d) /\ (d \in quiet' => d \in quiet)
  BY <1>1, <1>2 DEF Same, TypeOK
<1>11. part' \in [Lookups -> Nat]
  BY <1>1, <1>2
<1>12. \A d \in Lookups : queries'[Key(d)] = queries[Key(d)]
  BY <1>1
<1> QED
  BY <1>1, <1>6, <1>7, <1>8, <1>9, <1>10, <1>11, <1>12, OneStep

\* A query that returns rows from what is there
LEMMA FromCachePreserves ==
  ASSUME IInv, NEW c \in Lookups, NEW found \in SUBSET Listed, Returns(c, found, "cache"),
         Answering(c, found, "cache", Key(c)), UNCHANGED <<captures, queries, quiet>>
  PROVE  IInv'
<1>1. TypeOK /\ CacheInv /\ part \in [Lookups -> Nat] /\ now \in Nat
  BY TimesTyped DEF IInv
<1>2. UNCHANGED <<now, listedAt, begun, sel, began, owed>>
  BY DEF Returns
<1>3. Listed' = Listed /\ found \in SUBSET Rows
  BY <1>2 DEF Listed
<1>4. /\ rows' \in [Lookups -> SUBSET Rows] /\ seen' \in [Lookups -> SUBSET Rows]
      /\ origin' \in [Lookups -> SUBSET {"cache", "index"}]
      /\ asked' \in [Lookups -> 0..MaxTime]
      /\ answer' \in [Lookups -> Rows \cup {NoRow}]
      /\ pc' \in [Lookups -> {"idle", "look", "log", "ask", "store", "done", "failed"}]
      /\ part' \in [Lookups -> Nat]
      /\ \A d \in Lookups : part'[d] \in DOMAIN QueriesOf(sel'[d])
  BY <1>1, <1>3, ReturnsTyped
<1>5. TypeOK'
  BY <1>1, <1>2, <1>3, <1>4 DEF TypeOK
<1>6. Onward
  BY <1>1, <1>2, <1>3 DEF Onward
<1>7. CacheInv'
  BY <1>1, <1>2, <1>6, CacheStays
<1>8. LookupInv(c)'
  BY ReturnsKeeps
<1>9. \A d \in Lookups \ {c} : Same(d)
  BY <1>1 DEF Same, Returns, TypeOK
<1>10. \A d \in Lookups : queries'[Key(d)] = queries[Key(d)]
  OBVIOUS
<1> QED
  BY <1>2, <1>4, <1>5, <1>6, <1>7, <1>8, <1>9, <1>10, OneStep

\* A step between two queries: only pc, seen and asked of the lookup change.
LEMMA BetweenPreserves ==
  ASSUME IInv, NEW c \in Lookups, NEW to \in {"log", "ask", "store", "failed"},
         NEW S \in SUBSET Listed, NEW t \in Nat, t <= now,
         pc[c] \in {"look", "log", "ask", "store"},
         pc' = [pc EXCEPT ![c] = to], seen' = [seen EXCEPT ![c] = S],
         asked' = [asked EXCEPT ![c] = t],
         UNCHANGED <<now, listedAt, captures, queries, begun, sel, part, rows, origin, answer,
                     began, owed, quiet>>,
         to = "log" => LogInv(c)',
         to = "store" => StoreInv(c)'
  PROVE  IInv'
<1>1. TypeOK /\ CacheInv /\ part \in [Lookups -> Nat] /\ now \in Nat /\ LookupInv(c)
  BY TimesTyped DEF IInv
<1>2. Listed' = Listed /\ S \in SUBSET Rows /\ t \in 0..MaxTime
  BY <1>1, TimesTyped DEF Listed
<1>3. /\ pc' \in [Lookups -> {"idle", "look", "log", "ask", "store", "done", "failed"}]
      /\ seen' \in [Lookups -> SUBSET Rows] /\ asked' \in [Lookups -> 0..MaxTime]
  BY <1>1, <1>2 DEF TypeOK
<1>4. TypeOK'
  BY <1>1, <1>2, <1>3 DEF TypeOK
<1>5. Onward
  BY <1>1, <1>2 DEF Onward
<1>6. CacheInv'
  BY <1>1, <1>5, CacheStays
<1>7. LookupInv(c)'
  <2>1. pc'[c] = to /\ seen'[c] = S /\ asked'[c] = t
    BY <1>1 DEF TypeOK
  <2>2. Past(c)' = Past(c)
    BY <2>1 DEF Past
  <2>3. ASSUME NEW j \in Past(c) PROVE Told(c, QueriesOf(sel[c])[j])'
    <3>1. PICK q : q = QueriesOf(sel[c])[j]
      OBVIOUS
    <3>2. Told(c, q) /\ began[c] <= now
      BY <1>1, <2>3, <3>1 DEF LookupInv
    <3>3. Told(c, q)'
      BY <1>1, <1>5, <3>2, ToldStays
    <3> QED
      BY <3>1, <3>3 DEF Told, Covered
  <2>4. /\ asked'[c] <= now' /\ began'[c] <= now'
        /\ seen'[c] \subseteq Listed' /\ rows'[c] \subseteq Listed' /\ owed'[c] \subseteq captures'
    BY <1>1, <1>2, <2>1 DEF LookupInv
  <2> QED
    BY <2>1, <2>2, <2>3, <2>4 DEF LookupInv
<1>8. \A d \in Lookups \ {c} : Same(d)
  BY <1>1 DEF Same, TypeOK
<1>9. \A d \in Lookups : queries'[Key(d)] = queries[Key(d)]
  OBVIOUS
<1> QED
  BY <1>1, <1>4, <1>5, <1>6, <1>7, <1>8, <1>9, OneStep

LEMMA ReadCapturesPreserves == ASSUME IInv, NEW c \in Lookups, ReadCaptures(c) PROVE IInv'
<1>1. TypeOK /\ CacheInv /\ LookupInv(c) /\ pc[c] = "look"
  BY DEF IInv, ReadCaptures
<1>2. PICK k \in Keys : k = Key(c)
  BY <1>1, LookupTyped
<1>3. PICK cached : cached = captures_for(k)
  OBVIOUS
<1>4. /\ cached \in SUBSET Listed /\ cached \subseteq captures /\ Listed \subseteq Rows
      /\ \A r \in captures : r \in InRange(k, Rows) => r \in cached
  BY <1>1, <1>3 DEF captures_for, InRange, TypeOK, Listed
<1>5. CASE Immutable(c) /\ cached # {} /\ Returns(c, cached, "cache")
  <2>1. ASSUME NEW r \in InRange(k, Rows), Owing(c, r, "cache") PROVE Covered(k, cached, r)
    <3>1. r \in owed[c]
      BY <1>5, <2>1 DEF Owing
    <3> QED
      BY <1>1, <1>4, <2>1, <3>1 DEF Covered, LookupInv
  <2>2. Answering(c, cached, "cache", Key(c))
    BY <1>2, <1>5, <2>1 DEF Answering
  <2>3. UNCHANGED <<captures, queries, quiet>>
    BY DEF ReadCaptures
  <2> QED
    BY <1>4, <1>5, <2>2, <2>3, FromCachePreserves
<1>6. CASE pc' = [pc EXCEPT ![c] = "log"] /\ seen' = [seen EXCEPT ![c] = cached]
           /\ UNCHANGED <<now, listedAt, begun, sel, part, asked, rows, origin, answer,
                          began, owed>>
  <2>1. UNCHANGED <<captures, queries, quiet>>
    BY DEF ReadCaptures
  <2>2. seen'[c] = cached /\ asked' = [asked EXCEPT ![c] = asked[c]] /\ Key(c)' = k
    BY <1>1, <1>2, <1>6 DEF TypeOK, Key
  <2>3. EntryCovered(k, cached)'
    <3>1. EntryCovered(k, cached)
      BY <1>1, <1>3 DEF CacheInv
    <3> QED
      BY <1>6, <2>1, <3>1 DEF EntryCovered, Covered
  <2>4. LogInv(c)'
    <3>1. \A r \in owed'[c] : r \in InRange(k, Rows) => r \in cached
      BY <1>1, <1>4, <1>6 DEF LookupInv
    <3> QED
      BY <2>2, <2>3, <3>1 DEF LogInv, EntryCovered, Covered
  <2>5. asked[c] \in Nat /\ asked[c] <= now
    BY <1>1, TimesTyped DEF LookupInv
  <2> QED
    BY <1>1, <1>4, <1>6, <2>1, <2>2, <2>4, <2>5, BetweenPreserves
<1> QED
  BY <1>2, <1>3, <1>5, <1>6 DEF ReadCaptures

LEMMA ReadLogPreserves == ASSUME IInv, NEW c \in Lookups, ReadLog(c) PROVE IInv'
<1>1. TypeOK /\ CacheInv /\ LookupInv(c) /\ pc[c] = "log" /\ LogInv(c)
      /\ UNCHANGED <<captures, queries, quiet>>
  BY DEF IInv, ReadLog, LookupInv
<1>2. PICK k \in Keys : k = Key(c)
  BY <1>1, LookupTyped
<1>3. CASE ~Immutable(c) /\ Fresh(queries[Key(c)]) /\ Returns(c, seen[c], "cache")
  <2>1. PICK S : S = seen[c]
    OBVIOUS
  <2>2. /\ queries[k] # NoEntry /\ queries[k].count # -1 /\ queries[k].at <= now
        /\ now - queries[k].at <= Ttl(queries[k])
    BY <1>1, <1>2, <1>3 DEF Fresh, CacheInv
  <2>3. /\ now \in Nat /\ queries[k].at \in Nat /\ began[c] \in Nat /\ began[c] <= now
        /\ CdxTtl \in Nat /\ NoCaptureTtl \in Nat /\ Latency \in Nat
        /\ LongestTtl \in Nat /\ CdxTtl <= LongestTtl /\ NoCaptureTtl <= LongestTtl
    BY <1>1, TimesTyped DEF LookupInv
  <2>4. ASSUME NEW r \in InRange(k, Rows), c \in quiet,
               listedAt[r] + LongestTtl + Latency < began[c]
        PROVE  Covered(k, S, r)
    <3>1. listedAt[r] \in Nat
      BY <1>1, TimesTyped DEF InRange
    <3>2. Ttl(queries[k]) <= LongestTtl /\ Ttl(queries[k]) \in Nat
      BY <2>3 DEF Ttl
    <3>3. listedAt[r] + Latency < queries[k].at
      BY <2>2, <2>3, <2>4, <3>1, <3>2
    <3> QED
      BY <1>1, <1>2, <2>1, <2>2, <2>4, <3>3 DEF LogInv, EntryCovered
  <2>5. ASSUME NEW r \in InRange(k, Rows), Owing(c, r, "cache") PROVE Covered(k, S, r)
    <3>1. CASE r \in owed[c]
      BY <1>1, <1>2, <2>1, <3>1 DEF LogInv, Covered
    <3>2. CASE r \notin owed[c]
      BY <2>4, <2>5, <3>2 DEF Owing
    <3> QED
      BY <3>1, <3>2
  <2>6. ASSUME NEW r \in InRange(k, Rows), S = {}, c \in quiet
        PROVE  listedAt[r] + (NoCaptureTtl + Latency) >= began[c]
    <3>1. queries[k].count = 0
      BY <1>1, <1>2, <2>1, <2>2, <2>6 DEF LogInv, EntryCovered
    <3>2. ~(listedAt[r] + Latency < queries[k].at)
      BY <1>1, <1>2, <2>1, <2>2, <2>6, NothingCoversNothing DEF LogInv, EntryCovered
    <3>3. Ttl(queries[k]) = NoCaptureTtl
      BY <3>1 DEF Ttl
    <3>4. listedAt[r] \in Nat
      BY <1>1, TimesTyped DEF InRange
    <3> QED
      BY <2>2, <2>3, <3>2, <3>3, <3>4
  <2>7. Answering(c, S, "cache", k)
    BY <1>3, <2>5, <2>6 DEF Answering, Age
  <2>8. S \in SUBSET Listed
    BY <1>1, <2>1 DEF LookupInv
  <2> QED
    BY <1>1, <1>2, <1>3, <2>1, <2>7, <2>8, FromCachePreserves
<1>4. CASE pc' = [pc EXCEPT ![c] = "ask"] /\ seen' = [seen EXCEPT ![c] = {}]
           /\ UNCHANGED <<now, listedAt, begun, sel, part, asked, rows, origin, answer,
                          began, owed>>
  <2>1. asked' = [asked EXCEPT ![c] = asked[c]] /\ asked[c] \in Nat /\ asked[c] <= now
    BY <1>1, <1>4, TimesTyped DEF TypeOK, LookupInv
  <2> QED
    BY <1>1, <1>4, <2>1, BetweenPreserves
<1> QED
  BY <1>3, <1>4 DEF ReadLog

LEMMA IndexAnswersPreserves == ASSUME IInv, NEW c \in Lookups, IndexAnswers(c) PROVE IInv'
<1>1. /\ TypeOK /\ LookupInv(c) /\ pc[c] = "ask" /\ now \in Nat /\ Latency \in Nat
      /\ UNCHANGED <<now, listedAt, captures, queries, begun, sel, part, rows, origin, answer,
                     began, owed, quiet>>
      /\ asked' = [asked EXCEPT ![c] = now] /\ pc' = [pc EXCEPT ![c] = "store"]
  BY TimesTyped DEF IInv, IndexAnswers, history
<1>2. PICK k \in Keys : k = Key(c)
  BY <1>1, LookupTyped
<1>3. PICK Q \in Answers(k) : seen' = [seen EXCEPT ![c] = Q]
  BY <1>2 DEF IndexAnswers
<1>4. /\ Q \subseteq InRange(k, Rows) /\ Q \subseteq Listed
      /\ \A r \in InRange(k, Rows) : r \in Listed => Covered(k, Q, r)
  BY AnswersCover
<1>5. seen'[c] = Q /\ asked'[c] = now /\ Key(c)' = k
  BY <1>1, <1>2, <1>3 DEF TypeOK, Key
<1>6. ASSUME NEW r \in InRange(k, Rows), r \in owed[c] \/ listedAt[r] < now
      PROVE  r \in Listed
  <2>1. r \in Rows
    BY DEF InRange
  <2>2. CASE r \in owed[c]
    BY <1>1, <2>2 DEF LookupInv, TypeOK
  <2>3. CASE listedAt[r] < now
    <3>1. listedAt[r] # Unlisted
      BY <1>1, <2>1, <2>3, TimesTyped, TimesAssumption DEF Unlisted
    <3> QED
      BY <2>1, <3>1 DEF Listed
  <2> QED
    BY <1>6, <2>2, <2>3
<1>7. StoreInv(c)'
  <2>1. began'[c] <= asked'[c] /\ now' <= asked'[c] + Latency
    BY <1>1, <1>5 DEF LookupInv
  <2>2. \A r \in InRange(k, Rows) : r \in owed'[c] \/ listedAt'[r] < asked'[c] => Covered(k, Q, r)
    BY <1>1, <1>4, <1>5, <1>6
  <2> QED
    BY <1>4, <1>5, <2>1, <2>2 DEF StoreInv, Covered
<1>8. Q \in SUBSET Listed /\ now <= now
  BY <1>1, <1>4
<1> QED
  BY <1>1, <1>3, <1>7, <1>8, BetweenPreserves

LEMMA FailsPreserves == ASSUME IInv, NEW c \in Lookups, Fails(c) PROVE IInv'
<1>1. /\ UNCHANGED <<now, listedAt, captures, queries, begun, sel, part, rows, origin, answer,
                     began, owed, quiet>>
      /\ pc' = [pc EXCEPT ![c] = "failed"] /\ seen' = [seen EXCEPT ![c] = {}]
      /\ asked' = [asked EXCEPT ![c] = 0] /\ pc[c] \in {"ask", "store"}
  BY DEF Fails, history
<1>2. 0 <= now /\ {} \in SUBSET Listed
  BY TimesTyped DEF IInv
<1> QED
  BY <1>1, <1>2, BetweenPreserves

LEMMA StorePreserves == ASSUME IInv, NEW c \in Lookups, Store(c) PROVE IInv'
<1>1. TypeOK /\ CacheInv /\ LookupInv(c) /\ StoreInv(c) /\ pc[c] = "store"
      /\ part \in [Lookups -> Nat] /\ now \in Nat
  BY TimesTyped DEF IInv, LookupInv, Store
<1>2. PICK k \in Keys : k = Key(c)
  BY <1>1, LookupTyped
<1>3. PICK S \in SUBSET Listed : S = seen[c]
  BY <1>1 DEF LookupInv
<1>4. /\ Returns(c, S, "index") /\ captures' = captures \cup S
      /\ quiet' = quiet \ {d \in Lookups : pc[d] = "log" /\ Key(d) = k}
      /\ \/ queries' = queries
         \/ queries' = [queries EXCEPT ![k] = [at |-> now, count |-> Cardinality(S)]]
      /\ UNCHANGED <<now, listedAt, begun, sel, began, owed>>
  BY <1>2, <1>3 DEF Store, Returns
<1>5. Listed' = Listed /\ Listed \subseteq Rows
  BY <1>4 DEF Listed
<1>6. IsFiniteSet(S) /\ Cardinality(S) \in 0..Cardinality(Rows) /\ Cardinality(Rows) \in Nat
  <2>1. IsFiniteSet(Rows) /\ S \subseteq Rows
    BY <1>5, RowsAssumption
  <2>2. IsFiniteSet(S) /\ Cardinality(S) <= Cardinality(Rows)
    BY <2>1, FS_Subset
  <2> QED
    BY <2>1, <2>2, FS_CardinalityType
<1>7. TypeOK' /\ part' \in [Lookups -> Nat]
  <2>1. /\ rows' \in [Lookups -> SUBSET Rows] /\ seen' \in [Lookups -> SUBSET Rows]
        /\ origin' \in [Lookups -> SUBSET {"cache", "index"}]
        /\ asked' \in [Lookups -> 0..MaxTime]
        /\ answer' \in [Lookups -> Rows \cup {NoRow}]
        /\ pc' \in [Lookups -> {"idle", "look", "log", "ask", "store", "done", "failed"}]
        /\ part' \in [Lookups -> Nat]
        /\ \A d \in Lookups : part'[d] \in DOMAIN QueriesOf(sel'[d])
    BY <1>1, <1>4, <1>5, ReturnsTyped
  <2>2. queries' \in [Keys -> [at : 0..MaxTime, count : -1..Cardinality(Rows)]]
    <3>1. now \in 0..MaxTime /\ Cardinality(S) \in -1..Cardinality(Rows)
      BY <1>1, <1>6 DEF TypeOK
    <3>2. queries \in [Keys -> [at : 0..MaxTime, count : -1..Cardinality(Rows)]]
      BY <1>1 DEF TypeOK
    <3> QED
      BY <1>4, <3>1, <3>2
  <2>3. captures' \subseteq Listed' /\ quiet' \subseteq Lookups
    BY <1>1, <1>4, <1>5 DEF TypeOK
  <2> QED
    BY <1>1, <1>4, <1>5, <2>1, <2>2, <2>3 DEF TypeOK
<1>8. Onward
  BY <1>1, <1>4, <1>5 DEF Onward
<1>9. /\ S \subseteq InRange(k, Rows) /\ began[c] <= asked[c] /\ now <= asked[c] + Latency
      /\ \A r \in InRange(k, Rows) :
           r \in owed[c] \/ listedAt[r] < asked[c] => Covered(k, S, r)
  BY <1>1, <1>2, <1>3 DEF StoreInv
<1>10. /\ began[c] \in Nat /\ asked[c] \in Nat /\ Latency \in Nat /\ LongestTtl \in Nat
       /\ \A r \in InRange(k, Rows) : listedAt[r] \in Nat
  BY <1>1, TimesTyped DEF InRange
<1>11. CacheInv'
  <2>1. CASE queries' = queries
    BY <1>1, <1>4, <1>8, <2>1, CacheStays
  <2>2. CASE queries' = [queries EXCEPT ![k] = [at |-> now, count |-> Cardinality(S)]]
    <3>1. /\ queries'[k].at = now /\ queries'[k].count = Cardinality(S)
          /\ \A q \in Keys : q # k => queries'[q] = queries[q]
      BY <1>1, <2>2 DEF TypeOK
    <3>2. PICK T : T = captures_for(k)'
      OBVIOUS
    <3>3. S \subseteq T
      BY <1>4, <1>5, <1>9, <3>2 DEF captures_for, InRange
    <3>4. EntryCovered(k, T)'
      <4>1. queries'[k].count # 0 => T # {}
        BY <1>6, <3>1, <3>3, FS_EmptySet
      <4>2. ASSUME NEW r \in InRange(k, Rows), listedAt[r] + Latency < now
            PROVE  Covered(k, T, r)
        <5>1. listedAt[r] < asked[c]
          BY <1>1, <1>9, <1>10, <4>2
        <5> QED
          BY <1>9, <3>3, <5>1, CoverGrows
      <4> QED
        BY <1>4, <3>1, <4>1, <4>2 DEF EntryCovered, Covered
    <3>5. EntryCovered(k, captures_for(k))'
      BY <3>2, <3>4 DEF EntryCovered, Covered
    <3>6. ASSUME NEW q \in Keys, q # k PROVE EntryCovered(q, captures_for(q))'
      <4>1. PICK A : A = captures_for(q)
        OBVIOUS
      <4>2. PICK B : B = captures_for(q)'
        OBVIOUS
      <4>3. A \subseteq B
        BY <1>4, <4>1, <4>2 DEF captures_for, InRange
      <4>4. EntryCovered(q, B)'
        BY <1>1, <1>8, <3>1, <3>6, <4>1, <4>3, EntryStays DEF CacheInv
      <4> QED
        BY <4>2, <4>4 DEF EntryCovered, Covered
    <3>7. ASSUME NEW q \in Keys
          PROVE  queries'[q].at <= now' /\ (queries'[q] # NoEntry => queries'[q].count # -1)
      <4>1. CASE q = k
        BY <1>1, <1>4, <1>6, <3>1, <4>1
      <4>2. CASE q # k
        BY <1>1, <1>4, <3>1, <4>2 DEF CacheInv
      <4> QED
        BY <4>1, <4>2
    <3> QED
      BY <3>5, <3>6, <3>7 DEF CacheInv
  <2> QED
    BY <1>4, <2>1, <2>2
<1>12. Answering(c, S, "index", k)
  <2>1. ASSUME NEW r \in InRange(k, Rows), Owing(c, r, "index") PROVE Covered(k, S, r)
    <3>1. r \in owed[c] \/ listedAt[r] < began[c]
      BY <1>10, <2>1 DEF Owing
    <3> QED
      BY <1>9, <1>10, <3>1
  <2>2. ASSUME NEW r \in InRange(k, Rows), S = {} PROVE listedAt[r] + Age(c) >= began[c]
    <3>1. ~(listedAt[r] < asked[c])
      BY <1>9, <2>2, NothingCoversNothing
    <3>2. Age(c) \in Nat
      BY <1>1, LookupTyped
    <3> QED
      BY <1>9, <1>10, <3>1, <3>2
  <2> QED
    BY <2>1, <2>2 DEF Answering
<1>13. LookupInv(c)'
  BY <1>2, <1>4, <1>12, ReturnsKeeps
<1>14. ASSUME NEW d \in Lookups \ {c}
       PROVE  /\ Same(d) /\ (d \in quiet' => d \in quiet)
              /\ pc[d] = "log" /\ d \in quiet' => queries'[Key(d)] = queries[Key(d)]
  <2>1. Same(d)
    BY <1>1, <1>4 DEF Same, Returns, TypeOK
  <2>2. PICK q \in Keys : q = Key(d)
    BY <1>1, LookupTyped
  <2>3. pc[d] = "log" /\ d \in quiet' => q # k
    BY <1>4, <2>2
  <2>4. q # k => queries'[q] = queries[q]
    BY <1>1, <1>4 DEF TypeOK
  <2> QED
    BY <1>4, <2>1, <2>2, <2>3, <2>4
<1> QED
  BY <1>4, <1>7, <1>8, <1>11, <1>13, <1>14, OneStep

LEMMA InitEstablishes == ASSUME Init PROVE IInv
<1>1. /\ now = 0 /\ captures = {} /\ quiet = Lookups /\ begun = 0
      /\ listedAt = [r \in Rows |-> Unlisted] /\ queries = [k \in Keys |-> NoEntry]
      /\ pc = [c \in Lookups |-> "idle"] /\ part = [c \in Lookups |-> 1]
      /\ sel = [c \in Lookups |-> CHOOSE s \in Selections : TRUE]
      /\ seen = [c \in Lookups |-> {}] /\ asked = [c \in Lookups |-> 0]
      /\ rows = [c \in Lookups |-> {}] /\ origin = [c \in Lookups |-> {}]
      /\ answer = [c \in Lookups |-> NoRow] /\ began = [c \in Lookups |-> 0]
      /\ owed = [c \in Lookups |-> {}]
  BY DEF Init
<1>2. Listed = {} /\ Unlisted \in 0..Unlisted /\ 0 \in 0..MaxTime /\ 0 \in 0..MaxLookups
  BY <1>1, TimesAssumption DEF Listed, Unlisted
<1>3. (CHOOSE s \in Selections : TRUE) \in Selections
  BY SelectionsAssumption
<1>4. sel \in [Lookups -> Selections]
  BY <1>1, <1>3
<1>5. \A c \in Lookups : part[c] = 1 /\ part[c] \in DOMAIN QueriesOf(sel[c])
  BY <1>1, <1>4, FirstQuery
<1>6. NoEntry \in [at : 0..MaxTime, count : -1..Cardinality(Rows)]
  <2>1. Cardinality(Rows) \in Nat
    BY RowsAssumption, FS_CardinalityType
  <2> QED
    BY <1>2, <2>1 DEF NoEntry
<1>7. TypeOK /\ part \in [Lookups -> Nat]
  BY <1>1, <1>2, <1>4, <1>5, <1>6 DEF TypeOK
<1>8. CacheInv
  BY <1>1 DEF CacheInv, EntryCovered, NoEntry
<1>9. ASSUME NEW c \in Lookups PROVE LookupInv(c)
  <2>1. Past(c) = {}
    BY <1>1, <1>4, <1>5, QueryTyped DEF Past
  <2> QED
    BY <1>1, <2>1 DEF LookupInv
<1> QED
  BY <1>7, <1>8, <1>9 DEF IInv

LEMMA StutterPreserves == ASSUME IInv, UNCHANGED vars PROVE IInv'
<1>1. UNCHANGED <<now, listedAt, captures, queries, begun, pc, sel, part, seen, asked, rows,
                  origin, answer, began, owed, quiet>>
  BY DEF vars, history
<1>2. Listed' = Listed
  BY <1>1 DEF Listed
<1>3. TypeOK' /\ part' \in [Lookups -> Nat] /\ TypeOK /\ CacheInv /\ now \in Nat
  BY <1>1, <1>2, TimesTyped DEF IInv, TypeOK
<1>4. Onward
  BY <1>1, <1>2, <1>3 DEF Onward
<1>5. CacheInv'
  BY <1>1, <1>3, <1>4, CacheStays
<1>6. ASSUME NEW d \in Lookups PROVE LookupInv(d)'
  <2>1. pc[d] = "store" => now' <= asked[d] + Latency
    BY <1>1 DEF IInv, LookupInv, StoreInv
  <2>2. Same(d)
    BY <1>1 DEF Same
  <2> QED
    BY <1>1, <1>3, <1>4, <2>1, <2>2, LookupStays DEF Key
<1> QED
  BY <1>3, <1>5, <1>6 DEF IInv

LEMMA Inductive == Spec => []IInv
<1>1. IInv /\ [Next]_vars => IInv'
  BY StutterPreserves, TickPreserves, ListPreserves, FindPreserves, ReadCapturesPreserves,
     ReadLogPreserves, IndexAnswersPreserves, FailsPreserves, StorePreserves DEF Next
<1> QED
  BY <1>1, InitEstablishes, PTL DEF Spec

----------------------------------------------------------------------------
(* What an answer is good for *)

\* Every variable keeps to its values, and the cache holds only rows that the index lists.
THEOREM TypeCorrect == Spec => []TypeOK
<1>1. IInv => TypeOK
  BY DEF IInv
<1> QED
  BY <1>1, Inductive, PTL

\* The capture that a lookup was answered is as good as any row it was not to miss.
LEMMA NothingDueIsMissed ==
  ASSUME IInv, NEW c \in Lookups, pc[c] = "done", NEW r \in Rows, Due(c, r)
  PROVE  ~Missed(c, r)
<1>1. TypeOK /\ LookupInv(c) /\ sel[c] \in Selections
  BY LookupTyped DEF IInv
<1>2. rows[c] \in SUBSET Listed /\ answer[c] \in select_capture(rows[c], sel[c])
  BY <1>1 DEF LookupInv
<1>3. SUFFICES ASSUME r \in Pool(sel[c], Rows), ~Crowded(sel[c], r)
               PROVE  answer[c] # NoRow /\ ~Better(sel[c], r, answer[c])
  BY DEF Missed
<1>4. PICK j \in DOMAIN QueriesOf(sel[c]) : r \in InRange(QueriesOf(sel[c])[j], Rows)
  BY <1>1, <1>3, PoolInRange
<1>5. Covered(QueriesOf(sel[c])[j], rows[c], r)
  BY <1>1, <1>4 DEF LookupInv, Past, Told
<1> QED
  BY <1>1, <1>2, <1>3, <1>4, <1>5, CoveredIsNotMissed

\* What a lookup could take from the cache when it began, it takes or betters, whether the
\* cache or the index answers it and whatever other lookups store meanwhile.
THEOREM CachedIsNotMissed == Spec => []KnownNotMissed
<1>1. ASSUME IInv PROVE KnownNotMissed
  <2>1. ASSUME NEW c \in Lookups, pc[c] = "done", NEW r \in owed[c] PROVE ~Missed(c, r)
    <3>1. r \in Rows /\ Due(c, r)
      BY <1>1, <2>1 DEF Due, IInv, TypeOK
    <3> QED
      BY <1>1, <2>1, <3>1, NothingDueIsMissed
  <2> QED
    BY <2>1 DEF KnownNotMissed
<1> QED
  BY <1>1, Inductive, PTL

\* An answer that is the index's misses nothing it listed when the lookup began, whatever
\* the cache and the log held.
THEOREM AskedIsNotMissed == Spec => []FreshMissesNothing
<1>1. ASSUME IInv PROVE FreshMissesNothing
  <2>1. ASSUME NEW c \in Lookups, pc[c] = "done", origin[c] = {"index"}, NEW r \in Rows,
               listedAt[r] < began[c]
        PROVE  ~Missed(c, r)
    BY <1>1, <2>1, NothingDueIsMissed DEF Due
  <2> QED
    BY <2>1 DEF FreshMissesNothing
<1> QED
  BY <1>1, Inductive, PTL

\* An answer of the cache is behind the index by no more than the TTL of range queries and
\* the time an answer takes, when no other lookup's answer came between its two reads.
THEOREM CacheIsNotStale == Spec => []StaleWithinTtl
<1>1. ASSUME IInv PROVE StaleWithinTtl
  <2>1. ASSUME NEW c \in quiet, pc[c] = "done", sel[c].policy # "exact", NEW r \in Rows,
               listedAt[r] + LongestTtl + Latency < began[c]
        PROVE  ~Missed(c, r)
    <3>1. c \in Lookups
      BY <1>1 DEF IInv, TypeOK
    <3> QED
      BY <1>1, <2>1, <3>1, NothingDueIsMissed DEF Due, Immutable
  <2> QED
    BY <2>1 DEF StaleWithinTtl
<1> QED
  BY <1>1, Inductive, PTL

\* Who is told that there is nothing at all was told what the index said within the shorter
\* TTL, and of an exact timestamp what it said just now.
THEOREM NothingIsRecent == Spec => []EmptyIsRecent
<1>1. ASSUME IInv PROVE EmptyIsRecent
  <2>1. ASSUME NEW c \in Lookups, pc[c] = "done", rows[c] = {}, c \in quiet \/ Immutable(c),
               NEW r \in Pool(sel[c], Rows)
        PROVE  listedAt[r] + Age(c) >= began[c]
    <3>1. TypeOK /\ LookupInv(c) /\ sel[c] \in Selections
      BY <1>1, LookupTyped DEF IInv
    <3>2. PICK j \in DOMAIN QueriesOf(sel[c]) : r \in InRange(QueriesOf(sel[c])[j], Rows)
      BY <3>1, PoolInRange
    <3> QED
      BY <2>1, <3>1, <3>2 DEF LookupInv, Past, Told
  <2> QED
    BY <2>1 DEF EmptyIsRecent, Age
<1> QED
  BY <1>1, Inductive, PTL
=============================================================================
