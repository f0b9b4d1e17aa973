----------------------------- MODULE CdxCache -----------------------------
(***************************************************************************)
(* CdxClient.find for one URL: which capture a selection picks, and what   *)
(* the cache of index rows and the log of queries may answer in the        *)
(* Archive's place.  Several lookups run at a time, as the workers of      *)
(* verify_many do; captures enter the index in any order, each some time   *)
(* after it was made.                                                      *)
(***************************************************************************)
EXTENDS Integers, FiniteSets, Sequences

CONSTANTS
  Lookups,       \* calls of find
  Selections,    \* what they may ask for
  Url,           \* the URL they ask about
  Rows,          \* the captures that the index folds under it
  NoRow,         \* in place of a capture: none
  Accept,        \* Config.accept_url_match
  Limit,         \* Config.cdx_limit_rows
  CdxTtl,        \* Config.ttl.cdx_query
  NoCaptureTtl,  \* Config.ttl.no_capture
  Latency,       \* how long an answer of the index may take to be stored
  MaxTime,       \* bound: ticks of the clock
  MaxLookups     \* bound: lookups that are begun

Policies == {"exact", "first_after", "last_before", "nearest", "latest"}

\* 0 stands for None, in a selection and in the parameters of a query.
Timestamps == Nat \ {0}

\* A URL: what is left of it when it is normalised, and how it was spelled.
Urls == [scheme : STRING, netloc : STRING, rest : STRING, spelling : STRING]

ASSUME RowsAssumption ==
  /\ IsFiniteSet(Rows) /\ NoRow \notin Rows /\ Url \in Urls
  /\ \A r \in Rows : r.timestamp \in Timestamps /\ r.original \in Urls
ASSUME SelectionsAssumption ==
  /\ Selections # {}
  /\ \A s \in Selections : /\ s.policy \in Policies
                           /\ s.timestamp \in IF s.policy = "latest" THEN {0} ELSE Timestamps
ASSUME LimitAssumption == Limit \in Nat \ {0}
ASSUME TimesAssumption ==
  /\ CdxTtl \in Nat /\ NoCaptureTtl \in Nat
  /\ Latency \in Nat /\ MaxTime \in Nat /\ MaxLookups \in Nat

VARIABLES
  now,
  listedAt,  \* when the index began to list each row
  captures,  \* the rows the cache has for this URL
  queries,   \* cdx_queries: time and count of the latest entry for each query
  begun,
  pc,        \* where each lookup is
  sel,       \* what it looks for
  part,      \* which of its queries it is at
  seen,      \* the cached rows it read, and after the request the answer to it
  asked,     \* when the index gave this answer
  rows,      \* the rows of its queries so far
  origin,    \* where they came from
  answer,    \* Lookup.capture
  began,     \* history: when it began
  owed,      \* history: the rows in the cache by then
  quiet      \* history: lookups whose two reads no store of their query came between

history == <<began, owed, quiet>>
vars == <<now, listedAt, captures, queries, begun, pc, sel, part, seen, asked, rows,
          origin, answer, history>>

----------------------------------------------------------------------------
(* Which capture a selection picks *)

\* _norm
Norm(u) == [u EXCEPT !.spelling = ""]

SamePlace(u, o) == u.netloc = o.netloc /\ u.rest = o.rest

compare_urls(requested, original) ==
  CASE requested = original -> "exact"
    [] requested # original /\ Norm(requested) = Norm(original) -> "normalized"
    [] /\ Norm(requested) # Norm(original) /\ SamePlace(requested, original)
       /\ {requested.scheme, original.scheme} \subseteq {"http", "https"} -> "scheme_differs"
    [] OTHER -> "different"

Match(r) == compare_urls(Url, r.original)

MatchRank == [exact |-> 0, normalized |-> 1, scheme_differs |-> 2, different |-> 3]

Rank(r) == MatchRank[Match(r)]

\* "-" is a revisit record, which repeats an earlier payload.
Ok(r) == r.status \in {"2xx", "-"}

RequireOk(s) == s.policy # "exact"

Pool(s, S) ==
  {r \in S : /\ Match(r) \in Accept
             /\ RequireOk(s) => Ok(r)
             /\ s.policy = "exact" => r.timestamp = s.timestamp
             /\ s.policy = "first_after" => r.timestamp >= s.timestamp
             /\ s.policy = "last_before" => r.timestamp <= s.timestamp}

Distance(s, r) ==
  CASE s.policy = "exact" -> 0
    [] s.policy = "first_after" -> r.timestamp
    [] s.policy \in {"last_before", "latest"} -> -r.timestamp
    [] s.policy = "nearest" -> IF r.timestamp < s.timestamp THEN s.timestamp - r.timestamp
                                                           ELSE r.timestamp - s.timestamp

\* The order of min()'s key; at equal distance find() lists the rows before first.
Better(s, a, b) ==
  \/ Distance(s, a) < Distance(s, b)
  \/ /\ Distance(s, a) = Distance(s, b)
     /\ \/ Rank(a) < Rank(b)
        \/ /\ Rank(a) = Rank(b)
           /\ \/ s.policy = "exact" /\ Ok(a) /\ ~Ok(b)
              \/ s.policy = "nearest" /\ a.timestamp < b.timestamp

\* The rows select_capture may return; those of one key are in no particular order.
select_capture(S, s) ==
  LET best == {r \in Pool(s, S) : \A q \in Pool(s, S) : ~Better(s, q, r)}
  IN  IF best = {} THEN {NoRow} ELSE best

----------------------------------------------------------------------------
(* Queries of the index *)

After(s) == [from |-> s.timestamp, to |-> 0, limit |-> Limit]

\* Mistake: a limit without its sign asks for the first rows, not for the last.
BeforeFromStart(s) == [from |-> 0, to |-> s.timestamp, limit |-> Limit]

Before(s) == [from |-> 0, to |-> s.timestamp, limit |-> -Limit]

QueriesOf(s) ==
  CASE s.policy = "exact" -> <<[from |-> s.timestamp, to |-> s.timestamp, limit |-> 0]>>
    [] s.policy = "first_after" -> <<After(s)>>
    [] s.policy \in {"last_before", "latest"} -> <<Before(s)>>
    [] s.policy = "nearest" -> <<After(s), Before(s)>>

Keys == UNION {{QueriesOf(s)[i] : i \in DOMAIN QueriesOf(s)} : s \in Selections}

InRange(k, S) ==
  {r \in S : (k.from # 0 => r.timestamp >= k.from) /\ (k.to # 0 => r.timestamp <= k.to)}

Unlisted == MaxTime + 1
Listed == {r \in Rows : listedAt[r] # Unlisted}

Size(k) == IF k.limit < 0 THEN -k.limit ELSE k.limit

\* The index answers with all rows of the range, or with the first or the last of them.
Answers(k) ==
  LET all == InRange(k, Listed)
  IN  {Q \in SUBSET all :
         IF k.limit = 0 \/ Cardinality(all) <= Size(k)
         THEN Q = all
         ELSE /\ Cardinality(Q) = Size(k)
              /\ \A q \in Q, r \in all \ Q : IF k.limit > 0 THEN q.timestamp <= r.timestamp
                                                           ELSE q.timestamp >= r.timestamp}

NoEntry == [at |-> 0, count |-> -1]

----------------------------------------------------------------------------
Init ==
  /\ now = 0
  /\ listedAt = [r \in Rows |-> Unlisted]
  /\ captures = {}
  /\ queries = [k \in Keys |-> NoEntry]
  /\ begun = 0
  /\ pc = [c \in Lookups |-> "idle"]
  /\ sel = [c \in Lookups |-> CHOOSE s \in Selections : TRUE]
  /\ part = [c \in Lookups |-> 1]
  /\ seen = [c \in Lookups |-> {}]
  /\ asked = [c \in Lookups |-> 0]
  /\ rows = [c \in Lookups |-> {}]
  /\ origin = [c \in Lookups |-> {}]
  /\ answer = [c \in Lookups |-> NoRow]
  /\ began = [c \in Lookups |-> 0]
  /\ owed = [c \in Lookups |-> {}]
  /\ quiet = Lookups

Tick ==
  /\ now < MaxTime
  /\ \A c \in Lookups : pc[c] = "store" => now < asked[c] + Latency
  /\ now' = now + 1
  /\ UNCHANGED <<listedAt, captures, queries, begun, pc, sel, part, seen, asked, rows,
                 origin, answer, history>>

List(r) ==
  /\ r \notin Listed
  /\ listedAt' = [listedAt EXCEPT ![r] = now]
  /\ UNCHANGED <<now, captures, queries, begun, pc, sel, part, seen, asked, rows,
                 origin, answer, history>>

Key(c) == QueriesOf(sel[c])[part[c]]
Immutable(c) == sel[c].policy = "exact"

\* Mistake: find goes on after its last query.
QueriesLeftOrLast(c) == part[c] <= Len(QueriesOf(sel[c]))

QueriesLeft(c) == part[c] < Len(QueriesOf(sel[c]))

Find(c, s) ==
  /\ pc[c] \in {"idle", "done", "failed"}
  /\ begun < MaxLookups
  /\ begun' = begun + 1
  /\ pc' = [pc EXCEPT ![c] = "look"]
  /\ sel' = [sel EXCEPT ![c] = s]
  /\ part' = [part EXCEPT ![c] = 1]
  /\ rows' = [rows EXCEPT ![c] = {}]
  /\ origin' = [origin EXCEPT ![c] = {}]
  /\ answer' = [answer EXCEPT ![c] = NoRow]
  /\ began' = [began EXCEPT ![c] = now]
  /\ owed' = [owed EXCEPT ![c] = captures]
  /\ quiet' = quiet \cup {c}
  /\ UNCHANGED <<now, listedAt, captures, queries, seen, asked>>

\* _cached_query returns these rows: find goes on to its next query, or selects.
Returns(c, found, from) ==
  /\ rows' = [rows EXCEPT ![c] = @ \cup found]
  /\ origin' = [origin EXCEPT ![c] = @ \cup {from}]
  /\ seen' = [seen EXCEPT ![c] = {}]
  /\ asked' = [asked EXCEPT ![c] = 0]
  /\ IF QueriesLeft(c)
     THEN /\ part' = [part EXCEPT ![c] = @ + 1]
          /\ pc' = [pc EXCEPT ![c] = "look"]
          /\ UNCHANGED answer
     ELSE /\ \E r \in select_capture(rows[c] \cup found, sel[c]) :
               answer' = [answer EXCEPT ![c] = r]
          /\ pc' = [pc EXCEPT ![c] = "done"]
          /\ UNCHANGED part
  /\ UNCHANGED <<now, listedAt, begun, sel, began, owed>>

\* Mistake: the bounds of the range are left out.
captures_between(k) == {r \in InRange(k, captures) : r.timestamp \notin {k.from, k.to}}

captures_for(k) == InRange(k, captures)

ReadCaptures(c) ==
  LET cached == captures_for(Key(c))
  IN  /\ pc[c] = "look"
      /\ \/ /\ Immutable(c) /\ cached # {}
            /\ Returns(c, cached, "cache")
         \/ /\ ~(Immutable(c) /\ cached # {})
            /\ pc' = [pc EXCEPT ![c] = "log"]
            /\ seen' = [seen EXCEPT ![c] = cached]
            /\ UNCHANGED <<now, listedAt, begun, sel, part, asked, rows, origin, answer,
                           began, owed>>
      /\ UNCHANGED <<captures, queries, quiet>>

\* Mistake: the two lifetimes are swapped.
TtlSwapped(entry) == IF entry.count # 0 THEN NoCaptureTtl ELSE CdxTtl

Ttl(entry) == IF entry.count # 0 THEN CdxTtl ELSE NoCaptureTtl

\* Mistake: an entry never gets old.
FreshForEver(entry) == entry # NoEntry

Fresh(entry) == entry # NoEntry /\ now - entry.at <= Ttl(entry)

\* last_cdx_query, and the decision it is read for
ReadLog(c) ==
  /\ pc[c] = "log"
  /\ \/ /\ ~Immutable(c) /\ Fresh(queries[Key(c)])
        /\ Returns(c, seen[c], "cache")
     \/ /\ Immutable(c) \/ ~Fresh(queries[Key(c)])
        /\ pc' = [pc EXCEPT ![c] = "ask"]
        /\ seen' = [seen EXCEPT ![c] = {}]
        /\ UNCHANGED <<now, listedAt, begun, sel, part, asked, rows, origin, answer,
                       began, owed>>
  /\ UNCHANGED <<captures, queries, quiet>>

\* The index reads its rows; the answer is on its way.
IndexAnswers(c) ==
  /\ pc[c] = "ask"
  /\ \E Q \in Answers(Key(c)) : seen' = [seen EXCEPT ![c] = Q]
  /\ asked' = [asked EXCEPT ![c] = now]
  /\ pc' = [pc EXCEPT ![c] = "store"]
  /\ UNCHANGED <<now, listedAt, captures, queries, begun, sel, part, rows, origin, answer,
                 history>>

\* TransportError: no answer, an error, or one that cannot be read.
Fails(c) ==
  /\ pc[c] \in {"ask", "store"}
  /\ pc' = [pc EXCEPT ![c] = "failed"]
  /\ seen' = [seen EXCEPT ![c] = {}]
  /\ asked' = [asked EXCEPT ![c] = 0]
  /\ UNCHANGED <<now, listedAt, captures, queries, begun, sel, part, rows, origin, answer,
                 history>>

\* add_captures, in one transaction
Store(c) ==
  /\ pc[c] = "store"
  /\ captures' = captures \cup seen[c]
  /\ queries' = IF Immutable(c) /\ seen[c] = {}
                THEN queries
                ELSE [queries EXCEPT ![Key(c)] = [at |-> now, count |-> Cardinality(seen[c])]]
  /\ quiet' = quiet \ {d \in Lookups : pc[d] = "log" /\ Key(d) = Key(c)}
  /\ Returns(c, seen[c], "index")

Next ==
  \/ Tick
  \/ \E r \in Rows : List(r)
  \/ \E c \in Lookups :
       \/ \E s \in Selections : Find(c, s)
       \/ ReadCaptures(c)
       \/ ReadLog(c)
       \/ IndexAnswers(c)
       \/ Fails(c)
       \/ Store(c)

Spec == Init /\ [][Next]_vars

----------------------------------------------------------------------------
(* Properties *)

\* Every variable keeps to its values, and the cache holds only rows that the index
\* lists (add_captures stores what a query returned).
TypeOK ==
  /\ now \in 0..MaxTime
  /\ listedAt \in [Rows -> 0..Unlisted]
  /\ \A r \in Listed : listedAt[r] <= now
  /\ captures \subseteq Listed
  /\ queries \in [Keys -> [at : 0..MaxTime, count : -1..Cardinality(Rows)]]
  /\ begun \in 0..MaxLookups
  /\ pc \in [Lookups -> {"idle", "look", "log", "ask", "store", "done", "failed"}]
  /\ sel \in [Lookups -> Selections]
  /\ \A c \in Lookups : part[c] \in DOMAIN QueriesOf(sel[c])
  /\ seen \in [Lookups -> SUBSET Rows]
  /\ asked \in [Lookups -> 0..MaxTime]
  /\ rows \in [Lookups -> SUBSET Rows]
  /\ origin \in [Lookups -> SUBSET {"cache", "index"}]
  /\ answer \in [Lookups -> Rows \cup {NoRow}]
  /\ began \in [Lookups -> 0..MaxTime]
  /\ owed \in [Lookups -> SUBSET Rows]
  /\ quiet \subseteq Lookups

\* Rows nearer than r, on its side, that are no better an answer: Limit of them may
\* keep r out of the answer of the index.
Crowd(s, r) ==
  {q \in Listed \ {r} :
     /\ q \notin Pool(s, Rows) \/ Better(s, r, q)
     /\ \/ /\ s.policy \in {"first_after", "nearest"}
           /\ s.timestamp <= q.timestamp /\ q.timestamp <= r.timestamp
        \/ /\ s.policy \in {"last_before", "nearest"}
           /\ r.timestamp <= q.timestamp /\ q.timestamp <= s.timestamp
        \/ s.policy = "latest" /\ r.timestamp <= q.timestamp}

Crowded(s, r) == s.policy # "exact" /\ Cardinality(Crowd(s, r)) >= Limit

Missed(c, r) ==
  /\ r \in Pool(sel[c], Rows)
  /\ answer[c] = NoRow \/ Better(sel[c], r, answer[c])
  /\ ~Crowded(sel[c], r)

\* What a lookup can already take from the cache, every later lookup takes or betters:
\* whether it is answered by the cache or by the index, and whatever others do
\* meanwhile, it is never told less than an earlier one was.
KnownNotMissed ==
  \A c \in Lookups : pc[c] = "done" => \A r \in owed[c] : ~Missed(c, r)

\* A lookup that asked the index for each of its ranges misses nothing that the index
\* listed when it began, whatever was cached or logged before.
FreshMissesNothing ==
  \A c \in Lookups :
    pc[c] = "done" /\ origin[c] = {"index"} =>
      \A r \in Rows : listedAt[r] < began[c] => ~Missed(c, r)

\* The longest that an answer of a range query is used again; by default that of rows,
\* but the configuration may give nothing the longer life.
LongestTtl == IF CdxTtl >= NoCaptureTtl THEN CdxTtl ELSE NoCaptureTtl

\* An answer from the cache misses only what the index began to list within the longest
\* TTL (and the time an answer takes), unless another lookup stored an answer between
\* the two reads of the cache.
StaleWithinTtl ==
  \A c \in quiet :
    pc[c] = "done" /\ sel[c].policy # "exact" =>
      \A r \in Rows : listedAt[r] + LongestTtl + Latency < began[c] => ~Missed(c, r)

\* A lookup that finds no row at all was told so by the index within the shorter TTL;
\* an exact lookup was told so just now, for its empty answers are not logged
\* (cdx.py:282-283).
EmptyIsRecent ==
  \A c \in Lookups :
    pc[c] = "done" /\ rows[c] = {} /\ (c \in quiet \/ Immutable(c)) =>
      LET age == IF Immutable(c) THEN 0 ELSE NoCaptureTtl + Latency
      IN  \A r \in Pool(sel[c], Rows) : listedAt[r] + age >= began[c]

\* README.md:212: '"no capture" answers [...] (never for an exact timestamp SPN
\* reported)'.  An exact lookup finds a capture that the index lists when it begins:
\* refuted, for a cached row of the same second that does not qualify is served for
\* ever in place of asking.
ExactIsFound ==
  \A c \in Lookups :
    pc[c] = "done" /\ Immutable(c) =>
      \A r \in Pool(sel[c], Rows) : listedAt[r] < began[c] => answer[c] # NoRow

=============================================================================
