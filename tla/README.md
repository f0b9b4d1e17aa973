# A TLA+ verification of wayback-verify

wayback-verify submits URLs to the Internet Archive's Save Page Now (SPN), follows the
jobs, looks captures up in the CDX index, hashes local files and compares, and keeps all
of it in a sqlite database. It is an asyncio library: bulk calls run many workers on one
event loop, blocking work goes to threads, and several calls, clients or processes may
share one database. This directory holds TLA+ models of that code, the TLC runs that
check them on small instances, and theorems that TLAPS proves for all instances.

Source paths below are relative to `src/wayback_verify/` in the repository.

## The system

| Component | State it keeps | Operations | Talks to |
| --- | --- | --- | --- |
| Request limiter (`http.RateLimiter`) | semaphore, lock, `_next_start`, `_paused_until` | enter, exit, `pause` | every request of Transport; `submit_many` pauses it |
| Transport (`http.Transport`) | an aiohttp session, the limiters | `request` with bounded retries and backoff | SPN, CDX, access checks |
| SPN answers (`spn`) | none | build a submission, parse a submit or a status answer | client |
| Submission (`client.submit`, `bulk.submit_many`) | the call's `quota` dict; rows of `submissions` | look for a recent job, submit, retry after a rate limit, stop at a quota, save | limiter, Transport, cache |
| Following jobs (`client.capture_status`, `bulk.wait_for_captures`) | rows of `submissions` | read the row, ask, resolve an expired job through the index, save; poll until a deadline | Transport, CDX, cache |
| File snapshots (`files`, `client.hash_file`) | rows of `file_snapshots`; a semaphore of threads | stat, look up, hash between two stats, add | the file system, cache |
| CDX lookups (`cdx`) | `captures`, `capture_urls`, `cdx_queries` | `find`: one or two cached queries, selection of a capture | Transport, cache |
| Verification (`verify`, `client.verify_*`, `bulk.verify_many`) | rows of `verifications`; a `WriteBuffer` | hash, find, compare, record | file snapshots, CDX, cache |
| Bulk runner (`bulk.run_bulk`, `Progress`, `WriteBuffer`) | shared iterator, results, buffer | take an item, isolate its error, tell progress, flush | all `*_many` calls |
| History and pruning (`cache.Cache`) | the database | one transaction per write, queries, `prune` | everybody |
| Migrations (`cache._migrate`) | `user_version` | run at open | other processes |
| Access checks (`access`, `client.check_access`) | rows of `access_checks` | request, classify, cache for a TTL | Transport, cache |
| Report (`report`, `client.report`) | none | group results into failures | cache |
| Configuration | none | read the environment | everybody |

What is hard about it:

- *Interleaving.* Every `await` lets other workers run. State that was read before one is
  used after it: the row of a job (client.py:152-168), the recent submission
  (bulk.py:243), the cached index rows and the log entry (cdx.py:269-280), the file's
  state (client.py:122-129), the buffer (bulk.py:156-159).
- *Failure.* Requests fail, time out, lose their answer after the Archive acted, and are
  retried; calls of the database fail, also between the Archive's answer and its row;
  progress callbacks raise; the process ends between a POST and the save.
- *Time.* A pause may be asked for while somebody sleeps at the gate; a file may change
  twice within one tick of the file system's clock; cached answers expire; captures
  appear in the index later than they are made, and in any order.
- *Cancellation* at each await of the limiter.

What makes each component correct:

- The limiter: spacing, concurrency and pauses are kept; no permit is lost; nobody starves.
- Submission: every job the Archive made is recorded, or its loss is accounted for; what
  a caller is told is what the table says; a quota stops the batch; the call returns.
- Following: an end of a job, once stored, stays; success names a real capture; a job
  that was asked about can be resumed; a wait ends.
- Snapshots: a reused hash is the hash of the file as it is; nothing is hashed twice
  without need; a failing thread gives its worker back.
- Lookups: nothing that is known is missed, and what an answer may miss is bounded by
  the limit of rows and the TTL of the entry that vouched for it.
- Verification: each verdict is stored once, none is stored that was told as an error,
  and pruning spares what is referred to.
- Access checks: what is told, the Archive did within the TTL; a failure that may pass is
  told only after every attempt; nobody is told an older answer than was stored.
- History: a report tells the result of the later call; pruning changes no report about
  the time since its cutoff.
- Migrations: the tables are those of the version that the database states.

`PROJECT.json` lists every hazard at its line with the properties that cover it.

## The modules

| Module | Models | State and actions |
| --- | --- | --- |
| `Pacing` | what a limiter promises, abstractly | running requests, time since the last start, pauses not yet over |
| `RateLimiter` | `http.RateLimiter` | one action per await of `__aenter__`: `Enter`, `Acquire`, `TakeLock` (to the gate, or to sleep), `Wake`; `Exit`, `Pause`, three cancellations, `Tick` |
| `SubmitMany` | `bulk.submit_many` over `run_bulk`, `client.submit` and Transport | calls (`Call`, `TakeItem`, `Gathered`, `SaveNextFailed`, `Return`) and items (`CheckRecent`, `LoopHead`, `StartPost`, the answers `Accepted`/`Refused`/`PostFails`/`AnswerLost`, `Save`, `Judge`); `DatabaseFails` and `FinalSaveFails`; `PauseOver`, `Crash` |
| `CaptureStatus` | `capture_status`, `_resolve_expired`, `wait_for_captures`, the upsert | pollers between `read`, `ask`, `lookup`, `save` and `pause`; the Archive's jobs, captures and index; `CacheFails`, `Crash` |
| `FileSnapshots` | `hash_file`, `snapshot_file`, `find_snapshot`, `add_snapshot` | calls with their thread (stat, open, read, stat again, second attempt) against programs that write, touch, replace and remove the file |
| `CdxCache` | `CdxClient.find` with `_cached_query`, `select_capture`, `compare_urls` | lookups between `look`, `log`, `ask` and `store`; the index; the cached rows and the query log |
| `BulkVerify` | `verify_many`, `WriteBuffer`, `add_verifications`, `prune` | workers between `hash`, `look` and `write`; the call's final flush; other hashing calls; `Prune` |
| `AccessChecks` | `client.check_access`, `access.check_access` over `Transport.request`, `recent_access_check`, `add_access_checks`, `prune` | calls between `look`, `send`, `heard`, `backoff` and `store`, or ended by `DatabaseFails`; the Archive, which may change what it does; the rows of one capture |
| `History` | `verify_digest` and `verify_file` up to their verdict (`_selection`, `compare`), `_upsert_submission`, `latest_submission`, `prune`, `client.report` with `build_report` | calls between `find`, `ask` and `store`; `Submitted`, `Resolved`, `Prune`; the report as operators on the tables, for every `since` |
| `Migrations` | `Cache.__init__` and `_migrate` | processes that read the version, run scripts, fail, open and end |

Each has an `MC` module with the values TLC uses, and `*Proofs` modules hold theorems.

How they compose. `RateLimiter` is shown to implement `Pacing` (`Paced`, under the
refinement mapping `running <- Running`), and `SubmitMany` uses no more of the limiter
than `Pacing` promises: no POST starts in a pause, and at most `Concurrency` run.
`BulkVerify` uses of `FileSnapshots` that a call finds a row of its path or appends one,
and of `CdxCache` that a lookup ends. `CaptureStatus` uses that a lookup answers with a
listed capture at or after its time, if there is one. `History` takes from `CdxCache`
that a lookup finds a capture the selection allows, or none, and from `CaptureStatus` that
a job's row ends in success or error and stays so; from `BulkVerify` and `AccessChecks`,
that a result is stored some time after it was made, in any order, or not at all.

Conventions. What runs between two awaits is one action. A database call made through
`_run` is one action, for `_tx` and `_query` hold the connection's lock. A monotonic
deadline is kept as the ticks left until it. History variables (marked *history* where
they are declared) record what properties speak of and influence no step. An operator
introduced with "Mistake:" is a plausible error in the definition that follows it; no
specification uses it, and putting it in that definition's place makes the property that
`PROJECT.json` names fail, so each property is known to depend on the code.

## The runs

| Run | Instance | Distinct states | What it shows |
| --- | --- | --- | --- |
| `limiter` | 4 coroutines, 2 permits, interval 2, pauses up to 3 ticks | 29,584 | `PermitsAccounted`, `Paced` (the refinement), `Served`, with cancellation at every await |
| `submit` | 2 workers on 2 URLs, or 2 calls on one URL, one of them with `reuse_recent`; 2 rate-limited attempts, 2 transport attempts, one lost answer, one failing call of the database, one crash | 378,580 | `JobsAccounted`, `ResultIsTheJob`, `ResultsRecorded`, `QuotaStops`, `CallReturns` |
| `status` | 1 job, stored before or not, 2 pollers | 398,950 | `FinalStaysFinal`, `FinalAnswerStored`, `IdentityKept`, `SuccessHasCapture`, `WaitedIsResumable`, `WaitEnds` |
| `snapshots` | 2 calls on one thread, 2 inodes, 2 contents of two chunks, 2 changes, 2 ticks | 511,852 | `ReusableIsCurrent`, `AnswerWasTrue`, `KnownNotRehashed`, `CallEnds` |
| `cdx` | 2 lookups (exact, nearest, latest), 3 rows, limit 1 | 1,522,038 | `KnownNotMissed`, `FreshMissesNothing`, `StaleWithinTtl`, `EmptyIsRecent` |
| `verify` | 3 items on 2 workers in chunks of 2, one failing transaction, one raising callback | 193,566 | `StoredOnce`, `VerdictsStored`, `ErrorsNotStored`, `PruneKeeps`, `CallEnds` |
| `access` | 2 callers, 3 calls, 2 attempts, TTL 1, 7 behaviours of the Archive and 1 change among them, 2 ticks | 1,254,160 | `TellsTheTruth`, `OutlastsRetries`, `NeverGoesBack` |
| `history` | 2 calls, 1 file and the results without a file, the checks of 1 capture, 2 submissions, 1 tick | 1,048,030 | `LaterCallWins`, `PruneHidesNothing` |

Every passing run also checks `TypeOK`. Four further runs each check one statement of a
document or comment that the code does not keep:

| Run | Statement | What the code does |
| --- | --- | --- |
| `cdx_exact` | README.md:212, never "no capture" for an exact timestamp | a cached row of the same second that does not match the URL is served in place of asking, for ever |
| `verify_abort` | README.md:102, one failing item never aborts a batch | `prune()` deletes the snapshot of a buffered result; the foreign key refuses the last chunk and the call raises |
| `verify_selection` | bulk.py:504-505, the selection of a batch is not for items with a successful submission | it is given to them, too, and taken before the submission: another capture than the item's own is compared |
| `migrate_race` | cache.py:36, each script migrates from the version before it | two processes read version 0 of a new database; the second runs script 1 on a migrated one, which fails, and `Cache()` raises |

The passing properties state what does hold, and with it the limits of the code:

- `FinalStaysFinal`, `FinalAnswerStored`, `IdentityKept` and `SuccessHasCapture` are of the
  jobs that `submit_many` had stored before anyone polled. For a job the cache does not
  know, `FinalAnswerStored` says only that a row is left: it may be pending, for the slower
  of two polls may write over the faster one's final row (client.py:166-168), though
  client.py:152 has final answers cached; and its URL may be missing.
- A success may be stored without the time of its capture, where the Archive's answer has
  none (spn.py:117); `SuccessHasCapture` then says that the job did succeed.
- `WaitedIsResumable` is of the pauses of a wait. A wait whose first save fails is told an
  error (bulk.py:335) and has left no row.
- `JobsAccounted` excepts exactly the jobs whose answer was lost, and those whose answer
  arrived and whose save then failed or was cut off by a crash (client.py:145-148). When
  the answer was lost at the last attempt, or the save failed, a call that goes on tells
  and records the item as `not_submitted` (bulk.py:131-132, 268-269, 280-282), though
  models.py:67 has the Archive never have accepted those; for a failed save it is the
  third case of `ResultIsTheJob`. Every other job of a call that crashed or raised is in
  the table. Two overlapping calls may both submit a URL (bulk.py:243).
- A quota or a rate limit whose save failed stops and pauses nothing: `QuotaStops` counts
  from a quota that was saved.
- `submit_many` raises when a final save fails (bulk.py:281-282), though README.md:102 has
  one failing item never abort a batch; `CallReturns` says returns or raises.
- `StaleWithinTtl` and `EmptyIsRecent` are of lookups between whose two reads no store of
  their query came. Between them, another lookup may store rows and log its query, and the
  log then vouches for the nothing that was read before: the lookup answers "no capture",
  which the index never said (cdx.py:269-280).
- `VerdictsStored` excepts the chunks that the database refused.
- `TellsTheTruth` lets an answer of 429 or 503 be told as inaccessible for a whole TTL after
  the outage, if the outage lasted through all attempts. It is of what is told of the
  Archive: a call that met a failing database is told that error (bulk.py:577-585), in a
  batch as `accessible=False`, whatever the Archive had answered, so that `OutlastsRetries`
  does not speak of it either. What holds is that no such error becomes a row.
- `LaterCallWins` is of calls of which one began after the other was stored. Of two that
  overlap, a report tells the one that was stored last. It is of results with one key, too:
  a `FILE_ERROR` has no snapshot, so no later verdict of the file replaces it in a report.
- The report itself is modelled as the code has it: a URL's latest submission is that with
  the last row id, not the last updated (client.py:405), and of several failed captures of
  a URL the one that remains is the verdict with the oldest time (cache.py:522 sorts them
  newest first, report.py:153 keeps the last). `PruneHidesNothing` is of that report.

### Bounds

Counters that the code leaves unbounded have a bound that is named a bound where it is
declared. They are chosen so that the case a property is about happens, which the
mistakes confirm: with each of them the run finds the violation within these bounds.

- `limiter`: with 2 permits, 4 coroutines fill the permits and both queues wait; pauses
  of 3 outlast the interval of 2, so a pause can begin and grow during a sleep.
- `submit`: two URLs on two workers let one meet the quota while the other is in each of
  its steps; two calls on one URL overlap, follow each other, or lie across the crash. One
  failing call of the database may be that of any step.
- `status`: one job suffices, rows of different jobs are never read together; two
  pollers race; captures may be made before the slack, within it, and after submission.
- `snapshots`: two chunks are the least that can be torn; two changes can restore a
  content; two ticks tell changes within one from changes across one.
- `cdx`, `cdx_exact`: rows that differ by scheme, by page and by time, with a limit of 1, so that a
  row can crowd another out; lifetimes 0 and 1 on a clock of 0..2 (the shorter for
  an empty answer, as by default; the other order shows no violation either). Lookups
  may be begun only `MaxLookups` times, after which the system stops: this run does not
  check deadlock. Nothing in the module tells the two lookups apart, so they are symmetric.
- `access`: two attempts tell the last from the one before it; three calls of two callers
  let two overlap and a third find what they stored; a TTL of 1 on a clock of 0..2 lets a
  row be fresh, just fresh and expired; one change of mind is an outage that begins or
  ends at any point of a request. An answer is read in the tick it was given in (`Latency`
  is 0; the proofs are for any). The system stops when `MaxCalls` are begun, and so
  deadlock is not checked.
- `history`: two calls in sequence or overlapping are what the order of rows is about; two
  submissions tell the last row from the last updated; cutoffs and reports lie before, at
  and after the tick. This system stops, too.
- `verify_selection`, `migrate_race`: one call and one submission; two scripts, one old
  package and two new ones.
- `verify`: three items in chunks of two leave one for the final flush, and a chunk is
  written while both workers work.

### Fairness

- `RateLimiter`: weak fairness of time, of the library's wakeups and of `Exit` (requests
  have a timeout). Nobody has to enter, be cancelled, or pause. `Served` is of coroutines
  after pauses stop: the code has no bound on how often it may be paused.
- `SubmitMany`: pauses are finite; some step of a call is taken while one is possible. No
  item is favoured. Calls need not start and the process need not crash.
- `CaptureStatus`: weak fairness of a poll's steps, and strong fairness of the end of a
  wait at its pause: the deadline is compared at each pause and time passes, so it is
  not missed at all of infinitely many. Nothing is assumed of the Archive.
- `FileSnapshots`, `BulkVerify`: the event loop and the threads run what can run; other
  programs, other calls and `prune` need never act.
- `CdxCache`, `AccessChecks`, `History`, `Migrations`: none; their properties are of safety.

## The proofs

For every value of the constants that satisfies the named assumptions, TLAPS proves:

| Module | Theorem | Statement |
| --- | --- | --- |
| `RateLimiterProofs` | `TypeCorrect`, `PermitsNeverLost`, `GateNeverStuck` | `TypeOK`, `PermitsAccounted`, `GateHeldBySleeper` are invariants |
| | `KeepsPace` | `Spec => Paced`: the limiter implements `Pacing` |
| `CaptureStatusProofs` | `TypeCorrect`, `IdentityNeverLost`, `ToldIsStored`, `SuccessIsReal`, `WaitsAreResumable` | `TypeOK`, `IdentityKept`, `FinalAnswerStored`, `SuccessHasCapture`, `WaitedIsResumable` are invariants |
| | `FinalNeverLost` | the action property `FinalStaysFinal` |
| `SubmitManyProofs` | `TypeCorrect`, `NoJobOrphaned`, `ResultIsReal`, `ToldIsRecorded`, `QuotaIsHeeded` | `TypeOK`, `JobsAccounted`, `ResultIsTheJob`, `ResultsRecorded`, `QuotaStops` are invariants |
| `FileSnapshotsProofs` | `TypeCorrect`, `ReuseIsSound`, `AnswersAreTrue`, `KnownIsReused` | `TypeOK`, `ReusableIsCurrent`, `AnswerWasTrue`, `KnownNotRehashed` are invariants |
| `BulkVerifyProofs` | `TypeCorrect`, `NothingTwice`, `NoErrorStored`, `ReturnedIsStored`, `PruneSpares` | `TypeOK`, `StoredOnce`, `ErrorsNotStored`, `VerdictsStored`, `PruneKeeps` are invariants |
| `AccessChecksProofs` | `TypeCorrect`, `FailureOutlastsRetries`, `NewestIsTold`, `ToldIsTrue` | `TypeOK`, `OutlastsRetries`, `NeverGoesBack`, `TellsTheTruth` are invariants |
| `CdxCacheProofs` | `TypeCorrect`, `CachedIsNotMissed`, `AskedIsNotMissed`, `CacheIsNotStale`, `NothingIsRecent` | `TypeOK`, `KnownNotMissed`, `FreshMissesNothing`, `StaleWithinTtl`, `EmptyIsRecent` are invariants |
| `HistoryProofs` | `TypeCorrect`, `LaterCallIsTold` | `TypeOK`, `LaterCallWins` are invariants |
| | `PruneIsSafe` | the action property `PruneHidesNothing` |
| | `NeverBetweenVersions`, `OpenedIsMigrated` | of `Migrations`, which the module instantiates: `SchemaIsVersion`, `OpenHasSchema` are invariants: however processes race and end, a database is never between two versions, and one that was opened has its tables |

The arguments:

- *Limiter.* The permits and the lock are each accounted for by where the coroutines are.
  For the refinement the deadlines must be tied to what was promised: `nextStart` covers
  what is left of the interval since the last start, and `pausedFor` every pause not yet
  over. A sleeper looks at the deadlines again when it wakes, so it starts only when both
  are 0, which is when `Pacing` allows it. `Paced` alone is not inductive.
- *Following jobs.* `IdentityInv` adds to `IdentityKept` the copies in flight: the row
  each poller read and the answer it is about to save. A stored job's row exists when
  anyone reads it, so a pending answer is never worth saving for it, from which
  `StoredRowStep` follows: a step leaves a stored row alone or makes it final.
  `CaptureInv` says that every success, in the Archive, in flight or stored, is
  creditable to a capture, or names none and is the job's own (`Shown`). `ResumeInv` follows
  the row a poll goes on from: what is about to be saved has a status, no step takes a row
  away, and a pending answer that was not worth saving was not because a row is there. It
  also gives the rows that `FinalAnswerStored` asks for of jobs that were not stored.
- *Bulk submission.* `Single` says in every step of an item which of its jobs were
  answered: none until it has an accepted answer, then that one, so no retry ever starts
  with a job in hand; and a job whose save failed (`Dropped`) is the only one of its item,
  which has ended as a network error. `Accounted` follows each job from the answer to its
  row, or to the failure that lost it. `Numbered`
  (the jobs of an item are fewer than the next number) keeps a new job from being an old
  one. For a call, the items its workers have not reached are untouched, which needs the
  URLs to be distinct, and the final saves have reached those behind `next`.
  `QuotaStops` alone is not inductive, for what counts is what may still be sent. `Left`
  is the set of the attempts that the items of a call at the limiter or at work have left;
  `QInv` bounds what was sent since the quota and `Left` together by
  `(Concurrency - 1) * MaxAttempts`. The item that meets the quota is done, so the others
  are at most `Concurrency - 1`, each with at most `MaxAttempts`; from then on an attempt
  moves from `Left` to what was sent, and no item that is taken gets past the quota check.
- *Snapshots.* The heart is `NotComeBack`: a state in which the file was seen at rest
  does not come back once the file has changed, for its change time only grows and an
  inode that is reused is stamped anew. `Seen` then relates what each call holds (its two
  stats, the inode it has open, the chunks it has read) to the file as long as the state
  is current, `Truthful` to the contents of the file since the call began, and `Novel`
  says that a state that was known is found.
- *Lookups.* `Better` is shown to be the order of a key of three integers, so that being
  no better is transitive; a finite pool then has a best row, since the set of the rows
  that beat a row is smaller for a better one, and the order of strict subsets of a finite
  set is well founded (`BestExists`). `Covered(k, S, r)` says what rows `S` must be for a
  query `k` to have answered for a row `r`: `r` is there, or `Limit` rows of the range
  that are at least as near. What the index answers covers all it lists
  (`AnswersCover`), and of a row that is covered the selection takes one no worse, or
  the rows in its place are a crowd (`CoveredIsNotMissed`). The invariant `IInv` has three
  parts: what a log entry vouches for, the cached rows cover (`EntryCovered`: all that was
  listed `Latency` before it); what a lookup has in hand, read from the cache or from the
  index, covers what it will be taken to answer for (`LogInv`, `StoreInv`, where a store by
  another lookup between the two reads takes the first away); and the rows of the
  queries it is through with cover all that is due (`Told`). None of the four properties
  is inductive, since each speaks only of lookups that are done.
- *Verification.* `Accounted` says where the result of each item is: nowhere while it is
  not taken or worked at, and then in one of the buffer, one chunk, the table. Buffer,
  chunks and table being apart gives `StoredOnce`, what is told as an error being in none
  of them gives `ErrorsNotStored`, and all workers having stopped when the last chunk is
  written gives `VerdictsStored`. `References` adds to `PruneKeeps` that ids are given out
  in order, so that a row that is added is the newest of its path.

- *Access checks.* `Counted` ties the history of failures to the request under way: the
  failed attempts of its method are those before the present one, and when GET is sent, HEAD
  has failed in all its attempts or was refused. With it a conclusion from a transient
  answer means that every attempt is spent. `Owed` says that the answer a caller is owed
  is still in the table, so the newest row of the TTL is not older; `Truth` that each row
  was stamped within the latency of an answer, which the clock cannot outrun while an
  answer is being read, and that what is concluded is what a GET would have been answered;
  a call that the database failed has nothing to store.
- *History.* Rows are numbered in the order they are stored, and `Stamped` says that a result
  is not older than the rows that were stored when its call began. A row that hides
  another has the greater number; were it the one of the earlier call, it would not be.
  For prune, each part of a report since the cutoff is shown to be read from rows
  that prune leaves. For the types, `Counted` bounds the last row id and the calls under way
  together by the calls begun, and `Registered` ties the row of a submission to what
  became of it and to the clock.
- *Migrations.* `NeverAhead`: no process believes the database to have a later version than
  it has, so a script that applies is the next one, whoever runs it.

The assumptions are those the modules name: finite sets of actors and of rows, sizes that
are natural numbers (at least 1 where the code takes `max(1, .)`), `run_bulk`'s number of
workers, at least one selection to look for (`CdxCache`), and the order of the times in
`CaptureStatus`. `SubmitMany` is proved for any number of calls that overlap, though its run has two.

Every invariant and every action property of the passing runs is proved. What stays with
TLC is liveness (`Served`, `CallReturns`, `WaitEnds`, both `CallEnds`), for fairness and
ENABLED are out of the prover's reach, and the freedom from deadlock that the runs check.
The inductive invariants were model-checked on the instances of the runs first.

## What is not modelled

- Calls of the database that fail, in `FileSnapshots`, `CdxCache` and `History`: there the
  call raises, and leaves the tables as they were. They are modelled in `SubmitMany`,
  `CaptureStatus`, `AccessChecks` and, for writes, in `BulkVerify`.
- Progress callbacks that raise, but in `BulkVerify`; what they do to `run_bulk` is the same
  in every bulk call.
- The lengths of backoffs and pauses and `parse_retry_after` (a `Retry-After` of 0 falls
  back to the default): the models have pauses of any length, or none.
- The TTL of recent submissions: every job of a run is recent to a call with
  `reuse_recent`. The age of a submission
  never changes an answer other than "recent or not".
- Path resolution, directories and globs of `hash_files`; platforms where the change time
  is a birth time (there two writes that restore size and mtime are not seen).
- Notes and messages. `History` has the verdicts of `compare`; `BulkVerify` distinguishes only
  a verdict from an error that `on_error` made.
- The URL that SPN finally captured, which `verify_digest` looks up in place of the item's
  (client.py:236-243): in `History` a capture is found or not, under whatever URL.
- `prune` of the query log; `CdxCache` and `SubmitMany` keep their rows. In `BulkVerify` the
  cutoff of `prune` lies before the call.
- The time between the stamp of a submission and its save: in `History` they are one step.
  A report reads its three tables in one step, too.
- Cancellation of whole batches; the models cancel at the limiter only.
- The scripts of the migrations but for their order: each makes what the next alters.
- Configuration, credentials, formatting and the progress bar, which keep no state that
  others read: their values are the constants of the modules.

## Plan

Done: `Pacing`, `RateLimiter`, `CaptureStatus`, `SubmitMany`, `FileSnapshots`, `CdxCache`,
`BulkVerify`, `AccessChecks`, `History` and `Migrations`, all with proofs. The order was
that of importance: what reaches the Archive, what is recorded of it, what a verdict rests
on, what is told of it.

To come:

1. That no one waits for ever, as far as it is safety: for `SubmitMany` and `BulkVerify`,
   an invariant that names, in every state that is not the end, the action whose guard
   holds.
2. `prune` of the query log in `CdxCache`: a pruned entry only makes a lookup ask again.
