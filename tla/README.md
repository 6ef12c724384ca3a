# A verification development for tweet-audit

TLA+ models of tweet-audit, the TLC configurations that check them and proofs
for TLAPS.  tweet-audit takes a Twitter/X archive over HTTP, asks Gemini which
tweets break a set of moderation criteria and keeps the flagged ones in SQLite.
Line numbers refer to the files under `src/`.

- [Inventory](#inventory) of the system
- [Plan](#plan)
- [Modules](#modules) and how they correspond to the code
- [Runs](#runs): what each checks and shows
- [Findings](#findings)
- [Proofs](#proofs)
- [Not modelled](#not-modelled)

## Inventory

    client -> handler -> Worker.EnqueueParse -> jobQueue -> jobLoop -> tweetQueue -> tweetLoop -> Scorer
                              |                               |                        |           |
                              +------------- w.jobs, jobUpdateQueue, Repository -------+      breaker, limiter
                                                      |
                                          jobUpdateFlusher, Shutdown

| Part | State | Operations | What is hard | What makes it correct |
|---|---|---|---|---|
| Worker, `internal/tweets/worker/worker.go` | cache `jobs`, `jobUpdateQueue`, channels `jobQueue`, `tweetQueue`, `stop` | EnqueueParse, GetJob, jobLoop, tweetLoop, flushJobUpdates, Stop, Shutdown | four kinds of goroutines share pointers to job objects; blocking channels; batched writes; stale reads | no tweet is lost, handled twice or scored under another job's criteria; the table follows the cache; a failed job stays failed; a day's quota holds; a shutdown takes every accepted job |
| Repository, `repository/` | tables jobs, tweets, flagged_tweets, quota_tracking; one pooled connection | SaveJob, GetJob, SaveTweet, SaveFlaggedTweet with execWithRetry, MarkTweet..., quota, ListFlaggedTweets, CountFlaggedTweets | calls may fail, and most callers drop the error; another process may hold the lock; a crash keeps only the tables | each row is written as the caller thinks it is; a write survives a short outage; pages skip nothing |
| Handler, `handler/`, `service/`, `middleware/` | none | Upload, JobStatus, Flagged, Stats, Export | Upload blocks while `jobQueue` is full | every upload is answered |
| main, `cmd/tweet-audit/main.go` | none | start, signal, shutdown with two timeouts | what still runs when the process exits | a clean exit leaves no work behind |
| Gemini scorer, `scorer/gemini.go` | criteria | Score with retries and two backoffs | retries, breaker and limiter combine; the last attempt differs | bounded requests, none after a final answer, returns |
| Circuit breaker, `scorer/circuit_breaker.go` | state, two counters, time of the last failure | beforeCall, afterCall | calls that overlap a change of state | opens on failures in a row, closes on probes only, is tried again |
| Rate limiter, `scorer/rate_limiter.go` | tokens, lastRefill | Wait | waits for what is left of an interval, then refills | bounded requests per window; sleepers wake in time |
| Archive parser, `parser/parser.go` | none | ParseArchive | a regular expression over text that holds brackets; which entry of a ZIP is meant | returns the archive's tweets, or an error |
| File store, `storage/` | temporary and final files | Save, Open, Delete | a failure or a crash between creation, copy and rename | a stored file is complete; what is left behind is known |
| Configuration, `internal/config/` | none | Load, Validate | values that Validate lets through (negative retries, an interval of 0) | the other parts' assumptions hold |
| Mock scorer, validation, logging, utilities, Swagger text | none | | nothing | |

How the parts interact:

- The handler calls `EnqueueParse`, which saves the row, puts the object into
  `w.jobs` and sends the ID on `jobQueue`.  The channel is the only hand-over.
- `jobLoop` loads its *own* object of the job from the database, caches it and
  later sends each tweet on `tweetQueue`.
- `tweetLoop` loads *another* object of the same job for every tweet, again
  from the database, changes it and caches it in its turn.  So the cache, the
  update queue and a flush in progress may point to different objects of one
  job, one of which a loop may be changing.
- `updateJob` stores a pointer in the cache and in `jobUpdateQueue`.  The
  flusher goroutine and `Shutdown` take the whole queue under a lock and write
  it to the table outside the lock, in the order of a Go map: any.
- All jobs share one scorer; `tweetLoop` sets its criteria before each call.
- The handler stores the upload with the file store before it calls
  `EnqueueParse`; `processJob` opens the file by its name and parses it.  A
  crash in between loses one without the other.
- Every query of worker and handlers goes through one SQLite connection.
- `main` waits for a signal, then calls `server.Shutdown` and
  `Worker.Shutdown`, each with a timeout of 30 s, and exits.

## Plan

Done, in this order: the worker with its tables and main, since every user-visible
promise depends on it; the three parts of the scorer and what Score promises;
type correctness of the worker and the order of job updates (proved); the
abstract life of a tweet and that the worker implements it (`TweetLife`); the
worker with the real scorer (`Audit`); an upload from the form to its tweets, with
file store and parser (`Intake`, `ArchiveParser`); the flagged tweets between
writer, lock, connection and pages (`FlaggedTweets`).

The theorems followed: first the worker's (criteria, quota, shutdown; the life of
a tweet, which the later ones lean on; rows and counts; stranded tweets), then the
breaker, the limiter and Score's promise, the composition, the uploaded files, the
flagged tweets and, last, what the parser takes from an archive.  What is left:

| Next | What it needs |
|---|---|
| what the liveness properties rest on: when a goroutine is blocked, and by what (full queue, requeue, timeout) | an invariant that names the blocked states; liveness itself stays with TLC |
| torn counts in a row that SaveJob reads while a loop counts | SaveJob in one step for each field it reads; the bounds of `CountsNeverExceed` would have to be stated for each field |

## Modules

| Module | Models |
|---|---|
| `Worker` | the worker, the tables it writes, the upload and status handlers, main |
| `TweetLife` | abstract: what the worker promises for one tweet; `Worker` implements it |
| `WorkerClaims` | what comments say of the worker and the code does not keep |
| `MCWorker` | values of Worker's constants for TLC |
| `WorkerProofs` | proofs about Worker: types, criteria, quota, shutdown; updates stay in order and reach the table |
| `WorkerLife` | proof that a tweet is in one place, and that Worker implements `TweetLife` |
| `WorkerRows` | proofs of what a job's row may say, that failed jobs stay failed and which tweets are left behind |
| `RateLimiter` | the token bucket |
| `CircuitBreaker` | the circuit breaker, with any number of callers |
| `CircuitBreakerProofs` | proofs of its counters |
| `Scorer` | abstract: what the worker relies on when it calls Score |
| `GeminiScorer` | Score: its loop, with the limiter (EXTENDS) and the breaker (INSTANCE); implements `Scorer` |
| `MCGeminiScorer` | a value for GeminiScorer that a .cfg file cannot write |
| `ScorerProofs` | proofs about the limiter and Score, and that Score implements `Scorer` |
| `Audit` | `Worker` composed with `GeminiScorer`; implements `Worker` |
| `MCAudit` | values of Audit's constants |
| `AuditProofs` | proof that Audit implements `Worker`, and of its two invariants |
| `ArchiveParser` | ParseArchive as operators over token sequences, and the reference it is compared with |
| `Intake` | handler.Upload, the file store, and parseAndSaveTweets up to the parsed tweets |
| `MCIntake` | the archives, files and criteria fields Intake is checked with |
| `IntakeProofs` | proofs that stored files are whole and the others accounted for, and of what the parser takes from every archive |
| `FlaggedTweets` | SaveFlaggedTweet with execWithRetry, the lock, the connection, and a client's walk through the pages |
| `FlaggedTweetsProofs` | proofs about the pages and about the retries of a write |

### Worker

One step is one repository call, one channel operation or one store that others
can see; between them a goroutine touches nothing shared.  Where the code does
several of these without a place at which another goroutine could tell the
difference, they are one step.

| Code | Model |
|---|---|
| tables jobs, tweets, flagged_tweets, quota_tracking | `jobRow`; `saved`, `needsGemini`, `processed`; `flagged`; `quotaUsed` (today's row) |
| `w.jobs`, `w.jobUpdateQueue`, the local map of a flush | `jobs`, `jobUpdateQueue`, `jobsToUpdate[f]` for the ticker and for Shutdown |
| a `*model.Job` | `obj["job"]` or `obj["tweet"]` while a loop changes it; references are `Nil`, `Live(loop)` or `Held(final value)` |
| `jobQueue`, `tweetQueue` | sequences of bounded length; a send is enabled only when there is room |
| EnqueueParse | `EnqueueParse` (save, cache), then `SendJob` |
| GetJob on a cache miss | `GetJob` |
| processJob, parseAndSaveTweets, applyFiltersAndQueue | `JobNotFound`, `StartJob`, `ParseFails`, `ParseArchive`, `SaveTweet`, `TweetsSaved`, `FlagTweet`, `MarkFlagged`, `MarkTweet`, `QueueTweet`, `EndJob` |
| processTweetWithGemini | `PauseForQuota`, `DropTweet`, `StartScore`, `ScoreSucceeds`, `RecordScore`, `CheckDone`, `ScoreFails`, `MarkProcessed`, `QuotaExceeded`, `WakeUp`, `Requeue` |
| stop and the two drains | `JobLoopStops`, `TweetLoopStops` |
| flushJobUpdates | `Tick`, `LastTick`, `SaveJob(f, j, ok)`, `TickDone` |
| main, Stop, Shutdown | `Signal`, `HttpDrained`, `HttpTimeout`, `WorkersDone`, `Exit`, `ShutdownTimeout` |
| a crash or a new start; midnight | `Restart`; `NewDay` |

A tweet is a position of an archive (`Items`), as the code passes a fresh
`*QueuedTweet`; its row has the key (job, tweet), so an archive that repeats a
tweet has several items with one row.  The parameter `ok` of an action says
whether its repository call succeeds; `Call(ok)` charges a failure to
`MaxFaults`.

What the model simplifies, and why that is sound for its properties:

- `Score` is one step that returns any member of `Verdict`; `Audit` puts
  GeminiScorer in its place and shows that nothing else comes of it.
- `execWithRetry` is one step: its caller sees one success or one failure.
  FlaggedTweets has its inside.
- `SaveJob` reads the fields of an object at the instant it writes.  The code
  reads them without a lock a little earlier, so a mixture of old and new counts
  is possible there and not here.
- After stop, a loop's `select` may take either branch: `StartJob`, `StartScore`
  and `Tick` stay enabled beside the drains.
- `currentJobID` is written and never read; a nil repository and a nil scorer do
  not occur in the program main builds; both are left out.  So is the race of
  `activeWork.Add` with `Wait`, which needs a job to be taken in the same instant
  as the last worker ends.
- The policy that `applyFilters` needs is the constant `PolicySet`: main never
  sets one, the package allows it.
- The history variable `unsaved` says whose last SaveJob failed; no action
  reads it.
- The constants' assumptions are what the configuration ensures: `config.go:152-157`
  makes both queue sizes at least 1.  The daily limit is taken as a natural
  number; Validate does not look at it.

### TweetLife

TweetLife has three variables: the stage of each tweet ("coming", "waiting" for
its score, "gone"), the number of its rows in flagged_tweets and the set of
processed rows.  Its promise: queued at most once and in order, flagged at most
once and never after it is gone, and when gone never back.  `Worker!Stage` is the
refinement mapping; it reads where an item is off the upload, `jobQueue`,
`jobLoop`, `tweetQueue` and `tweetLoop` together.  A failed call, a bad archive,
a used-up quota and a crash are all `Lose`: the code gives such tweets up, and
the promise is that nothing worse happens to them or to others.

### The scorer

`GeminiScorer` extends `RateLimiter` and instantiates `CircuitBreaker`; `Score`
runs through `EnterBreaker` (beforeCall), `WaitForToken`, `Answered` (the request,
and afterCall) and then returns or goes through `BackOff` and `Retry`.  All times
are in ticks.  The semaphore of ten cannot block, since tweetLoop is the only caller, and contexts are never
cancelled.  `maxRetries` is chosen at the start from `Retries` and never changes.
`Scorer` says what remains when all of that is hidden.  `CircuitBreaker` is
checked with two callers although the program has one: the type has a mutex and
is written to be shared.  `RateLimiter` is checked within Score, with one caller;
with several sleepers each of them would bring a full bucket.

### Audit

`Audit` keeps every action of Worker but the ones of a tweet being scored.
`StartAudit` is StartScore and a call of Score in one step; while the call runs
(`Ask`, `Time`) the worker's variables do not change, and `FinishAudit` takes the
worker's step for the outcome: a result, the daily quota, or any other error,
`ErrCircuitOpen` among them.  `KeepsWorker` says that every behaviour is one of
Worker's `FairSpec`; its fairness half is what Worker assumes of Score, that a
call returns.  `sent` counts answered requests; it stops one above `quotaUsed`, so
that each unit of the quota is matched with a request since the one before.
Restarts are left to Worker: a new process has a new scorer.

### Intake and ArchiveParser

A script is a sequence of tokens: the characters that the parser looks at are
tokens of their own, any run of others is `"w"`, a string's quotes included.  White
space in a text that JSON escapes (`"esc"`) is none to the regular expression but
is trimmed by `isRetweet`.  So `Openings`, `Closings` and `extractJSONFromJS` are
the regular expression `=\s*(\[.*\])` (leftmost, greedy, within a line) and its
fallback, and `json.Unmarshal` has the three outcomes it can have on a part of such
a script: all tweets, none, an error.  `Originals` is the loop that drops retweets.

What a client uploads is `IsArchive`: any number of tweets with any texts over
`TextToken`, with or without the assignment before the array, on one line or on
many.  A text has no line break and no quote of its own, since JSON escapes both,
and a brace in a text is no tweet's brace.  What Unmarshal makes of files that are
no such archive is left out.

The result is compared with a reference (`ExtractionExact`), written as a
description and not as a loop: the kept tweets are placed in the archive in
order, on all the tweets whose shown text does not begin with "RT @" after white
space, with that text.  Two premises name where the code falls short: `Misread`,
and `FirstIsMeant` for the choice of the ZIP entry.

| Code | Model |
|---|---|
| Upload: form, size and file checks | `Refuse` |
| localStore.Save: create, io.Copy, rename | `CreateTemp`, `Copy`, `Rename` |
| Upload: the field "criteria", EnqueueParse, 201 | `Enqueue`, `CriteriaFrom` |
| parseAndSaveTweets: Open, ReadAll, ParseArchive | `ParseJob`, `ParseArchive` |
| a crash of the process | `Crash`: handlers and the queue are gone, files stay |

The field "criteria" comes in five shapes: absent, with the documented wrapper,
without it, with a value of a wrong type, and no JSON.  A file is "none", "part"
or "whole".  Dates, links, hashtags and attachments, which
`convertToTweetRecord` copies, are left out.

### FlaggedTweets

One tick is 10 ms, the unit of `execWithRetry`'s first backoff.  A call of
`db.Exec` waits for the busy timeout while another process holds the write lock
(`Lock`), then fails with "database is locked", after which execWithRetry sleeps
(`BackOff`, `Retry`) or returns the error (`GiveUp`).  `Connected` is the pool of
one: no query runs while an INSERT waits inside the driver; between attempts the
connection is free.  A client asks for one page after the other up to the
`total_pages` of the newest answer; list and count are two steps.  Rows of one
second keep their order of insertion, as SQLite's sorter does.

## Runs

Every module is checked by `tlc -config X.cfg M`.

| Run | Shows | Bounds, and why they are enough |
|---|---|---|
| pipeline | `InFlightOnce`: a tweet is never queued twice or queued while it is scored. `CriteriaMatch`: jobs do not see each other's criteria. `ShutdownDrainsJobs`: a clean shutdown has taken every accepted job. `UpdateOrder`: cache, update queue and both flushers hold a job's objects in order. `TypeOK` | Two uploads (with and without criteria) with two and one tweets, queues of one place: both loops block, and both jobs have tweets in flight; SIGTERM at any point, both timeouts |
| faults | `NothingStranded`, `UpdatesReachDisk`, `CountsNeverExceed`, `QuotaRespected`: what one failed call can and cannot put wrong. `LeftForReason`: what may leave a tweet behind, and how many. `KeepsLifecycle`: Worker implements TweetLife | One job of two tweets and every verdict; one failed call, one crash and one midnight, each anywhere; a limit of one call, so that the second tweet meets it |
| liveness | `EveryUploadAnswered`, `EveryJobStarted`, `EveryTweetProcessed`; `FailedIsFinal`; `CountsNeverExceed` with filters | One archive of three tweets, one of them caught by the filter, one archive that cannot be parsed; queues of one place |
| two | `StreakCounted`, `ClosedByProbes`, `Retried` | Two callers, so that one reports after the other has changed the state; thresholds above one |
| promise | `KeepsPromise`: Score implements Scorer. `OpenMeansQuiet`, `CriticalOpens`. `TwoBuckets`: at most two buckets in any window. `DueByRefill`, `SleeperWakes` | Two retries or a negative number; a breaker that opens after three failures and is tried again within one Score; a bucket of two, a token every two ticks |
| composed | `KeepsWorker`: with the real scorer the worker does what Worker says, and tweetLoop never hangs. `CallsWereMade`. `GivenUpAfterTrying` | One job of one tweet, which a daily-quota answer may requeue any number of times; no attempt, one, or two; a breaker that opens after two failures |
| intake | `StoredWhole`, `FileAccounting`; `ExtractionExact` against the reference | A script in each of the four layouts (header, lines) with up to two tweets, whose texts have "=", brackets, "RT" and white space, escaped or not, in every order that matters, in the first text, the second, both or none; beside it a ZIP with the tweets' file first, after a lookalike, or missing; one failed call, one crash |
| pages | `WalkComplete`, `RepeatsBounded`, `GivesUpLate`, `PageAnswered` | Three rows of two jobs over two seconds, so that rows tie and inserts fall before, between and after the two queries of a page; page sizes 1 and 2; outages of any length |
| done, requeue, lastflush, criteria | one finding each, see below | the smallest instance that shows it |

The bounds are guards: `MaxFaults` of `Call` and `FileCall`, `MaxRestarts`,
`MaxDays` and `MaxCrashes` of the events they name, `MaxRows` of
`SaveFlaggedTweet` and `MaxSecond` of `NextSecond`; where a run sets one to 0 the
event does not happen in it.  One failed call is enough for a property that one
lost write can break; combinations of two failures are not explored.
CHECK_DEADLOCK is FALSE for MCWorker, MCAudit and MCIntake because the system may
rest: no uploads left, or the process has exited.  No symmetry is used: the
archives tell the jobs and tweets apart.

Where failed calls count, a property says how far: `CountsNeverExceed`,
`QuotaRespected` and `NothingStranded` allow one unit for each failed call,
`UpdatesReachDisk` excuses only the job whose last SaveJob failed, and
`FileAccounting` one file.  `NothingStranded` excludes restarts, because nothing
is resumed, and days that use up the quota, because the tweet is then dropped.
`LeftForReason` has neither exclusion: it says of every step, on any day and in any
process, what a tweet it leaves behind was left for.  `CountsNeverExceed` compares
calls with the quota of one day.  Of the findings, `ShutdownFlushes` has the premise
that no call failed.

### Fairness

`FairSpec` assumes that a goroutine that can run does: `jobLoop`, `tweetLoop`,
the ticker, and every handler blocked on the queue (Go serves waiting senders in
order).  A call of `Score` ends, since the HTTP client has a timeout, retries are
bounded and sleeps end: `promise` shows it, and `composed` shows that with
the real scorer it need not be assumed.  Nothing is assumed of
clients, signals, failures, crashes or midnights.  In the limiter and the breaker
time passes and calls end; for `Retried` a caller that may call keeps calling,
as tweetLoop does while its queue is not empty.  In FlaggedTweets time passes, a
call of the driver that can return does, and `database/sql` hands its connection
to waiting requests in turn: a query that can run again and again does run
(strong fairness).  Nothing makes the other process release its lock.  Intake has
safety properties only.

## Findings

Each of these has a run in which TLC shows the behaviour.

- `done` (`DoneMeansComplete`): `ProcessedCount` is incremented when a tweet is
  queued and again when it is scored, and compared with `TotalCount` on an object
  read from a row that may be stale; a job becomes done with tweets in the queue.
- `requeue` (`RequeueEnds`): after the sleep for the daily quota, tweetLoop sends
  to the queue only it receives from.  If jobLoop filled it meanwhile, both block
  for ever.
- `lastflush` (`ShutdownFlushes`): Shutdown does not wait for the flusher, so the
  process exits with updates unwritten, or the flusher's older copy lands after
  Shutdown's newer one.
- `criteria` (`OmittedMeansDefault`): `handler.go:159` fills a zero
  `ModerationCriteria`, so a field left out of the documented wrapper is false,
  while `models.go:99` and `docs.go:447` give it its default.  The same attempt
  accepts any JSON object: criteria without the wrapper are taken for an empty
  wrapper and switch every check off, and the attempt meant for them never runs.

Other places where code and words differ, read off the code and given no run:

- `worker.go:97` says `resumePendingJobs` loads unprocessed tweets; it only logs,
  and `GetUnprocessedTweetsNeedingGemini` has no caller.
- `worker.go:625` says "with retry logic in SaveJob"; SaveJob calls Exec once and
  the flusher drops an update that failed.
- `models.go:47` calls `gemini_calls` the number of calls made for the job; two
  tweets scored between two flushes both start from the same row and count one.
- `README.md:27` has abuse patterns flagged at once; no policy is ever set, so
  `applyFilters` looks at nothing.
- `README.md:157` promises 15 requests a minute; twice that many fit into one
  window around a refill (`TwoBuckets` is the bound that holds).
- `README.md:81` draws "Failures > 5"; the circuit opens at 5.
- `TRADEOFFS.md:24` counts 4xx other than 429 as permanent problems that trip the
  breaker; only 401, 403 and 404 do.
- `worker.go:528` says "failed, but we tried"; with the circuit open nothing was
  tried, and tweet after tweet is marked processed (`GivenUpAfterTrying` says that
  this is the only way).
- `worker.go:214` and `:234` say that the remaining tweets and the work in flight
  are waited for; tweetLoop leaves an empty queue while jobLoop goes on to fill
  it, and Shutdown returns nil with tweets left.
- `gemini.go:187` retries a 429 only before the last attempt, so a daily-quota
  answer to the last one is returned as an ordinary error (`:241`) and the tweet
  is given up.
- `parser.go:145` looks for the array after "=" in any line.  In an archive of
  many lines a tweet that says `= [...]` is taken for it: the job fails, or ends
  with no tweets (`Misread`).
- `parser.go:52` takes the first name that contains "tweet"; deleted-tweets.js
  before tweets.js is parsed in its place.
- `repository.go:409` and `:428` name five retries and a backoff of 160 ms; there
  are four, and the longest sleep is 80 ms.  `GivesUpLate` is the bound that holds.
  `repository.go:408` explains the retry by goroutines that write at once; with
  one connection they never meet the lock.
- `docs.go:193` has 400 for criteria that are no JSON; they are logged and the
  upload accepted without criteria.
- `service.go:52` exports at most 10000 rows and says nothing of the rest;
  `service.go:32` multiplies page and size without a bound.
- `filestore_local.go` leaves a temporary file behind after a failed copy or
  rename, and Delete has no caller.

## Proofs

TLAPS checks them for every value of the constants that the assumptions allow:
any jobs, tweets, archives, criteria, queue sizes, thresholds, delays, page sizes
and bounds on failures.  Each theorem `Spec => []P` rests on an inductive
invariant with one lemma per action or per shape of a step.  Every safety
invariant and every safety action property of a passing run is proved.

### Worker

- `TypeCorrect`: `TypeOK` is inductive because it says, beyond types, that a busy
  loop has a job or tweet that exists and that `mark` and `send` are reached only
  within the archive.
- `CriteriaOfTheJob` (`CriteriaMatch`): only `StartScore` sets the criteria, and
  no other loop touches them while a tweet is scored.
- `QuotaKept` (`QuotaRespected`): strengthened by `QuotaInv`, that while a tweet is
  scored there is room for its call.  The failed calls are in the bound because a
  limit that cannot be read counts as not reached.
- `ShutdownDrains` (`ShutdownDrainsJobs`): `DrainInv` links where main is to where
  jobLoop is.
- `UpdatesOrdered` (`UpdateOrder`) and `RowsCatchUp` (`UpdatesReachDisk`), both from
  `DiskInv`.  `UpdatesReachDisk` alone is not inductive: a step that empties the
  last pending update writes what *that reference* holds, so one has to know that
  it is what the cache points to.  `NewestPending` says so: the update queue, if it
  has an entry for the job, agrees with the cache, and if not, the ticker's copy
  does.  For that to survive the end of a loop, the cache may point only to an
  object whose loop works on that very job (`CacheOwned`), and for an upload's
  fresh object not to overtake a pending one, work may exist only for jobs that
  have been sent (`OnlySentJobs`).
- `NeverInTwoPlaces` (`InFlightOnce`) and `LifeImplemented` (`KeepsLifecycle`, the
  refinement of `TweetLife`), from `PipeInv`.  `InFlightOnce` alone is not
  inductive: a job queued twice would be parsed twice, so `JobQueuedOnce` says
  where else a queued job may not be.  `StagesRight` ties the stage of a tweet to
  the two queues, and every action of Worker is shown to queue, flag, finish or
  lose a tweet of TweetLife, or to leave all stages alone.
- `CountsNeverClaimMore` (`CountsNeverExceed`) and `FailedForGood` (`FailedIsFinal`),
  from `RowsInv`: every value of a job's row that exists anywhere (table, cache,
  queue, a flusher's copy, the object of the loop that works on it) is a good one
  (`RowsGood`); a reference to a live object is one of the loop that works on the
  job (`RefsOwned`); a flag or a call is written down before the object counts it
  (`CountLags`); and a broken archive's last update says failed (`FailureLast`).
- `NoTweetLeftBehind` (`NothingStranded`): every step strands at most one more tweet,
  and only when one of its calls fails (`StrandedMove`).  That needs to know that a
  marked tweet belongs to a job that is past its upload and its saving
  (`MarkedTaken`) and that the set is finite.
- `LeftOnlyForReason` (`LeftForReason`), from the same move: taking a tweet when the
  quota is used up is the one step that strands without a failed call
  (`PauseStrands`), and it leaves the job paused in the cache.

### Scorer and composition

- `BreakerTypes`, `FailuresCounted` (`StreakCounted`), `ProbedBeforeClosed`
  (`ClosedByProbes`): the counters of a state are never more than what the history
  says (`CountsMatch`), for any number of callers and thresholds of zero too.
- `SleepEndsByRefill` (`DueByRefill`) holds for any number of callers.
  `AtMostTwoBuckets` (`TwoBuckets`) for the one that Score is: what was spent in the
  window and what is left make at most two buckets, one bucket counting only what
  was spent since lastRefill (`LimiterCount`); a refill comes after a whole
  interval, when nothing older is left in the window.
- `ScorerTypes`, `NoRequestWhileOpen` (`OpenMeansQuiet`), `CriticalErrorOpens`
  (`CriticalOpens`): every step of GeminiScorer is a step of the limiter or leaves
  it alone, and likewise of the breaker (`PartsStep`), so their invariants are used
  and not proved again.  `PromiseKept` is the safety half of `KeepsPromise`: each
  step is one of Scorer or a stutter; `OneRequestEach` counts one request for each
  attempt.
- `AuditIsWorker` is the safety half of `KeepsWorker`: AuditSpec implies Worker's
  Spec, so the theorems above hold of the worker with the real scorer, and
  `AuditIsScorer` says that the worker uses the scorer as GeminiScorer has it.
  `QuotaIsForCalls` (`CallsWereMade`) and `TriedBeforeGivenUp` (`GivenUpAfterTrying`)
  need both halves: Score runs only while tweetLoop waits, and what it returned
  stands until tweetLoop is done with the tweet (`TurnsOK`); a result comes from a
  request, an error without one from an open breaker (`ReportOK`).

### Intake and flagged tweets

- `IntakeTypes`, `StoredFilesWhole` (`StoredWhole`), `FilesAccountedFor`
  (`FileAccounting`), for any uploads, requests, failures and crashes, from
  `AccountInv`: a handler about to rename holds a whole temporary file and one past
  it a whole final one, where a handler is says which files it may have, and each
  stray file has a failed call.
- `ArrayExtracted`, for an archive of any length with any texts: extractJSONFromJS
  returns exactly the array if and only if `Misread` does not hold.  So `Misread`
  is no excuse but the whole truth: the condition is sufficient and necessary.
  The argument is where the tokens of a script are (`ScriptShape`): the array's
  bracket comes first, after at most one "=", and a quote stands on either side of
  every text.  With the assignment and on one line, the array is the first match and
  runs to the last bracket (`HeadedLine`).  In the other layouts the array itself
  does not match (`NoMatchAtArray`): what does lies in one text with its "="
  (`MatchedInText`), is not the whole array (`ShortMatch`), and exists for every text
  that `Misread` speaks of (`TextMatches`); without one the fallback finds the array
  (`WholeArray`).
- `TweetsExtracted` (`ExtractionExact`): the array unmarshals to the archive's
  tweets (`ContentExtracted`), what the loop keeps is what the reference describes
  (`OriginalsExact`), the first entry found is the one meant (`MeantFound`), and a
  job's tweets are what ParseArchive returned for its file (`ExtractInv`, which needs
  `StoredFilesWhole`: a partial file would parse to an error).  The library's
  induction theorems cannot be used, since they take an operator; where an argument
  goes along the tweets it is by a least counterexample, a minimal element of a
  set of natural numbers.
- `TableTypes`, `NoRowSkipped` (`WalkComplete`), `FewRepeats` (`RepeatsBounded`), from
  `PagesInv`: a walk has seen every older row that is ranked before the page it is
  at, and an inserted row only raises ranks, so none slips through.
  `PersistentWrite` (`GivesUpLate`) adds up the attempts and the pauses (`Waited`).

### What the proofs assume, and what they leave

Assumptions used: those named in `Worker`, `Audit`, `RateLimiter`, `GeminiScorer`,
`CircuitBreaker`, `Intake` and `FlaggedTweets`.  TLC evaluates them in the runs.

Only model-checked is liveness, which the prover cannot do: `EveryUploadAnswered`,
`EveryJobStarted`, `EveryTweetProcessed`, `Retried`, `SleeperWakes`, `PageAnswered`,
the liveness half of `KeepsPromise` and the fairness half of `KeepsWorker`.

## Not modelled

| Part | Why |
|---|---|
| View, Export and statistics of flagged tweets | one query each, with nothing to interleave with |
| Configuration | one-shot parsing; what it lets through appears in the assumptions |
| Prompt, response text, HTTP bodies | data that no property tells apart: `Reply` has one member for each way the code treats an answer |
| Dates, links and entities of a tweet | copied by the parser, never looked at |
| Power failure | Save does not sync; the model's crash is one of the process |
| Mock scorer | the case `Verdict = {"flag", "safe"}` |
| Request validation, logging, utilities, Swagger text | no state |
