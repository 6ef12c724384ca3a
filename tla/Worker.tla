------------------------------- MODULE Worker -------------------------------
(***************************************************************************)
(* The background worker of tweet-audit (internal/tweets/worker) with the  *)
(* tables it writes (internal/tweets/repository) and the part of main that *)
(* shuts it down.  Four kinds of goroutines share one process:             *)
(*                                                                         *)
(*   upload handlers   EnqueueParse: save the job row, cache the job, send *)
(*                     its ID to jobQueue                                  *)
(*   jobLoop           parses an archive, saves and queues its tweets      *)
(*   tweetLoop         scores one queued tweet at a time                   *)
(*   ticker            jobUpdateFlusher: writes batched job updates        *)
(*   main              waits for a signal and shuts everything down        *)
(*                                                                         *)
(* A *Job is passed by pointer: the cache, the update queue and a flush in *)
(* progress may all point to an object a loop is still changing.  Hence    *)
(* the two live objects obj["job"] and obj["tweet"], one per loop, and     *)
(* references that are either nil, point to a live object, or hold the     *)
(* final value of an object nobody changes any more.                       *)
(***************************************************************************)
EXTENDS Naturals, Sequences, FiniteSets

CONSTANTS
    Job,             \* job IDs; GenID never repeats one
    Tweet,           \* tweet IDs
    Archive,         \* [Job -> Seq(Tweet)]: what ParseArchive returns
    BadArchive,      \* jobs whose archive cannot be opened or parsed
    Criteria,        \* moderation criteria
    DefaultCriteria, \* model.DefaultCriteria()
    NoCriteria,      \* a nil *ModerationCriteria
    JobCriteria,     \* [Job -> Criteria \cup {NoCriteria}]: what was uploaded
    Threatening,     \* tweets that applyFilters flags when there is a policy
    PolicySet,       \* w.policy # nil; FALSE in every worker main starts
    Verdict,         \* what Score may return, see Verdicts
    JobQueueSize,    \* capacity of jobQueue
    TweetQueueSize,  \* capacity of tweetQueue
    DailyQuotaLimit, \* w.dailyQuotaLimit
    UpdateEvery,     \* applyFiltersAndQueue updates the job every so many tweets
    MayStop,         \* whether SIGTERM can arrive
    MaxFaults,       \* bound: repository calls that fail
    MaxRestarts,     \* bound: crashes, or starts after an exit
    MaxDays          \* bound: midnights

\* "quota" is ErrDailyQuotaExceeded, "error" every other error.
Verdicts == {"flag", "safe", "quota", "error"}

ASSUME ArchiveAssumption == Archive \in [Job -> Seq(Tweet)]
ASSUME CriteriaAssumption ==
    /\ DefaultCriteria \in Criteria
    /\ NoCriteria \notin Criteria
    /\ JobCriteria \in [Job -> Criteria \cup {NoCriteria}]
ASSUME InputAssumption ==
    /\ BadArchive \subseteq Job
    /\ Threatening \subseteq Tweet
    /\ Verdict \subseteq Verdicts
    /\ PolicySet \in BOOLEAN
    /\ MayStop \in BOOLEAN
ASSUME SizeAssumption ==
    /\ JobQueueSize \in Nat \ {0}
    /\ TweetQueueSize \in Nat \ {0}
    /\ DailyQuotaLimit \in Nat
    /\ UpdateEvery \in Nat \ {0}
    /\ MaxFaults \in Nat
    /\ MaxRestarts \in Nat
    /\ MaxDays \in Nat

VARIABLES
    jobRow,         \* table jobs
    saved,          \* table tweets: the rows,
    needsGemini,    \*   those with needs_gemini = 1,
    processed,      \*   those with processed = 1
    flagged,        \* table flagged_tweets: rows written for each QueuedTweet
    quotaUsed,      \* table quota_tracking: api_calls of the current date
    jobs,           \* w.jobs, the in-memory cache
    jobUpdateQueue, \* w.jobUpdateQueue
    jobsToUpdate,   \* for each flusher, the updates it has yet to write
    obj,            \* the job object each loop is changing
    jobQueue,       \* w.jobQueue
    tweetQueue,     \* w.tweetQueue
    upload,         \* where each upload is
    jl,             \* jobLoop: [pc, job, next]
    tl,             \* tweetLoop: [pc, item, hit]
    scorerCriteria, \* the criteria the shared scorer uses
    ticker,         \* the flusher goroutine
    main,           \* main
    httpForced,     \* server.Shutdown timed out: handlers may still run
    unsaved,        \* history: jobs whose last SaveJob failed
    faults, restarts, days  \* what is spent of each bound

tables == <<jobRow, unsaved, saved, needsGemini, processed, flagged, quotaUsed>>
refs   == <<jobs, jobUpdateQueue, jobsToUpdate>>
queues == <<jobQueue, tweetQueue>>
process == <<ticker, main, httpForced>>
spent  == <<faults, restarts, days>>
vars   == <<tables, refs, obj, queues, upload, jl, tl, scorerCriteria,
            process, spent>>

-----------------------------------------------------------------------------
Loop    == {"job", "tweet"}
Flusher == {"ticker", "shutdown"}
Status  == {"absent", "queued", "running", "done", "failed", "paused_quota"}

\* The fields of a job that change; "absent" stands for no row at all.
Row == [status : Status, processed : Nat, total : Nat, calls : Nat, flagged : Nat]
Absent == [status |-> "absent", processed |-> 0, total |-> 0, calls |-> 0, flagged |-> 0]
Fresh  == [Absent EXCEPT !.status = "queued"]

\* A QueuedTweet: the tweet at a position of a job's archive.  Its row in the
\* tables has the key (job, tweet), so an archive that repeats a tweet has
\* several items with one key.
Items == UNION {{[job |-> j, pos |-> p] : p \in DOMAIN Archive[j]} : j \in Job}
NoItem == [job |-> "none", pos |-> 0]
Key(i) == <<i.job, Archive[i.job][i.pos]>>

\* One more processed tweet, flagged or not, that took so many calls.
PlusFlagged(r, calls, hit) ==
    [status |-> r.status, processed |-> r.processed + 1, total |-> r.total,
     calls |-> r.calls + calls, flagged |-> r.flagged + 1]
Plus(r, calls, hit) ==
    [status |-> r.status, processed |-> r.processed + 1, total |-> r.total,
     calls |-> r.calls + calls, flagged |-> r.flagged + (IF hit THEN 1 ELSE 0)]

\* References to job objects.
Ref == [at : {"nil", "held"} \cup Loop, row : Row]
Nil     == [at |-> "nil", row |-> Absent]
Live(w) == [at |-> w, row |-> Absent]
Held(r) == [at |-> "held", row |-> r]
Deref(ref) == IF ref.at \in Loop THEN obj[ref.at] ELSE ref.row

\* Loop w is done with its object, whose final value is r.
Released(rs, w, r) == [j \in Job |-> IF rs[j].at = w THEN Held(r) ELSE rs[j]]

stopped == main \in {"stopping", "flushing", "exited", "aborted"}
alive   == main \notin {"exited", "aborted"}

\* A call of the repository succeeds, or fails and uses up one fault.
Call(ok) == IF ok THEN UNCHANGED faults
            ELSE faults < MaxFaults /\ faults' = faults + 1

\* A SaveJob of j with the fields r.
SavedRow(j, r, ok) ==
    /\ jobRow' = IF ok THEN [jobRow EXCEPT ![j] = r] ELSE jobRow
    /\ unsaved' = IF ok THEN unsaved \ {j} ELSE unsaved \cup {j}

JobBusy   == {"parse", "save", "filter", "mark", "send"}
TweetBusy == {"scoring", "recording", "checking", "marking", "sleeping", "requeueing"}
JobIdle   == [pc |-> "idle", job |-> "none", next |-> 0]
TweetIdle == [pc |-> "idle", item |-> NoItem, hit |-> FALSE]

-----------------------------------------------------------------------------
(* Job updates *)

\* updateJob: cache the object and queue it for the flusher.
QueueFirst(j, ref) ==
    /\ jobs' = [jobs EXCEPT ![j] = ref]
    /\ jobUpdateQueue' = IF jobUpdateQueue[j].at = "nil"
                         THEN [jobUpdateQueue EXCEPT ![j] = ref] ELSE jobUpdateQueue
    /\ UNCHANGED jobsToUpdate
updateJob(j, ref) ==
    /\ jobs' = [jobs EXCEPT ![j] = ref]
    /\ jobUpdateQueue' = [jobUpdateQueue EXCEPT ![j] = ref]
    /\ UNCHANGED jobsToUpdate

\* The loop w returns and drops its object, whose final value is r.
Return(w, r) ==
    /\ jobs' = Released(jobs, w, r)
    /\ jobUpdateQueue' = Released(jobUpdateQueue, w, r)
    /\ jobsToUpdate' = [f \in Flusher |-> Released(jobsToUpdate[f], w, r)]
    /\ obj' = [obj EXCEPT ![w] = Absent]

\* The last thing loop w does with job j is an updateJob with value r.
UpdateAndReturn(w, j, r) ==
    /\ jobs' = [Released(jobs, w, r) EXCEPT ![j] = Held(r)]
    /\ jobUpdateQueue' = [Released(jobUpdateQueue, w, r) EXCEPT ![j] = Held(r)]
    /\ jobsToUpdate' = [f \in Flusher |-> Released(jobsToUpdate[f], w, r)]
    /\ obj' = [obj EXCEPT ![w] = Absent]

-----------------------------------------------------------------------------
(* Upload handlers *)

\* http.Server still runs handlers: until Shutdown returns, and those that
\* outlast its timeout until the process exits.
HandlersRun == alive /\ (main \in {"serving", "draining"} \/ httpForced)

\* EnqueueParse up to the send: a SaveJob that fails is only logged.
EnqueueParse(j, ok) ==
    /\ HandlersRun
    /\ upload[j] = "none"
    /\ Call(ok)
    /\ SavedRow(j, Fresh, ok)
    /\ jobs' = [jobs EXCEPT ![j] = Held(Fresh)]
    /\ upload' = [upload EXCEPT ![j] = "sending"]
    /\ UNCHANGED <<saved, needsGemini, processed, flagged, quotaUsed, jobUpdateQueue,
                   jobsToUpdate, obj, queues, jl, tl, scorerCriteria, process,
                   restarts, days>>

\* EnqueueParse returns the ID, and the handler answers the client.
AnswerLost(j) == UNCHANGED upload
Answer(j) == upload' = [upload EXCEPT ![j] = "over"]

NoRoom == Len(jobQueue) + 1 < JobQueueSize
JobQueueRoom == Len(jobQueue) < JobQueueSize

\* w.jobQueue <- id: blocks while the queue is full, also after stop.
SendJob(j) ==
    /\ HandlersRun
    /\ upload[j] = "sending"
    /\ JobQueueRoom
    /\ jobQueue' = Append(jobQueue, j)
    /\ Answer(j)
    /\ UNCHANGED <<tables, refs, obj, tweetQueue, jl, tl, scorerCriteria, process, spent>>

\* GET /jobs/{id}: a cache miss loads the row.  Only after a restart is an ID
\* that a client knows missing from the cache.
GetJob(j) ==
    /\ HandlersRun
    /\ upload[j] = "over"
    /\ jobs[j].at = "nil" /\ jobRow[j].status # "absent"
    /\ jobs' = [jobs EXCEPT ![j] = Held(jobRow[j])]
    /\ UNCHANGED <<tables, jobUpdateQueue, jobsToUpdate, obj, queues, upload, jl, tl,
                   scorerCriteria, process, spent>>

-----------------------------------------------------------------------------
(* jobLoop: processJob *)

\* The job is taken from the queue but its row cannot be read: it is dropped.
JobNotFound(ok) ==
    /\ alive /\ jl.pc = "idle" /\ jobQueue # <<>>
    /\ jobRow[Head(jobQueue)].status = "absent" \/ ~ok
    /\ Call(ok)
    /\ jobQueue' = Tail(jobQueue)
    /\ UNCHANGED <<tables, refs, obj, tweetQueue, upload, jl, tl, scorerCriteria,
                   process, restarts, days>>

\* The job's object is loaded from the database, not from the cache.
StartJob ==
    /\ alive /\ jl.pc = "idle" /\ jobQueue # <<>>
    /\ LET j == Head(jobQueue) IN
       /\ jobRow[j].status # "absent"
       /\ obj' = [obj EXCEPT !["job"] = [jobRow[j] EXCEPT !.status = "running"]]
       /\ updateJob(j, Live("job"))
       /\ jl' = [pc |-> "parse", job |-> j, next |-> 1]
    /\ jobQueue' = Tail(jobQueue)
    /\ UNCHANGED <<tables, tweetQueue, upload, tl, scorerCriteria, process, spent>>

\* After a failure processJob returns.
FailureIgnored == jl' = [jl EXCEPT !.pc = "save"]
AfterFailure == jl' = JobIdle

\* Open, ReadAll or ParseArchive fails.
ParseFails ==
    /\ alive /\ jl.pc = "parse" /\ jl.job \in BadArchive
    /\ UpdateAndReturn("job", jl.job, [obj["job"] EXCEPT !.status = "failed"])
    /\ AfterFailure
    /\ UNCHANGED <<tables, queues, upload, tl, scorerCriteria, process, spent>>

\* parseAndSaveTweets.
ParseArchive ==
    /\ alive /\ jl.pc = "parse" /\ jl.job \notin BadArchive
    /\ jl' = [jl EXCEPT !.pc = "save"]
    /\ UNCHANGED <<tables, refs, obj, queues, upload, tl, scorerCriteria, process, spent>>

HandItem == [job |-> jl.job, pos |-> jl.next]
AtTweet  == jl.next <= Len(Archive[jl.job])

\* A SaveTweet that fails is only logged; a repeated tweet keeps its row.
SaveTweet(ok) ==
    /\ alive /\ jl.pc = "save" /\ AtTweet
    /\ Call(ok)
    /\ saved' = IF ok THEN saved \cup {Key(HandItem)} ELSE saved
    /\ jl' = [jl EXCEPT !.next = @ + 1]
    /\ UNCHANGED <<jobRow, unsaved, needsGemini, processed, flagged, quotaUsed, refs, obj,
                   queues, upload, tl, scorerCriteria, process, restarts, days>>

\* TotalCount counts the parsed tweets, also those that were not saved.
TweetsSaved ==
    /\ alive /\ jl.pc = "save" /\ ~AtTweet
    /\ obj' = [obj EXCEPT !["job"] = [@ EXCEPT !.total = Len(Archive[jl.job])]]
    /\ updateJob(jl.job, Live("job"))
    /\ jl' = [pc |-> "filter", job |-> jl.job, next |-> 1]
    /\ UNCHANGED <<tables, queues, upload, tl, scorerCriteria, process, spent>>

\* applyFiltersAndQueue, for the tweet at hand.
Filtering == alive /\ jl.pc = "filter" /\ AtTweet

\* skipDeterministic, then applyFilters; with no policy nothing is flagged.
ShouldFlag(i) == /\ JobCriteria[i.job] # NoCriteria
                 /\ PolicySet
                 /\ Archive[i.job][i.pos] \in Threatening

NextTweet == jl' = [pc |-> "filter", job |-> jl.job, next |-> jl.next + 1]

\* ProcessedCount++, and an update every UpdateEvery tweets.
CountTweet(hit) ==
    /\ obj' = [obj EXCEPT !["job"] = Plus(@, 0, hit)]
    /\ IF obj'["job"].processed % UpdateEvery = 0
       THEN updateJob(jl.job, Live("job")) ELSE UNCHANGED refs

\* SaveFlaggedTweet, whose error is only logged.
FlagTweet(ok) ==
    /\ Filtering /\ ShouldFlag(HandItem)
    /\ Call(ok)
    /\ flagged' = IF ok THEN [flagged EXCEPT ![HandItem] = @ + 1] ELSE flagged
    /\ jl' = [jl EXCEPT !.pc = "mark"]
    /\ UNCHANGED <<jobRow, unsaved, saved, needsGemini, processed, quotaUsed, refs, obj, queues,
                   upload, tl, scorerCriteria, process, restarts, days>>

\* An UPDATE of the tweet's row: without a row it changes nothing.
Marked(set, i) == set \cup ({Key(i)} \cap saved)

\* MarkTweetProcessed, whose error is dropped, for a tweet flagged here.
MarkFlagged(ok) ==
    /\ alive /\ jl.pc = "mark"
    /\ Call(ok)
    /\ processed' = IF ok THEN Marked(processed, HandItem) ELSE processed
    /\ CountTweet(TRUE)
    /\ NextTweet
    /\ UNCHANGED <<jobRow, unsaved, saved, needsGemini, flagged, quotaUsed, queues, upload, tl,
                   scorerCriteria, process, restarts, days>>

\* MarkTweetNeedsGemini; a tweet that cannot be marked is left out for good.
MarkTweet(ok) ==
    /\ Filtering /\ ~ShouldFlag(HandItem)
    /\ Call(ok)
    /\ needsGemini' = IF ok THEN Marked(needsGemini, HandItem) ELSE needsGemini
    /\ IF ok THEN jl' = [jl EXCEPT !.pc = "send"] ELSE NextTweet
    /\ UNCHANGED <<jobRow, unsaved, saved, processed, flagged, quotaUsed, refs, obj, queues,
                   upload, tl, scorerCriteria, process, restarts, days>>

\* w.tweetQueue <- tweet: blocks while the queue is full (the context is
\* context.Background(), so nothing interrupts it).
TrySend(i) == tweetQueue' = IF Len(tweetQueue) < TweetQueueSize
                            THEN Append(tweetQueue, i) ELSE tweetQueue
Send(i) == /\ Len(tweetQueue) < TweetQueueSize
           /\ tweetQueue' = Append(tweetQueue, i)

QueueTweet ==
    /\ alive /\ jl.pc = "send"
    /\ Send(HandItem)
    /\ CountTweet(FALSE)
    /\ NextTweet
    /\ UNCHANGED <<tables, jobQueue, upload, tl, scorerCriteria, process, spent>>

EndJob ==
    /\ alive /\ jl.pc = "filter" /\ ~AtTweet
    /\ UpdateAndReturn("job", jl.job, obj["job"])
    /\ jl' = JobIdle
    /\ UNCHANGED <<tables, queues, upload, tl, scorerCriteria, process, spent>>

\* stop is closed and drainJobQueue finds the queue empty.
NotDrained == TRUE
JobsDrained == jobQueue = <<>>

JobLoopStops ==
    /\ alive /\ jl.pc = "idle" /\ stopped /\ JobsDrained
    /\ jl' = [JobIdle EXCEPT !.pc = "gone"]
    /\ UNCHANGED <<tables, refs, obj, queues, upload, tl, scorerCriteria, process, spent>>

JobLoop ==
    \/ StartJob \/ ParseFails \/ ParseArchive \/ TweetsSaved \/ QueueTweet \/ EndJob
    \/ JobLoopStops
    \/ \E ok \in BOOLEAN :
          JobNotFound(ok) \/ SaveTweet(ok) \/ FlagTweet(ok) \/ MarkFlagged(ok) \/ MarkTweet(ok)

-----------------------------------------------------------------------------
(* tweetLoop: processTweetWithGemini *)

QuotaPassed == quotaUsed > DailyQuotaLimit
QuotaReached == quotaUsed >= DailyQuotaLimit

\* SetCriteria ignores nil, so a job without criteria has the shared scorer
\* reset to the default.
NilCriteria(j) == scorerCriteria' = JobCriteria[j]
KeepCriteria(j) == scorerCriteria' = IF JobCriteria[j] = NoCriteria
                                     THEN scorerCriteria ELSE JobCriteria[j]
SetCriteria(j) == scorerCriteria' = IF JobCriteria[j] = NoCriteria
                                    THEN DefaultCriteria ELSE JobCriteria[j]

\* The quota is used up: the job is paused and the tweet is dropped.
PauseForQuota ==
    /\ alive /\ tl.pc = "idle" /\ tweetQueue # <<>>
    /\ QuotaReached
    /\ LET j == Head(tweetQueue).job IN
       /\ jobRow[j].status # "absent"
       /\ updateJob(j, Held([jobRow[j] EXCEPT !.status = "paused_quota"]))
    /\ tweetQueue' = Tail(tweetQueue)
    /\ UNCHANGED <<tables, obj, jobQueue, upload, jl, tl, scorerCriteria, process, spent>>

\* GetJob fails or finds no row: the tweet is dropped.
DropTweet(ok) ==
    /\ alive /\ tl.pc = "idle" /\ tweetQueue # <<>>
    /\ jobRow[Head(tweetQueue).job].status = "absent" \/ ~ok
    /\ Call(ok)
    /\ tweetQueue' = Tail(tweetQueue)
    /\ UNCHANGED <<tables, refs, obj, jobQueue, upload, jl, tl, scorerCriteria, process,
                   restarts, days>>

\* The job is read from the database.  When the quota cannot be read the
\* tweet is scored regardless.
StartScore(ok) ==
    /\ alive /\ tl.pc = "idle" /\ tweetQueue # <<>>
    /\ ~ok \/ ~QuotaReached
    /\ Call(ok)
    /\ LET i == Head(tweetQueue) IN
       /\ jobRow[i.job].status # "absent"
       /\ obj' = [obj EXCEPT !["tweet"] = jobRow[i.job]]
       /\ SetCriteria(i.job)
       /\ tl' = [pc |-> "scoring", item |-> i, hit |-> FALSE]
    /\ tweetQueue' = Tail(tweetQueue)
    /\ UNCHANGED <<tables, refs, jobQueue, upload, jl, process, restarts, days>>

\* Score returned a result.  IncrementQuotaUsage, whose error is dropped.
ScoreSucceeds(hit, ok) ==
    /\ alive /\ tl.pc = "scoring"
    /\ (IF hit THEN "flag" ELSE "safe") \in Verdict
    /\ Call(ok)
    /\ quotaUsed' = IF ok THEN quotaUsed + 1 ELSE quotaUsed
    /\ tl' = [pc |-> "recording", item |-> tl.item, hit |-> hit]
    /\ UNCHANGED <<jobRow, unsaved, saved, needsGemini, processed, flagged, refs, obj, queues,
                   upload, jl, scorerCriteria, process, restarts, days>>

\* Counts, SaveFlaggedTweet (its error is dropped) and updateJob.
RecordScore(ok) ==
    /\ alive /\ tl.pc = "recording"
    /\ Call(ok)
    /\ tl.hit \/ ok
    /\ flagged' = IF tl.hit /\ ok THEN [flagged EXCEPT ![tl.item] = @ + 1] ELSE flagged
    /\ obj' = [obj EXCEPT !["tweet"] = Plus(@, 1, tl.hit)]
    /\ updateJob(tl.item.job, Live("tweet"))
    /\ tl' = [pc |-> "checking", item |-> tl.item, hit |-> FALSE]
    /\ UNCHANGED <<jobRow, unsaved, saved, needsGemini, processed, quotaUsed, queues, upload, jl,
                   scorerCriteria, process, restarts, days>>

\* ProcessedCount >= TotalCount: the job is done.
CheckDone ==
    /\ alive /\ tl.pc = "checking"
    /\ IF obj["tweet"].processed >= obj["tweet"].total
       THEN /\ obj' = [obj EXCEPT !["tweet"] = [@ EXCEPT !.status = "done"]]
            /\ updateJob(tl.item.job, Live("tweet"))
       ELSE UNCHANGED <<obj, refs>>
    /\ tl' = [tl EXCEPT !.pc = "marking"]
    /\ UNCHANGED <<tables, queues, upload, jl, scorerCriteria, process, spent>>

\* Any other error: "Mark as processed anyway (failed, but we tried)".
GiveUp == tl' = TweetIdle
MarkAnyway == tl' = [tl EXCEPT !.pc = "marking"]

ScoreFails ==
    /\ alive /\ tl.pc = "scoring" /\ "error" \in Verdict
    /\ MarkAnyway
    /\ UNCHANGED <<tables, refs, obj, queues, upload, jl, scorerCriteria, process, spent>>

\* MarkTweetProcessed, whose error is dropped; then the function returns.
MarkProcessed(ok) ==
    /\ alive /\ tl.pc = "marking"
    /\ Call(ok)
    /\ processed' = IF ok THEN Marked(processed, tl.item) ELSE processed
    /\ Return("tweet", obj["tweet"])
    /\ tl' = TweetIdle
    /\ UNCHANGED <<jobRow, unsaved, saved, needsGemini, flagged, quotaUsed, queues, upload, jl,
                   scorerCriteria, process, restarts, days>>

\* ErrDailyQuotaExceeded: sleep until after midnight UTC.
QuotaExceeded ==
    /\ alive /\ tl.pc = "scoring" /\ "quota" \in Verdict
    /\ obj' = [obj EXCEPT !["tweet"] = [@ EXCEPT !.status = "paused_quota"]]
    /\ updateJob(tl.item.job, Live("tweet"))
    /\ tl' = [tl EXCEPT !.pc = "sleeping"]
    /\ UNCHANGED <<tables, queues, upload, jl, scorerCriteria, process, spent>>

\* The object read before the sleep is written back as running.
WakeUp ==
    /\ alive /\ tl.pc = "sleeping"
    /\ obj' = [obj EXCEPT !["tweet"] = [@ EXCEPT !.status = "running"]]
    /\ updateJob(tl.item.job, Live("tweet"))
    /\ tl' = [tl EXCEPT !.pc = "requeueing"]
    /\ UNCHANGED <<tables, queues, upload, jl, scorerCriteria, process, spent>>

\* tweetLoop sends to the queue that only it receives from.
Requeue ==
    /\ alive /\ tl.pc = "requeueing"
    /\ Send(tl.item)
    /\ Return("tweet", obj["tweet"])
    /\ tl' = TweetIdle
    /\ UNCHANGED <<tables, jobQueue, upload, jl, scorerCriteria, process, spent>>

\* stop is closed and drainTweetQueue finds the queue empty.
TweetLoopStops ==
    /\ alive /\ tl.pc = "idle" /\ stopped /\ tweetQueue = <<>>
    /\ tl' = [TweetIdle EXCEPT !.pc = "gone"]
    /\ UNCHANGED <<tables, refs, obj, queues, upload, jl, scorerCriteria, process, spent>>

TweetLoop ==
    \/ PauseForQuota \/ CheckDone \/ ScoreFails \/ QuotaExceeded \/ WakeUp \/ Requeue
    \/ TweetLoopStops
    \/ \E ok \in BOOLEAN :
          \/ DropTweet(ok) \/ StartScore(ok) \/ RecordScore(ok) \/ MarkProcessed(ok)
          \/ \E hit \in BOOLEAN : ScoreSucceeds(hit, ok)

-----------------------------------------------------------------------------
(* flushJobUpdates, run by the ticker and by Shutdown *)

Empty == [j \in Job |-> Nil]

\* Under jobUpdateMu: take the queue and leave an empty one.
TakeUpdates(f) ==
    /\ jobsToUpdate' = [jobsToUpdate EXCEPT ![f] = jobUpdateQueue]
    /\ jobUpdateQueue' = Empty
    /\ UNCHANGED jobs

\* The update has left the flusher's copy; the queue may hold a newer one.
DropUpdate(f, j) ==
    /\ jobsToUpdate' = [jobsToUpdate EXCEPT ![f][j] = Nil]
    /\ jobUpdateQueue' = [jobUpdateQueue EXCEPT ![j] = Nil]
Written(f, j) ==
    /\ jobsToUpdate' = [jobsToUpdate EXCEPT ![f][j] = Nil]
    /\ UNCHANGED jobUpdateQueue

\* SaveJob writes the fields the object has by now.  A failure is only
\* logged: the update is gone (r.db.Exec, no retry).
SaveJob(f, j, ok) ==
    /\ alive
    /\ jobsToUpdate[f][j].at # "nil"
    /\ Call(ok)
    /\ SavedRow(j, Deref(jobsToUpdate[f][j]), ok)
    /\ Written(f, j)
    /\ UNCHANGED <<saved, needsGemini, processed, flagged, quotaUsed, jobs,
                   obj, queues, upload, jl, tl, scorerCriteria, process, restarts, days>>

\* A tick; it may also win the select against a closed stop.
Tick ==
    /\ alive /\ ticker = "waiting"
    /\ jobUpdateQueue # Empty
    /\ TakeUpdates("ticker")
    /\ ticker' = "flushing"
    /\ UNCHANGED <<tables, obj, queues, upload, jl, tl, scorerCriteria, main, httpForced,
                   spent>>

\* stop is closed: the final flush.
LastTick ==
    /\ alive /\ ticker = "waiting" /\ stopped
    /\ TakeUpdates("ticker")
    /\ ticker' = "last"
    /\ UNCHANGED <<tables, obj, queues, upload, jl, tl, scorerCriteria, main, httpForced,
                   spent>>

\* flushJobUpdates returns: to the select, or for good.
FlushOnce == "gone"
AfterFlush == IF ticker = "last" THEN "gone" ELSE "waiting"

TickDone ==
    /\ alive /\ ticker \in {"flushing", "last"}
    /\ jobsToUpdate["ticker"] = Empty
    /\ ticker' = AfterFlush
    /\ UNCHANGED <<tables, refs, obj, queues, upload, jl, tl, scorerCriteria, main,
                   httpForced, spent>>

Ticker ==
    \/ Tick \/ LastTick \/ TickDone
    \/ \E j \in Job, ok \in BOOLEAN : SaveJob("ticker", j, ok)

-----------------------------------------------------------------------------
(* main: server.Shutdown, then Worker.Shutdown, then exit *)

MainOnly == UNCHANGED <<tables, obj, queues, upload, jl, tl, scorerCriteria, ticker, spent>>

Signal ==
    /\ MayStop /\ main = "serving"
    /\ main' = "draining"
    /\ UNCHANGED <<refs, httpForced>> /\ MainOnly

\* server.Shutdown: all handlers have returned, or 30 s are over.  Then Stop
\* closes w.stop.
HttpDrained ==
    /\ main = "draining"
    /\ \A j \in Job : upload[j] # "sending"
    /\ main' = "stopping"
    /\ UNCHANGED <<refs, httpForced>> /\ MainOnly

HttpTimeout ==
    /\ main = "draining"
    /\ main' = "stopping"
    /\ httpForced' = TRUE
    /\ UNCHANGED refs /\ MainOnly

\* activeWork.Wait returns; it does not count the flusher goroutine.
WorkersDone ==
    /\ main = "stopping"
    /\ jl.pc = "gone" /\ tl.pc = "gone"
    /\ TakeUpdates("shutdown")
    /\ main' = "flushing"
    /\ UNCHANGED httpForced /\ MainOnly

\* Shutdown returns and main with it: the process is over.
Exit ==
    /\ main = "flushing"
    /\ jobsToUpdate["shutdown"] = Empty
    /\ main' = "exited"
    /\ UNCHANGED <<refs, httpForced>> /\ MainOnly

\* 30 s are over before the workers are done.
ShutdownTimeout ==
    /\ main = "stopping"
    /\ main' = "aborted"
    /\ UNCHANGED <<refs, httpForced>> /\ MainOnly

Main ==
    \/ Signal \/ HttpDrained \/ HttpTimeout \/ WorkersDone \/ Exit \/ ShutdownTimeout
    \/ \E j \in Job, ok \in BOOLEAN : SaveJob("shutdown", j, ok)

-----------------------------------------------------------------------------
(* The environment *)

\* GetTodayQuotaUsage looks up the row of a new date.
NewDay ==
    /\ days < MaxDays
    /\ days' = days + 1
    /\ quotaUsed' = 0
    /\ UNCHANGED <<jobRow, unsaved, saved, needsGemini, processed, flagged, refs, obj, queues,
                   upload, jl, tl, scorerCriteria, process, faults, restarts>>

\* What a start finds to do.  The code queues nothing.
resumeUnprocessed ==
    LET left == {i \in Items : Key(i) \in needsGemini \ processed}
    IN  IF left = {} THEN <<>> ELSE <<CHOOSE i \in left : TRUE>>
resumePendingJobs == <<>>

\* Everything in memory, as NewWorkerWithConfig creates it.  The scorer
\* starts with the default criteria.
MemoryInit ==
    /\ jobs = Empty
    /\ jobUpdateQueue = Empty
    /\ jobsToUpdate = [f \in Flusher |-> Empty]
    /\ obj = [w \in Loop |-> Absent]
    /\ jobQueue = <<>>
    /\ tweetQueue = resumePendingJobs
    /\ jl = JobIdle
    /\ tl = TweetIdle
    /\ scorerCriteria = DefaultCriteria
    /\ ticker = "waiting"
    /\ main = "serving"
    /\ httpForced = FALSE

\* The process dies, now or after it has exited, and main starts again:
\* only the tables survive.
Restart ==
    /\ restarts < MaxRestarts
    /\ restarts' = restarts + 1
    /\ jobs' = Empty
    /\ jobUpdateQueue' = Empty
    /\ jobsToUpdate' = [f \in Flusher |-> Empty]
    /\ obj' = [w \in Loop |-> Absent]
    /\ jobQueue' = <<>>
    /\ tweetQueue' = resumePendingJobs
    /\ jl' = JobIdle
    /\ tl' = TweetIdle
    /\ scorerCriteria' = DefaultCriteria
    /\ ticker' = "waiting"
    /\ main' = "serving"
    /\ httpForced' = FALSE
    /\ upload' = [j \in Job |-> IF upload[j] = "sending" THEN "over" ELSE upload[j]]
    /\ UNCHANGED <<tables, faults, days>>

-----------------------------------------------------------------------------
Init ==
    /\ jobRow = [j \in Job |-> Absent] /\ unsaved = {}
    /\ saved = {} /\ needsGemini = {} /\ processed = {}
    /\ flagged = [i \in Items |-> 0]
    /\ quotaUsed = 0
    /\ MemoryInit
    /\ upload = [j \in Job |-> "none"]
    /\ faults = 0 /\ restarts = 0 /\ days = 0

Handlers ==
    \E j \in Job :
       \/ SendJob(j) \/ GetJob(j)
       \/ \E ok \in BOOLEAN : EnqueueParse(j, ok)

Next == Handlers \/ JobLoop \/ TweetLoop \/ Ticker \/ Main \/ NewDay \/ Restart

Spec == Init /\ [][Next]_vars

\* Goroutines that can run do run: the scheduler is fair, a call of Score
\* returns (its HTTP client has a timeout and its retries are bounded), the
\* ticker keeps ticking and a sleep ends.  Nothing makes a client upload,
\* a signal arrive, a call fail or the process restart.
Fairness ==
    /\ \A j \in Job : WF_vars(SendJob(j))
    /\ WF_vars(JobLoop)
    /\ WF_vars(TweetLoop)
    /\ WF_vars(Ticker)

FairSpec == Spec /\ Fairness

-----------------------------------------------------------------------------
(* Properties *)

TablesOK ==
    /\ jobRow \in [Job -> Row]
    /\ unsaved \subseteq Job
    /\ saved \subseteq Job \X Tweet
    /\ needsGemini \subseteq saved
    /\ processed \subseteq saved
    /\ flagged \in [Items -> Nat]
    /\ quotaUsed \in Nat

RefsOK ==
    /\ jobs \in [Job -> Ref]
    /\ jobUpdateQueue \in [Job -> Ref]
    /\ jobsToUpdate \in [Flusher -> [Job -> Ref]]
    /\ obj \in [Loop -> Row]

QueuesOK ==
    /\ jobQueue \in Seq(Job)
    /\ tweetQueue \in Seq(Items)

JobLoopOK ==
    /\ jl \in [pc : {"idle", "gone"} \cup JobBusy, job : Job \cup {"none"}, next : Nat]
    /\ jl.pc \in JobBusy => jl.job \in Job /\ jl.next > 0
    /\ jl.pc \in {"mark", "send"} => jl.next <= Len(Archive[jl.job])

TweetLoopOK ==
    /\ tl \in [pc : {"idle", "gone"} \cup TweetBusy, item : Items \cup {NoItem}, hit : BOOLEAN]
    /\ tl.pc \in TweetBusy => tl.item \in Items
    /\ scorerCriteria \in Criteria

ProcessOK ==
    /\ upload \in [Job -> {"none", "sending", "over"}]
    /\ ticker \in {"waiting", "flushing", "last", "gone"}
    /\ main \in {"serving", "draining", "stopping", "flushing", "exited", "aborted"}
    /\ httpForced \in BOOLEAN
    /\ faults \in Nat /\ restarts \in Nat /\ days \in Nat

\* Every variable has its type; only saved tweets are marked, and a loop that
\* works on a job or a tweet works on one that exists.
TypeOK == TablesOK /\ RefsOK /\ QueuesOK /\ JobLoopOK /\ TweetLoopOK /\ ProcessOK

Queued  == {tweetQueue[k] : k \in DOMAIN tweetQueue}
InHand  == IF tl.pc \in TweetBusy THEN {tl.item} ELSE {}
\* Items that jobLoop has still to handle.
Ahead   == {i \in Items : /\ jl.pc \in JobBusy
                          /\ i.job = jl.job
                          /\ jl.pc \in {"filter", "mark", "send"} => i.pos >= jl.next}

\* A QueuedTweet is never in two places of the pipeline: twice in the queue,
\* queued while it is scored, or still to come from jobLoop.  Scoring a tweet
\* twice would spend quota and flag it twice.
InFlightOnce ==
    /\ \A k, l \in DOMAIN tweetQueue : tweetQueue[k] = tweetQueue[l] => k = l
    /\ Queued \cap InHand = {}
    /\ Ahead \cap (Queued \cup InHand) = {}

\* While the process runs, a tweet that needs Gemini and is not processed is
\* on its way: queued, being scored, or about to be queued.  Each failed call
\* strands at most one tweet, as long as neither a crash nor a used-up quota
\* intervenes (the two ways in which the code does leave tweets behind).
InFlight == Queued \cup InHand \cup Ahead
Stranded == {k \in needsGemini \ processed : \A i \in InFlight : Key(i) # k}
NothingStranded ==
    restarts = 0 /\ days = 0 /\ alive /\ ~QuotaReached =>
       Cardinality(Stranded) <= faults

\* A step leaves at most one tweet behind, and only if one of its calls fails or
\* the day's quota is used up; then the client sees the tweet's job paused.  Only
\* a restart leaves more, whatever is in the pipeline when the process ends.
LeftForReason ==
    [][restarts' = restarts =>
         \A k \in Stranded' \ Stranded :
            /\ Stranded' \subseteq Stranded \cup {k}
            /\ \/ faults' = faults + 1
               \/ QuotaReached /\ Deref(jobs[k[1]])'.status = "paused_quota"]_vars

\* Where an item is in its life (TweetLife): an upload or jobLoop still has
\* it, it waits for its score, or the worker is done with it.
Stage(i) ==
    CASE i \in Queued \cup InHand -> "waiting"
      [] \/ i \in Ahead
         \/ upload[i.job] \in {"none", "sending"}
         \/ \E k \in DOMAIN jobQueue : jobQueue[k] = i.job -> "coming"
      [] OTHER -> "gone"

\* The worker implements the life of a tweet, whatever fails or crashes: no
\* tweet is taken up again once it is gone, none is flagged twice or after it
\* is gone, and none is marked processed but by the step that lets go of it.
Life == INSTANCE TweetLife WITH
    Item <- Items,
    stage <- [i \in Items |-> Stage(i)]
KeepsLifecycle == Life!LifeSpec

\* A tweet is scored under the criteria uploaded with its own job, or under
\* the default, although all jobs share one scorer.
CriteriaMatch ==
    tl.pc = "scoring" =>
       scorerCriteria = IF JobCriteria[tl.item.job] = NoCriteria
                        THEN DefaultCriteria ELSE JobCriteria[tl.item.job]

\* What a client sees or the table keeps of a job never claims more flagged
\* tweets than flagged_tweets holds, and no more calls than the quota table
\* counted that day, but for one per failed call: lost updates only ever lose.
FlaggedRows(j) == {i \in Items : i.job = j /\ flagged[i] > 0}
CountsNeverExceed ==
    \A j \in Job : \A r \in {jobRow[j], Deref(jobs[j])} :
       /\ r.flagged <= Cardinality(FlaggedRows(j)) + faults
       /\ days = 0 => r.calls <= quotaUsed + faults

\* A failed job stays failed, in the table and in the cache (a restart
\* empties the cache).
FailedIsFinal ==
    [][\A j \in Job :
         /\ jobRow[j].status = "failed" => jobRow'[j].status = "failed"
         /\ Deref(jobs[j]).status = "failed" =>
               Deref(jobs[j])'.status \in {"failed", "absent"}]_vars

\* Shutdown's own flush has begun.
FinalFlush == main \in {"flushing", "exited"}

\* The pieces of the argument for UpdatesReachDisk: only jobs that were
\* uploaded and sent are worked on;
OnlySentJobs ==
    /\ \A k \in DOMAIN jobQueue : upload[jobQueue[k]] = "over"
    /\ \A k \in DOMAIN tweetQueue : upload[tweetQueue[k].job] = "over"
    /\ jl.pc \in JobBusy => upload[jl.job] = "over"
    /\ tl.pc \in TweetBusy => upload[tl.item.job] = "over"
    /\ \A j \in Job : upload[j] = "none" => jobs[j].at = "nil"

\* the cache points to a live object only while its loop works on that job;
CacheOwned ==
    \A j \in Job :
       /\ jobs[j].at = "job" => jl.pc \in JobBusy /\ jl.job = j
       /\ jobs[j].at = "tweet" => tl.pc \in TweetBusy /\ tl.item.job = j

\* the newest pending update of a job is what the cache points to; a flusher
\* that is waiting has nothing left to write, and Shutdown's flush nothing
\* before it begins.
NewestPending ==
    \A j \in Job :
       /\ ticker = "waiting" => jobsToUpdate["ticker"][j].at = "nil"
       /\ ~FinalFlush =>
             /\ jobsToUpdate["shutdown"][j].at = "nil"
             /\ jobUpdateQueue[j].at # "nil" => jobUpdateQueue[j] = jobs[j]
             /\ jobUpdateQueue[j].at = "nil" /\ jobsToUpdate["ticker"][j].at # "nil" =>
                   jobsToUpdate["ticker"][j] = jobs[j]

\* A job is cached and queued for the flusher as one object: no flush can
\* write an older state of a job after a newer one, although two loops, the
\* ticker and Shutdown hold references to it.
UpdateOrder == OnlySentJobs /\ CacheOwned /\ NewestPending

\* Once no update of a job is pending, its row is what the cache shows; the
\* counts of a job that jobLoop is working on may be ahead of the row.  Only a
\* job whose last SaveJob failed is left behind, until its next update.  Given
\* that Shutdown has not begun its own flush.
Pending(j) == jobUpdateQueue[j].at # "nil" \/ jobsToUpdate["ticker"][j].at # "nil"
UpdatesReachDisk ==
    ~FinalFlush =>
       \A j \in Job \ unsaved : jobs[j].at # "nil" /\ ~Pending(j) =>
          IF jobs[j].at = "job"
          THEN /\ jobRow[j].status = obj["job"].status
               /\ jobRow[j].total = obj["job"].total
               /\ jobRow[j].calls = obj["job"].calls
          ELSE jobRow[j] = Deref(jobs[j])

\* No day counts more calls than the limit, also across restarts and
\* midnights; a quota that cannot be read lets one tweet through.
QuotaRespected == quotaUsed <= DailyQuotaLimit + faults

\* When Shutdown returned without an error and every handler had returned
\* before it, no accepted job is left in the queue.
ShutdownDrainsJobs ==
    main = "exited" /\ ~httpForced => jobQueue = <<>> /\ jl.pc = "gone"

\* Every queued tweet is eventually processed, whatever Score returns but
\* ErrDailyQuotaExceeded.
EveryTweetProcessed ==
    \A i \in Items : i \in Queued ~> Key(i) \in processed

\* Every accepted upload is answered, and its row eventually says that the
\* job has been started.
EveryUploadAnswered == \A j \in Job : upload[j] = "sending" ~> upload[j] = "over"
EveryJobStarted ==
    \A j \in Job : upload[j] = "sending" ~> jobRow[j].status \notin {"absent", "queued"}
=============================================================================
