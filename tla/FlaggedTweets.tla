--------------------------- MODULE FlaggedTweets ---------------------------
(***************************************************************************)
(* The table flagged_tweets between the worker that appends to it          *)
(* (Repository.SaveFlaggedTweet through execWithRetry) and a client that   *)
(* walks through its pages (handler.List, Service.ListFlaggedTweets).      *)
(*                                                                         *)
(* Both share the pool's only connection.  Another process may hold the    *)
(* database's write lock; SQLite then waits for the busy timeout, and      *)
(* execWithRetry sleeps and tries again.  One tick is 10 ms.               *)
(***************************************************************************)
EXTENDS Integers, Sequences, FiniteSets

CONSTANTS
    Job,           \* job IDs
    All,           \* the empty job_id of a request: every job's rows
    PageSize,      \* page_size of a request; middleware lets 1 .. 100 through
    busyTimeout,   \* PRAGMA busy_timeout, in ticks
    MaxRows,       \* bound: rows
    MaxSecond      \* bound: seconds that the clock shows

ASSUME TableAssumption ==
    /\ All \notin Job
    /\ PageSize \subseteq Nat \ {0}
    /\ busyTimeout \in Nat /\ MaxRows \in Nat /\ MaxSecond \in Nat

VARIABLES
    rows,      \* flagged_tweets in the order of insertion: [job, flaggedAt]
    second,    \* the second that time.Now() is formatted to
    locked,    \* another process holds the write lock
    writer,    \* [pc, row, attempt, backoff, timer]
    reader,    \* the client and its request: [pc, filter, size, page, list]
    walk,      \* history of the walk: [atStart, seen, shown], row numbers and a count
    elapsed    \* history: ticks the writer's call has waited

ftVars == <<rows, second, locked, writer, reader, walk, elapsed>>

-----------------------------------------------------------------------------
(* SaveFlaggedTweet: execWithRetry around one INSERT *)

maxRetries == 5

\* tweetLoop flags a tweet; the row has the time at which it was flagged.
SaveFlaggedTweet(j) ==
    /\ writer.pc \in {"idle", "gaveUp"}
    /\ Len(rows) < MaxRows
    /\ writer' = [pc |-> "exec", row |-> [job |-> j, flaggedAt |-> second],
                  attempt |-> 0, backoff |-> 1, timer |-> 0]
    /\ elapsed' = 0
    /\ UNCHANGED <<rows, second, locked, reader, walk>>

\* db.Exec inserts the row and execWithRetry returns nil.
Inserted ==
    /\ writer.pc = "exec" /\ ~locked
    /\ rows' = Append(rows, writer.row)
    /\ writer' = [writer EXCEPT !.pc = "idle"]
    /\ UNCHANGED <<second, locked, reader, walk, elapsed>>

\* db.Exec fails for another reason: returned at once.
ExecFails ==
    /\ writer.pc = "exec"
    /\ writer' = [writer EXCEPT !.pc = "idle"]
    /\ UNCHANGED <<rows, second, locked, reader, walk, elapsed>>

NeverBusy == FALSE
BusyTimeoutOver == writer.timer >= busyTimeout
SQLiteBusy == writer.pc = "exec" /\ locked /\ BusyTimeoutOver

EndlessAttempts == TRUE
TooFewAttempts == writer.attempt < maxRetries - 2
AttemptsLeft == writer.attempt < maxRetries - 1
SameBackoff == writer.backoff
NextBackoff == 2 * writer.backoff

\* "database is locked": sleep and try again,
BackOff ==
    /\ SQLiteBusy /\ AttemptsLeft
    /\ writer' = [writer EXCEPT !.pc = "sleep", !.timer = writer.backoff,
                                !.backoff = NextBackoff, !.attempt = @ + 1]
    /\ UNCHANGED <<rows, second, locked, reader, walk, elapsed>>

Retry ==
    /\ writer.pc = "sleep" /\ writer.timer = 0
    /\ writer' = [writer EXCEPT !.pc = "exec"]
    /\ UNCHANGED <<rows, second, locked, reader, walk, elapsed>>

\* or return the error, which the worker logs.
GiveUp ==
    /\ SQLiteBusy /\ ~AttemptsLeft
    /\ writer' = [writer EXCEPT !.pc = "gaveUp"]
    /\ UNCHANGED <<rows, second, locked, reader, walk, elapsed>>

Writer == Inserted \/ BackOff \/ Retry \/ GiveUp

-----------------------------------------------------------------------------
(* ListFlaggedTweets and CountFlaggedTweets *)

\* WHERE job_id = ?, or every row.
Matching(filter) == {k \in DOMAIN rows : filter \in {All, rows[k].job}}

\* ORDER BY flagged_at DESC; SQLite's sort keeps the order of insertion among
\* rows of the same second.
Before(k, l) ==
    \/ rows[k].flaggedAt > rows[l].flaggedAt
    \/ rows[k].flaggedAt = rows[l].flaggedAt /\ k < l
Rank(k, filter) == Cardinality({l \in Matching(filter) : Before(l, k)})

Unscaled == reader.page - 1
offset == (reader.page - 1) * reader.size

\* LIMIT size OFFSET offset.
Page == {k \in Matching(reader.filter) :
            Rank(k, reader.filter) \in offset .. offset + reader.size - 1}

\* The pool has one connection, and an INSERT that waits for the lock keeps it.
Connected == writer.pc # "exec"

ListFlaggedTweets ==
    /\ reader.pc = "list" /\ Connected
    /\ reader' = [reader EXCEPT !.pc = "count", !.list = Page]
    /\ UNCHANGED <<rows, second, locked, writer, walk, elapsed>>

RoundedDown(total) == total \div reader.size
totalPages(total) == (total + reader.size - 1) \div reader.size

\* CountFlaggedTweets, the answer, and the client's request for the next page
\* up to the last one that the newest answer names.
CountFlaggedTweets ==
    /\ reader.pc = "count" /\ Connected
    /\ walk' = [walk EXCEPT !.seen = @ \cup reader.list,
                            !.shown = @ + Cardinality(reader.list)]
    /\ IF reader.page < totalPages(Cardinality(Matching(reader.filter)))
       THEN reader' = [reader EXCEPT !.pc = "list", !.page = @ + 1, !.list = {}]
       ELSE reader' = [reader EXCEPT !.pc = "over", !.list = {}]
    /\ UNCHANGED <<rows, second, locked, writer, elapsed>>

\* A query fails: 500.
QueryFails ==
    /\ reader.pc \in {"list", "count"} /\ Connected
    /\ reader' = [reader EXCEPT !.pc = "idle", !.list = {}]
    /\ UNCHANGED <<rows, second, locked, writer, walk, elapsed>>

Reader == ListFlaggedTweets \/ CountFlaggedTweets \/ QueryFails

\* The client starts at page 1.
Walk(filter, size) ==
    /\ reader.pc \in {"idle", "over"}
    /\ reader' = [pc |-> "list", filter |-> filter, size |-> size, page |-> 1, list |-> {}]
    /\ walk' = [atStart |-> Matching(filter), seen |-> {}, shown |-> 0]
    /\ UNCHANGED <<rows, second, locked, writer, elapsed>>

-----------------------------------------------------------------------------
(* The environment *)

\* 10 ms pass for a call that waits.
Tick ==
    /\ \/ /\ writer.pc = "exec" /\ writer.timer < busyTimeout
          /\ writer' = [writer EXCEPT !.timer = @ + 1]
       \/ /\ writer.pc = "sleep" /\ writer.timer > 0
          /\ writer' = [writer EXCEPT !.timer = @ - 1]
    /\ elapsed' = elapsed + 1
    /\ UNCHANGED <<rows, second, locked, reader, walk>>

NextSecond ==
    /\ second < MaxSecond
    /\ second' = second + 1
    /\ UNCHANGED <<rows, locked, writer, reader, walk, elapsed>>

Lock ==
    /\ locked' = ~locked
    /\ UNCHANGED <<rows, second, writer, reader, walk, elapsed>>

FTInit ==
    /\ rows = <<>> /\ second = 0 /\ locked = FALSE
    /\ writer = [pc |-> "idle", row |-> [job |-> All, flaggedAt |-> 0],
                 attempt |-> 0, backoff |-> 1, timer |-> 0]
    /\ reader = [pc |-> "idle", filter |-> All, size |-> 1, page |-> 1, list |-> {}]
    /\ walk = [atStart |-> {}, seen |-> {}, shown |-> 0]
    /\ elapsed = 0

FTNext ==
    \/ Writer \/ ExecFails \/ Reader \/ Tick \/ NextSecond \/ Lock
    \/ \E j \in Job : SaveFlaggedTweet(j)
    \/ \E filter \in Job \cup {All}, size \in PageSize : Walk(filter, size)

FTSpec == FTInit /\ [][FTNext]_ftVars

\* Time passes, a call of the driver that can return does, and the pool gives
\* its connection to waiting requests in turn, so a query that can run again
\* and again does run.  Nothing makes the other process release its lock.
FTFairSpec == FTSpec /\ WF_ftVars(Tick) /\ WF_ftVars(Writer) /\ SF_ftVars(Reader)

-----------------------------------------------------------------------------
FTTypeOK ==
    /\ rows \in Seq([job : Job, flaggedAt : 0 .. MaxSecond]) /\ Len(rows) <= MaxRows
    /\ second \in 0 .. MaxSecond /\ locked \in BOOLEAN
    /\ writer.pc \in {"idle", "exec", "sleep", "gaveUp"}
    /\ writer.attempt \in 0 .. maxRetries - 1
    /\ writer.timer \in Nat /\ elapsed \in Nat
    /\ reader.pc \in {"idle", "list", "count", "over"}
    /\ reader.page \in 1 .. MaxRows + 1
    /\ reader.list \subseteq DOMAIN rows /\ walk.seen \subseteq DOMAIN rows

\* A client that walks to the last page has been shown every row that was
\* there when it began, although the worker went on inserting rows, also with
\* the same second, and list and count are two queries.
WalkComplete == reader.pc = "over" => walk.atStart \subseteq walk.seen

\* A row is shown again only because of a row inserted since the walk began:
\* no more repetitions than such rows.
RepeatsBounded ==
    walk.shown - Cardinality(walk.seen) <=
       Cardinality(Matching(reader.filter)) - Cardinality(walk.atStart)

\* A write is given up only after it has waited for the lock, or to try again,
\* for 150 ms and five busy timeouts: it survives any shorter outage.
GivesUpLate == writer.pc = "gaveUp" => elapsed >= 15 + 5 * busyTimeout

\* Every page is answered, although an INSERT that waits for the lock keeps
\* the only connection and the other process may hold the lock for ever.
PageAnswered ==
    \A p \in 1 .. MaxRows :
       reader.pc \in {"list", "count"} /\ reader.page = p ~>
          reader.pc \notin {"list", "count"} \/ reader.page # p
=============================================================================
