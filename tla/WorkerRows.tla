----------------------------- MODULE WorkerRows -----------------------------
(***************************************************************************)
(* What the values of a job may say: the row in the table, the object each *)
(* loop changes and every copy in the cache, the update queue and the      *)
(* flushers.  None claims more than the other tables hold, none of a job   *)
(* that can still be worked on says "failed", and no step leaves a tweet   *)
(* behind unless a call failed or the day's quota is used up.              *)
(***************************************************************************)
EXTENDS WorkerLife, FiniteSetTheorems

-----------------------------------------------------------------------------
(* The values of a job *)

\* Loop w works on job j.
Has(w, j) == \/ w = "job" /\ jl.pc \in JobBusy /\ jl.job = j
             \/ w = "tweet" /\ tl.pc \in TweetBusy /\ tl.item.job = j

PendingTo(j) == {jobUpdateQueue[j]} \cup {jobsToUpdate[f][j] : f \in Flusher}
RefsTo(j)    == {jobs[j]} \cup PendingTo(j)

\* A reference to a live object is one of the loop that works on the job.
Owned(j, ref) == /\ ref.at \in Loop => Has(ref.at, j)
                 /\ ref.at = "nil" => ref.row = Absent
RefsOwned == \A j \in Job : \A ref \in RefsTo(j) : Owned(j, ref)

\* The values of j in memory.
Copies(j) == {ref.row : ref \in {x \in RefsTo(j) : x.at = "held"}}
                \cup {obj[w] : w \in {v \in Loop : Has(v, j)}}

\* A step adds at most the value r to those of job j.
Adds(j, r) == /\ RefsOwned'
              /\ \A k \in Job : \A s \in Copies(k)' : s \in Copies(k) \/ (k = j /\ s = r)

\* The values of j, one by one.
LEMMA InCopies ==
    ASSUME NEW j \in Job, NEW r
    PROVE  r \in Copies(j) <=> \/ \E ref \in RefsTo(j) : ref.at = "held" /\ ref.row = r
                               \/ \E w \in Loop : Has(w, j) /\ obj[w] = r
BY DEF Copies

\* The references to j, one by one.
LEMMA InRefs ==
    ASSUME NEW j \in Job, NEW ref
    PROVE  ref \in RefsTo(j) <=> \/ ref = jobs[j] \/ ref = jobUpdateQueue[j]
                                 \/ \E f \in Flusher : ref = jobsToUpdate[f][j]
BY DEF RefsTo, PendingTo

\* What a reference that is not nil points to is a value of the job.
LEMMA DerefCopies ==
    ASSUME RefsOK, RefsOwned, NEW j \in Job, NEW ref \in RefsTo(j), ref.at # "nil"
    PROVE  Deref(ref) \in Copies(j)
<1>1. ref \in Ref
  BY InRefs DEF RefsOK
<1>2. CASE ref.at = "held"
  BY <1>2, InCopies DEF Deref, Loop
<1>3. CASE ref.at \in Loop
  BY <1>3, InCopies DEF Deref, RefsOwned, Owned
<1> QED BY <1>1, <1>2, <1>3 DEF Ref

-----------------------------------------------------------------------------
(* The shapes of a step *)

\* What becomes of the references to a job, and of the objects.
NoNewRefs == \A k \in Job : \A ref \in RefsTo(k)' : ref \in RefsTo(k) \/ ref = Nil
LoopKeeps(w) == \A k \in Job : Has(w, k)' <=> Has(w, k)
LoopStays(w) == LoopKeeps(w) /\ obj'[w] = obj[w]

\* No reference is new and no loop changes its job or its object.
LEMMA AddsNone ==
    ASSUME RefsOwned, NoNewRefs, \A w \in Loop : LoopStays(w)
    PROVE  RefsOwned' /\ \A k \in Job : Copies(k)' \subseteq Copies(k)
<1>1. RefsOwned'
  BY DEF RefsOwned, Owned, NoNewRefs, LoopStays, LoopKeeps, Nil, Loop
<1>2. ASSUME NEW k \in Job, NEW s \in Copies(k)' PROVE s \in Copies(k)
  <2>1. \/ \E ref \in RefsTo(k)' : ref.at = "held" /\ ref.row = s
        \/ \E w \in Loop : Has(w, k)' /\ obj'[w] = s
    BY <1>2 DEF Copies
  <2> QED BY <2>1, InCopies DEF NoNewRefs, LoopStays, LoopKeeps, Nil
<1> QED BY <1>1, <1>2

\* updateJob(j, w's object), whose value has become r.
LEMMA AddsUpdate ==
    ASSUME RefsOK, RefsOwned, NEW j \in Job, NEW w \in Loop, NEW r,
           updateJob(j, Live(w)), obj' = [obj EXCEPT ![w] = r],
           \A k \in Job : Has(w, k) => k = j,
           \A k \in Job : Has(w, k)' <=> k = j,
           \A v \in Loop \ {w} : LoopKeeps(v)
    PROVE  Adds(j, r)
<1>1. /\ jobs' = [jobs EXCEPT ![j] = Live(w)]
      /\ jobUpdateQueue' = [jobUpdateQueue EXCEPT ![j] = Live(w)]
      /\ jobsToUpdate' = jobsToUpdate
  BY DEF updateJob
<1>2. \A k \in Job : \A ref \in RefsTo(k)' : ref \in RefsTo(k) \/ (k = j /\ ref = Live(w))
  BY <1>1 DEF RefsTo, PendingTo, RefsOK
<1>3. obj'[w] = r /\ \A v \in Loop \ {w} : obj'[v] = obj[v]
  BY DEF RefsOK
<1>4. RefsOwned'
  BY <1>2 DEF RefsOwned, Owned, LoopKeeps, Live, Loop
<1>5. ASSUME NEW k \in Job, NEW s \in Copies(k)' PROVE s \in Copies(k) \/ (k = j /\ s = r)
  <2>1. \/ \E ref \in RefsTo(k)' : ref.at = "held" /\ ref.row = s
        \/ \E v \in Loop : Has(v, k)' /\ obj'[v] = s
    BY <1>5 DEF Copies
  <2>2. CASE \E ref \in RefsTo(k)' : ref.at = "held" /\ ref.row = s
    BY <1>2, <2>2, InCopies DEF Live, Loop
  <2>3. CASE \E v \in Loop : Has(v, k)' /\ obj'[v] = s
    BY <1>3, <2>3, InCopies DEF LoopKeeps
  <2> QED BY <2>1, <2>2, <2>3
<1> QED BY <1>4, <1>5 DEF Adds

\* The object changes, but no reference; its loop works on j.
LEMMA AddsObject ==
    ASSUME RefsOK, RefsOwned, NEW j \in Job, NEW w \in Loop, NEW r,
           UNCHANGED refs, obj' = [obj EXCEPT ![w] = r],
           \A k \in Job : Has(w, k) => k = j,
           \A k \in Job : Has(w, k)' <=> k = j,
           \A v \in Loop \ {w} : LoopKeeps(v)
    PROVE  Adds(j, r)
<1>1. \A k \in Job : RefsTo(k)' = RefsTo(k)
  BY DEF RefsTo, PendingTo, refs
<1>2. obj'[w] = r /\ \A v \in Loop \ {w} : obj'[v] = obj[v]
  BY DEF RefsOK
<1>3. RefsOwned'
  BY <1>1 DEF RefsOwned, Owned, LoopKeeps
<1>4. ASSUME NEW k \in Job, NEW s \in Copies(k)' PROVE s \in Copies(k) \/ (k = j /\ s = r)
  <2>1. \/ \E ref \in RefsTo(k)' : ref.at = "held" /\ ref.row = s
        \/ \E v \in Loop : Has(v, k)' /\ obj'[v] = s
    BY <1>4 DEF Copies
  <2> QED BY <1>1, <1>2, <2>1, InCopies DEF LoopKeeps
<1> QED BY <1>3, <1>4 DEF Adds

\* A reference to a final value r of j is stored; the loops stay as they are.
LEMMA AddsHeld ==
    ASSUME RefsOwned, NEW j \in Job, NEW r,
           \A k \in Job : \A ref \in RefsTo(k)' : ref \in RefsTo(k) \/ (k = j /\ ref = Held(r)),
           \A w \in Loop : LoopStays(w)
    PROVE  Adds(j, r)
<1>1. RefsOwned'
  BY DEF RefsOwned, Owned, LoopStays, LoopKeeps, Held, Loop
<1>2. ASSUME NEW k \in Job, NEW s \in Copies(k)' PROVE s \in Copies(k) \/ (k = j /\ s = r)
  <2>1. \/ \E ref \in RefsTo(k)' : ref.at = "held" /\ ref.row = s
        \/ \E v \in Loop : Has(v, k)' /\ obj'[v] = s
    BY <1>2 DEF Copies
  <2>2. CASE \E ref \in RefsTo(k)' : ref.at = "held" /\ ref.row = s
    BY <2>2, InCopies DEF Held
  <2>3. CASE \E v \in Loop : Has(v, k)' /\ obj'[v] = s
    BY <2>3, InCopies DEF LoopStays, LoopKeeps
  <2> QED BY <2>1, <2>2, <2>3
<1> QED BY <1>1, <1>2 DEF Adds

\* Loop w drops its object of job j, whose final value is r; it may store that
\* value once more.
Drops(w, j, r) ==
    \A k \in Job : \A ref \in RefsTo(k)' :
       \/ ref \in RefsTo(k) /\ ref.at # w
       \/ ref = Held(r) /\ (k = j \/ \E old \in RefsTo(k) : old.at = w)

\* Then the value r is all it adds.
LEMMA AddsDropped ==
    ASSUME RefsOK, RefsOwned, NEW j \in Job, NEW w \in Loop, NEW r, Drops(w, j, r),
           obj' = [obj EXCEPT ![w] = Absent],
           \A k \in Job : Has(w, k) => k = j,
           \A k \in Job : ~Has(w, k)',
           \A v \in Loop \ {w} : LoopKeeps(v)
    PROVE  /\ Adds(j, r)
           /\ \A k \in Job : \A ref \in RefsTo(k)' : ref \in RefsTo(k) \/ (k = j /\ ref = Held(r))
<1>1. \A k \in Job : \A old \in RefsTo(k) : old.at = w => k = j
  BY DEF RefsOwned, Owned
<1>2. \A k \in Job : \A ref \in RefsTo(k)' :
         \/ ref \in RefsTo(k) /\ ref.at # w
         \/ ref = Held(r) /\ k = j
  BY <1>1 DEF Drops
<1>3. \A v \in Loop \ {w} : obj'[v] = obj[v]
  BY DEF RefsOK
<1>4. RefsOwned'
  BY <1>2 DEF RefsOwned, Owned, LoopKeeps, Held, Loop
<1>5. ASSUME NEW k \in Job, NEW s \in Copies(k)' PROVE s \in Copies(k) \/ (k = j /\ s = r)
  <2>1. \/ \E ref \in RefsTo(k)' : ref.at = "held" /\ ref.row = s
        \/ \E v \in Loop : Has(v, k)' /\ obj'[v] = s
    BY <1>5 DEF Copies
  <2>2. CASE \E ref \in RefsTo(k)' : ref.at = "held" /\ ref.row = s
    BY <1>2, <2>2, InCopies DEF Held
  <2>3. CASE \E v \in Loop : Has(v, k)' /\ obj'[v] = s
    BY <1>3, <2>3, InCopies DEF LoopKeeps
  <2> QED BY <2>1, <2>2, <2>3
<1> QED BY <1>2, <1>4, <1>5 DEF Adds

\* Return and UpdateAndReturn drop the object.
LEMMA ReturnDrops ==
    ASSUME RefsOK, NEW w \in Loop, NEW j \in Job, NEW r,
           Return(w, r) \/ UpdateAndReturn(w, j, r)
    PROVE  Drops(w, j, r)
<1>1. \A k \in Job : /\ jobs'[k] \in {Released(jobs, w, r)[k], Held(r)}
                     /\ jobUpdateQueue'[k] \in {Released(jobUpdateQueue, w, r)[k], Held(r)}
                     /\ k # j => /\ jobs'[k] = Released(jobs, w, r)[k]
                                 /\ jobUpdateQueue'[k] = Released(jobUpdateQueue, w, r)[k]
  <2>1. CASE Return(w, r)
    BY <2>1 DEF Return
  <2>2. CASE UpdateAndReturn(w, j, r)
    BY <2>2 DEF UpdateAndReturn, Released
  <2> QED BY <2>1, <2>2
<1>2. \A f \in Flusher, k \in Job : jobsToUpdate'[f][k] = Released(jobsToUpdate[f], w, r)[k]
  BY DEF Return, UpdateAndReturn
<1>3. /\ jobs \in [Job -> Ref] /\ jobUpdateQueue \in [Job -> Ref]
      /\ \A f \in Flusher : jobsToUpdate[f] \in [Job -> Ref]
  BY DEF RefsOK
<1>4. ASSUME NEW rs \in [Job -> Ref], NEW k \in Job
      PROVE  \/ Released(rs, w, r)[k] = rs[k] /\ rs[k].at # w
             \/ Released(rs, w, r)[k] = Held(r) /\ rs[k].at = w
  BY <1>4, ReleasedFacts
<1>5. ASSUME NEW k \in Job, NEW ref \in RefsTo(k)'
      PROVE  \/ ref \in RefsTo(k) /\ ref.at # w
             \/ ref = Held(r) /\ (k = j \/ \E old \in RefsTo(k) : old.at = w)
  <2>1. \/ ref = jobs'[k] \/ ref = jobUpdateQueue'[k] \/ \E f \in Flusher : ref = jobsToUpdate'[f][k]
    BY <1>5 DEF RefsTo, PendingTo
  <2>2. CASE ref = jobs'[k]
    BY <1>1, <1>3, <1>4, <2>2, InRefs
  <2>3. CASE ref = jobUpdateQueue'[k]
    BY <1>1, <1>3, <1>4, <2>3, InRefs
  <2>4. CASE \E f \in Flusher : ref = jobsToUpdate'[f][k]
    BY <1>2, <1>3, <1>4, <2>4, InRefs
  <2> QED BY <2>1, <2>2, <2>3, <2>4
<1> QED BY <1>5 DEF Drops

-----------------------------------------------------------------------------
(* The inductive invariant *)

\* No value claims more than the tables hold.
Bounded(j, r) == /\ r.flagged <= Cardinality(FlaggedRows(j)) + faults
                 /\ days = 0 => r.calls <= quotaUsed + faults

\* jobLoop has yet to finish with j, or will never find it broken.
Unfinished(j) == \/ j \notin BadArchive
                 \/ upload[j] \in {"none", "sending"}
                 \/ j \in Elems(jobQueue)
                 \/ Has("job", j)

GoodRow(j, r) == Bounded(j, r) /\ (Unfinished(j) => r.status # "failed")

RowsGood ==
    \A j \in Job : /\ GoodRow(j, jobRow[j])
                   /\ \A r \in Copies(j) : GoodRow(j, r) /\ r.status # "absent"

\* A job that is worked on has a row.
RowsPresent ==
    /\ jl.pc \in JobBusy => jobRow[jl.job].status # "absent"
    /\ \A i \in Waiting : jobRow[i.job].status # "absent"

\* A broken archive does not get past "parse".
OnlyParsed ==
    /\ jl.pc \in JobBusy \ {"parse"} => jl.job \notin BadArchive
    /\ \A i \in Waiting : i.job \notin BadArchive

\* The last update of a job with a broken archive says so.
FailureLast ==
    \A j \in BadArchive : \A ref \in PendingTo(j) : ref.at = "held" => ref.row.status = "failed"

\* A flag or a call is written down before the job's object counts it.
CountLags ==
    /\ jl.pc = "mark" => obj["job"].flagged < Cardinality(FlaggedRows(jl.job)) + faults
    /\ tl.pc = "recording" /\ days = 0 => obj["tweet"].calls < quotaUsed + faults

RowsInv == /\ LifeInv
           /\ RefsOwned
           /\ RowsGood
           /\ RowsPresent
           /\ OnlyParsed
           /\ FailureLast
           /\ CountLags

-----------------------------------------------------------------------------
(* What only grows *)

\* An item is a position of its job's archive.
LEMMA ItemPlace == \A i \in Items : i.pos \in 1 .. Len(Archive[i.job])
<1>1. ASSUME NEW i \in Items PROVE i.pos \in 1 .. Len(Archive[i.job])
  <2>1. PICK j \in Job : i \in {[job |-> j, pos |-> p] : p \in DOMAIN Archive[j]}
    BY DEF Items
  <2>2. PICK p \in DOMAIN Archive[j] : i = [job |-> j, pos |-> p]
    BY <2>1
  <2>3. DOMAIN Archive[j] = 1 .. Len(Archive[j])
    BY ArchiveAssumption
  <2> QED BY <2>2, <2>3
<1> QED BY <1>1

\* An archive has finitely many tweets.
LEMMA FlaggedFinite ==
    ASSUME NEW j \in Job
    PROVE  /\ IsFiniteSet(FlaggedRows(j)) /\ Cardinality(FlaggedRows(j)) \in Nat
<1> DEFINE at == [i \in FlaggedRows(j) |-> i.pos]
<1>1. Len(Archive[j]) \in Nat
  BY ArchiveAssumption
<1>2. IsFiniteSet(1 .. Len(Archive[j]))
  BY <1>1, FS_Interval
<1>3. ASSUME NEW i \in FlaggedRows(j) PROVE at[i] \in 1 .. Len(Archive[j])
  BY ItemPlace DEF FlaggedRows
<1>4. \A i, k \in FlaggedRows(j) : at[i] = at[k] => i = k
  BY ItemShape DEF FlaggedRows
<1>5. at \in [FlaggedRows(j) -> 1 .. Len(Archive[j])]
  BY <1>3
<1> HIDE DEF at
<1>6. at \in Injection(FlaggedRows(j), 1 .. Len(Archive[j]))
  BY <1>4, <1>5 DEF Injection, IsInjective
<1> QED BY <1>2, <1>6, FS_Injection, FS_CardinalityType

\* One more flagged tweet.
LEMMA FlaggedOneMore ==
    ASSUME TypeOK, NEW x \in Items, flagged[x] = 0, flagged' = [flagged EXCEPT ![x] = 1],
           NEW j \in Job
    PROVE  Cardinality(FlaggedRows(j)') =
              Cardinality(FlaggedRows(j)) + (IF x.job = j THEN 1 ELSE 0)
<1>1. FlaggedRows(j)' = IF x.job = j THEN FlaggedRows(j) \cup {x} ELSE FlaggedRows(j)
  BY DEF FlaggedRows, TypeOK, TablesOK
<1>2. x \notin FlaggedRows(j)
  BY DEF FlaggedRows
<1>3. CASE x.job = j
  <2>1. Cardinality(FlaggedRows(j) \cup {x}) = Cardinality(FlaggedRows(j)) + 1
    BY <1>2, FlaggedFinite, FS_AddElement
  <2> QED BY <1>1, <1>3, <2>1
<1>4. CASE x.job # j
  <2>1. FlaggedRows(j)' = FlaggedRows(j) /\ Cardinality(FlaggedRows(j)) \in Nat
    BY <1>1, <1>4, FlaggedFinite
  <2> QED BY <1>4, <2>1
<1> QED BY <1>3, <1>4

\* Then their number is one, now and in the next state.
LEMMA FlagCounts == \A j \in Job : Cardinality(FlaggedRows(j)) \in Nat
BY FlaggedFinite

\* The same, in the next state.
LEMMA NextFlagCounts == (\A j \in Job : Cardinality(FlaggedRows(j)) \in Nat)'
BY FlagCounts, PTL

FlagsGrow == \A k \in Job : Cardinality(FlaggedRows(k)) <= Cardinality(FlaggedRows(k)')
FaultsGrow == faults <= faults'
QuotaGrows == days' = 0 => days = 0 /\ quotaUsed <= quotaUsed'
WorkEnds == \A k \in Job : Unfinished(k)' => Unfinished(k)

\* No flag is ever removed.
LEMMA StepFlags ==
    ASSUME DiskInv, LifeInv, [Next]_vars
    PROVE  FlagsGrow
<1>1. LifeMove /\ TypeOK
  BY StepLife DEF DiskInv
<1>2. \/ UNCHANGED flagged
      \/ \E i \in Items : flagged[i] = 0 /\ flagged' = [flagged EXCEPT ![i] = 1]
  BY <1>1 DEF LifeMove, Queues, Flags, Finishes
<1>3. CASE UNCHANGED flagged
  BY <1>3, FlaggedFinite DEF FlagsGrow, FlaggedRows
<1>4. ASSUME NEW i \in Items, flagged[i] = 0, flagged' = [flagged EXCEPT ![i] = 1],
             NEW k \in Job
      PROVE  Cardinality(FlaggedRows(k)) <= Cardinality(FlaggedRows(k)')
  <2>1. /\ Cardinality(FlaggedRows(k)') = Cardinality(FlaggedRows(k)) + (IF i.job = k THEN 1 ELSE 0)
        /\ Cardinality(FlaggedRows(k)) \in Nat
    BY <1>1, <1>4, FlaggedOneMore, FlaggedFinite
  <2> QED BY <2>1
<1> QED BY <1>2, <1>3, <1>4 DEF FlagsGrow

\* Failures only add up, and a day's calls too.
LEMMA StepCounters ==
    ASSUME TypeOK, [Next]_vars
    PROVE  FaultsGrow /\ QuotaGrows
<1> USE DEF FaultsGrow, QuotaGrows
<1>0. faults \in Nat /\ days \in Nat /\ quotaUsed \in Nat
  BY DEF TypeOK, TablesOK, ProcessOK
<1> DEFINE Grow == FaultsGrow /\ QuotaGrows
<1>1. ASSUME UNCHANGED <<faults, quotaUsed, days>> PROVE Grow
  BY <1>0, <1>1
<1>2. ASSUME NEW ok \in BOOLEAN, Call(ok), UNCHANGED <<quotaUsed, days>> PROVE Grow
  BY <1>0, <1>2 DEF Call
<1> HIDE DEF Grow, FaultsGrow, QuotaGrows
<1>3. ASSUME Handlers PROVE Grow
  BY <1>1, <1>2, <1>3 DEF Handlers, EnqueueParse, SendJob, GetJob, tables, spent
<1>4. ASSUME JobLoop PROVE Grow
  <2>1. CASE StartJob \/ ParseFails \/ ParseArchive \/ TweetsSaved \/ QueueTweet \/ EndJob \/ JobLoopStops
    BY <1>1, <2>1 DEF StartJob, ParseFails, ParseArchive, TweetsSaved, QueueTweet, EndJob,
                      JobLoopStops, tables, spent
  <2>2. ASSUME NEW ok \in BOOLEAN, JobNotFound(ok) \/ SaveTweet(ok) \/ FlagTweet(ok) \/ MarkFlagged(ok) \/ MarkTweet(ok)
        PROVE  Grow
    BY <1>2, <2>2 DEF JobNotFound, SaveTweet, FlagTweet, MarkFlagged, MarkTweet, tables
  <2> QED BY <1>4, <2>1, <2>2 DEF JobLoop
<1>5. ASSUME TweetLoop PROVE Grow
  <2>1. CASE PauseForQuota \/ CheckDone \/ ScoreFails \/ QuotaExceeded \/ WakeUp \/ Requeue \/ TweetLoopStops
    BY <1>1, <2>1 DEF PauseForQuota, CheckDone, ScoreFails, QuotaExceeded, WakeUp, Requeue,
                      TweetLoopStops, tables, spent
  <2>2. ASSUME NEW ok \in BOOLEAN, DropTweet(ok) \/ StartScore(ok) \/ RecordScore(ok) \/ MarkProcessed(ok)
        PROVE  Grow
    BY <1>2, <2>2 DEF DropTweet, StartScore, RecordScore, MarkProcessed, tables
  <2>3. ASSUME NEW ok \in BOOLEAN, NEW hit \in BOOLEAN, ScoreSucceeds(hit, ok) PROVE Grow
    BY <1>0, <2>3 DEF ScoreSucceeds, Call, Grow, FaultsGrow, QuotaGrows
  <2> QED BY <1>5, <2>1, <2>2, <2>3 DEF TweetLoop
<1>6. ASSUME NEW f, NEW j, NEW ok \in BOOLEAN, SaveJob(f, j, ok) PROVE Grow
  BY <1>2, <1>6 DEF SaveJob
<1>7. ASSUME Ticker \/ Main PROVE Grow
  BY <1>1, <1>6, <1>7 DEF Ticker, Main, Tick, LastTick, TickDone, Signal, HttpDrained,
                          HttpTimeout, WorkersDone, Exit, ShutdownTimeout, MainOnly, tables, spent
<1>8. ASSUME Restart \/ UNCHANGED vars PROVE Grow
  BY <1>1, <1>8 DEF Restart, vars, tables, spent
<1>9. ASSUME NewDay PROVE Grow
  BY <1>0, <1>9 DEF NewDay, Grow, FaultsGrow, QuotaGrows
<1> QED BY <1>3, <1>4, <1>5, <1>7, <1>8, <1>9 DEF Next, Grow

\* What is bounded stays bounded.
LEMMA BoundedKept ==
    ASSUME TypeOK, TypeOK', FlagsGrow, FaultsGrow, QuotaGrows, NEW k \in Job, NEW r \in Row,
           Bounded(k, r)
    PROVE  Bounded(k, r)'
<1>1. faults \in Nat /\ faults' \in Nat /\ quotaUsed \in Nat /\ quotaUsed' \in Nat
  BY DEF TypeOK, TablesOK, ProcessOK
<1>2. Cardinality(FlaggedRows(k)) \in Nat /\ Cardinality(FlaggedRows(k)') \in Nat
  BY FlagCounts, NextFlagCounts
<1>3. r.flagged \in Nat /\ r.calls \in Nat
  BY DEF Row
<1> QED BY <1>1, <1>2, <1>3 DEF Bounded, FlagsGrow, FaultsGrow, QuotaGrows

\* The steps of jobLoop within one job.
Within == \/ ParseArchive \/ TweetsSaved \/ QueueTweet
          \/ \E ok \in BOOLEAN : SaveTweet(ok) \/ FlagTweet(ok) \/ MarkFlagged(ok) \/ MarkTweet(ok)

\* They stay with the job and never go back to parsing it.
LEMMA WithinJob ==
    ASSUME TypeOK, Within
    PROVE  jl.pc \in JobBusy /\ jl'.pc \in JobBusy \ {"parse"} /\ jl'.job = jl.job
<1>1. DOMAIN jl = {"pc", "job", "next"}
  BY DEF TypeOK, JobLoopOK
<1>2. NextTweet => jl'.job = jl.job /\ jl'.pc = "filter"
  BY DEF NextTweet
<1>3. CASE ParseArchive
  BY <1>1, <1>3 DEF ParseArchive, JobBusy
<1>4. CASE TweetsSaved
  BY <1>4 DEF TweetsSaved, JobBusy
<1>5. CASE QueueTweet
  BY <1>2, <1>5 DEF QueueTweet, JobBusy
<1>6. ASSUME NEW ok \in BOOLEAN, SaveTweet(ok)
      PROVE  jl.pc \in JobBusy /\ jl'.pc \in JobBusy \ {"parse"} /\ jl'.job = jl.job
  BY <1>1, <1>6 DEF SaveTweet, JobBusy
<1>7. ASSUME NEW ok \in BOOLEAN, FlagTweet(ok)
      PROVE  jl.pc \in JobBusy /\ jl'.pc \in JobBusy \ {"parse"} /\ jl'.job = jl.job
  BY <1>1, <1>7 DEF FlagTweet, Filtering, JobBusy
<1>8. ASSUME NEW ok \in BOOLEAN, MarkFlagged(ok)
      PROVE  jl.pc \in JobBusy /\ jl'.pc \in JobBusy \ {"parse"} /\ jl'.job = jl.job
  BY <1>2, <1>8 DEF MarkFlagged, JobBusy
<1>9. ASSUME NEW ok \in BOOLEAN, MarkTweet(ok)
      PROVE  jl.pc \in JobBusy /\ jl'.pc \in JobBusy \ {"parse"} /\ jl'.job = jl.job
  <2>1. jl.pc = "filter" /\ (NextTweet \/ jl' = [jl EXCEPT !.pc = "send"])
    BY <1>9 DEF MarkTweet, Filtering
  <2> QED BY <1>1, <1>2, <2>1 DEF JobBusy
<1> QED BY <1>3, <1>4, <1>5, <1>6, <1>7, <1>8, <1>9 DEF Within

\* jobLoop never takes up a job again that it has finished with.
LEMMA StepWork ==
    ASSUME TypeOK, [Next]_vars
    PROVE  WorkEnds
<1> SUFFICES ASSUME NEW k \in Job, Unfinished(k)' PROVE Unfinished(k)
  BY DEF WorkEnds
<1>1. CASE UNCHANGED <<upload, jobQueue, jl>>
  BY <1>1 DEF Unfinished, Has
<1>2. ASSUME Handlers PROVE Unfinished(k)
  <2>1. ASSUME NEW j \in Job, NEW ok \in BOOLEAN, EnqueueParse(j, ok) PROVE Unfinished(k)
    <3>1. upload[j] = "none" /\ upload' = [upload EXCEPT ![j] = "sending"] /\ UNCHANGED <<jobQueue, jl>>
      BY <2>1 DEF EnqueueParse, queues
    <3> QED BY <3>1 DEF Unfinished, Has, TypeOK, ProcessOK
  <2>2. ASSUME NEW j \in Job, SendJob(j) PROVE Unfinished(k)
    <3>1. /\ upload[j] = "sending" /\ upload' = [upload EXCEPT ![j] = "over"]
          /\ Elems(jobQueue') = Elems(jobQueue) \cup {j} /\ UNCHANGED jl
      BY <2>2, AppendElems DEF SendJob, Answer, TypeOK, QueuesOK
    <3> QED BY <3>1 DEF Unfinished, Has, TypeOK, ProcessOK
  <2>3. ASSUME NEW j \in Job, GetJob(j) PROVE Unfinished(k)
    BY <1>1, <2>3 DEF GetJob, queues
  <2> QED BY <1>2, <2>1, <2>2, <2>3 DEF Handlers
<1>3. ASSUME jobQueue # <<>>, jobQueue' = Tail(jobQueue), UNCHANGED upload,
             Has("job", k)' => Has("job", k) \/ k = Head(jobQueue)
      PROVE  Unfinished(k)
  <2>1. Head(jobQueue) \in Elems(jobQueue) /\ Elems(jobQueue') \subseteq Elems(jobQueue)
    BY <1>3, TailElems DEF TypeOK, QueuesOK
  <2> QED BY <1>3, <2>1 DEF Unfinished
<1>4. ASSUME UNCHANGED <<jobQueue, upload>>, Has("job", k)' => Has("job", k)
      PROVE  Unfinished(k)
  BY <1>4 DEF Unfinished
<1>5. ASSUME JobLoop PROVE Unfinished(k)
  <2>1. ASSUME StartJob \/ \E ok \in BOOLEAN : JobNotFound(ok) PROVE Unfinished(k)
    BY <1>3, <2>1 DEF StartJob, JobNotFound, Has
  <2>2. ASSUME Within PROVE Unfinished(k)
    <3>1. UNCHANGED <<jobQueue, upload>>
      BY <2>2 DEF Within, ParseArchive, SaveTweet, TweetsSaved, FlagTweet, MarkFlagged, MarkTweet, QueueTweet, queues
    <3> QED BY <1>4, <2>2, <3>1, WithinJob DEF Has
  <2>3. ASSUME ParseFails \/ EndJob \/ JobLoopStops PROVE Unfinished(k)
    <3>1. UNCHANGED <<jobQueue, upload>> /\ jl'.pc \notin JobBusy
      BY <2>3 DEF ParseFails, AfterFailure, EndJob, JobLoopStops, JobIdle, JobBusy, queues
    <3> QED BY <1>4, <3>1 DEF Has
  <2> QED BY <1>5, <2>1, <2>2, <2>3 DEF JobLoop, Within
<1>6. ASSUME TweetLoop PROVE Unfinished(k)
  <2>1. UNCHANGED <<upload, jobQueue, jl>>
    BY <1>6 DEF TweetLoop, PauseForQuota, DropTweet, StartScore, ScoreSucceeds, RecordScore, CheckDone,
       ScoreFails, MarkProcessed, QuotaExceeded, WakeUp, Requeue, TweetLoopStops, queues
  <2> QED BY <1>1, <2>1
<1>7. ASSUME Ticker \/ Main \/ NewDay \/ UNCHANGED vars PROVE Unfinished(k)
  <2>1. UNCHANGED <<upload, jobQueue, jl>>
    BY <1>7 DEF Ticker, Main, NewDay, SaveJob, Tick, LastTick, TickDone, Signal, HttpDrained,
           HttpTimeout, WorkersDone, Exit, ShutdownTimeout, MainOnly, queues, vars
  <2> QED BY <1>1, <2>1
<1>8. ASSUME Restart PROVE Unfinished(k)
  <2>1. /\ upload'[k] \in {"none", "sending"} => upload[k] = "none"
        /\ Elems(jobQueue') = {} /\ ~Has("job", k)'
    BY <1>8 DEF Restart, JobIdle, JobBusy, Has, Elems, TypeOK, ProcessOK
  <2> QED BY <2>1 DEF Unfinished
<1> QED BY <1>2, <1>5, <1>6, <1>7, <1>8 DEF Next

Grows == FlagsGrow /\ FaultsGrow /\ QuotaGrows /\ WorkEnds

\* Every step only adds to what bounds the values.
LEMMA StepGrows ==
    ASSUME DiskInv, LifeInv, [Next]_vars
    PROVE  Grows
BY StepFlags, StepCounters, StepWork DEF DiskInv, Grows

-----------------------------------------------------------------------------
(* The value a step adds *)

\* The values of a job are rows.
LEMMA CopiesType ==
    ASSUME RefsOK, NEW j \in Job
    PROVE  Copies(j) \subseteq Row
<1> SUFFICES ASSUME NEW r \in Copies(j) PROVE r \in Row
  OBVIOUS
<1>1. \A ref \in RefsTo(j) : ref.row \in Row
  BY InRefs DEF RefsOK, Ref
<1> QED BY <1>1, InCopies DEF RefsOK

\* A good value is good in the next state, whatever else of it changes.
LEMMA GoodLike ==
    ASSUME TypeOK, TypeOK', Grows, NEW j \in Job, NEW s \in Row, NEW r \in Row, GoodRow(j, s),
           r.flagged = s.flagged, r.calls = s.calls, r.status = s.status \/ r.status # "failed"
    PROVE  GoodRow(j, r)'
<1>1. Bounded(j, r)
  BY DEF GoodRow, Bounded
<1>2. Bounded(j, r)'
  BY <1>1, BoundedKept DEF Grows
<1> QED BY <1>2 DEF GoodRow, Grows, WorkEnds

\* A new job claims nothing.
LEMMA GoodFresh ==
    ASSUME TypeOK', NEW j \in Job, NEW r, r = Fresh
    PROVE  GoodRow(j, r)' /\ r \in Row /\ r.status # "absent"
<1>1. Cardinality(FlaggedRows(j)') \in Nat
  BY NextFlagCounts
<1>2. r.status = "queued" /\ r.flagged = 0 /\ r.calls = 0 /\ r \in Row
  BY RowTypes DEF Fresh, Absent
<1>3. faults' \in Nat /\ quotaUsed' \in Nat
  BY DEF TypeOK, TablesOK, ProcessOK
<1>4. 0 <= Cardinality(FlaggedRows(j)') + faults' /\ 0 <= quotaUsed' + faults'
  <2>1. \A a, b \in Nat : 0 <= a + b
    OBVIOUS
  <2> QED BY <1>1, <1>3, <2>1, Zenon
<1>5. Bounded(j, r)'
  BY <1>2, <1>4 DEF Bounded
<1> QED BY <1>2, <1>5 DEF GoodRow

RowMove ==
    \/ RefsOwned' /\ \A k \in Job : Copies(k)' \subseteq Copies(k)
    \/ \E j \in Job, r \in Row : Adds(j, r) /\ GoodRow(j, r)' /\ r.status # "absent"

Step == DiskInv /\ RowsInv /\ TypeOK' /\ Grows

\* No step of the others is one of a loop.
LEMMA LoopsStay ==
    ASSUME UNCHANGED <<jl, tl>>
    PROVE  \A w \in Loop : LoopKeeps(w)
BY DEF LoopKeeps, Has

\* Steps that touch neither references nor objects nor the loops' jobs.
LEMMA MoveNone ==
    ASSUME Step, UNCHANGED <<refs, obj>>, \A w \in Loop : LoopKeeps(w)
    PROVE  RowMove
<1>1. NoNewRefs
  BY DEF NoNewRefs, RefsTo, PendingTo, refs
<1>2. \A w \in Loop : LoopStays(w)
  BY DEF LoopStays
<1> QED BY <1>1, <1>2, AddsNone DEF RowMove, Step, RowsInv

\* Upload and status handlers.
LEMMA HandlersMove ==
    ASSUME Step, Handlers
    PROVE  RowMove
<1> USE DEF Step, RowsInv
<1>1. ASSUME NEW j \in Job, NEW ok \in BOOLEAN, EnqueueParse(j, ok) PROVE RowMove
  <2>0. PICK r : r = Fresh
    OBVIOUS
  <2>1. /\ jobs' = [jobs EXCEPT ![j] = Held(r)]
        /\ UNCHANGED <<jobUpdateQueue, jobsToUpdate, obj, jl, tl>>
    BY <1>1, <2>0 DEF EnqueueParse
  <2>2. \A k \in Job : \A ref \in RefsTo(k)' : ref \in RefsTo(k) \/ (k = j /\ ref = Held(r))
    BY <2>1 DEF RefsTo, PendingTo, DiskInv, TypeOK, RefsOK
  <2>3. \A w \in Loop : LoopStays(w)
    BY <2>1, LoopsStay DEF LoopStays
  <2>4. Adds(j, r)
    BY <2>2, <2>3, AddsHeld
  <2> QED BY <2>0, <2>4, GoodFresh DEF RowMove
<1>2. ASSUME NEW j \in Job, SendJob(j) PROVE RowMove
  BY <1>2, LoopsStay, MoveNone DEF SendJob
<1>3. ASSUME NEW j \in Job, GetJob(j) PROVE RowMove
  <2>0. PICK r \in Row : r = jobRow[j]
    BY DEF DiskInv, TypeOK, TablesOK
  <2>1. /\ r.status # "absent" /\ jobs' = [jobs EXCEPT ![j] = Held(r)]
        /\ UNCHANGED <<jobUpdateQueue, jobsToUpdate, obj, jl, tl>>
    BY <1>3, <2>0 DEF GetJob
  <2>2. \A k \in Job : \A ref \in RefsTo(k)' : ref \in RefsTo(k) \/ (k = j /\ ref = Held(r))
    BY <2>1 DEF RefsTo, PendingTo, DiskInv, TypeOK, RefsOK
  <2>3. \A w \in Loop : LoopStays(w)
    BY <2>1, LoopsStay DEF LoopStays
  <2>4. Adds(j, r)
    BY <2>2, <2>3, AddsHeld
  <2>5. GoodRow(j, r)
    BY <2>0 DEF RowsGood
  <2>6. GoodRow(j, r)'
    BY <2>5, GoodLike DEF DiskInv
  <2> QED BY <2>1, <2>4, <2>6 DEF RowMove
<1> QED BY <1>1, <1>2, <1>3 DEF Handlers

\* Within one job both loops go on with what they have.
LEMMA WithinLoops ==
    ASSUME TypeOK, Within
    PROVE  /\ \A w \in Loop : LoopKeeps(w)
           /\ \A k \in Job : (Has("job", k) <=> k = jl.job) /\ (Has("job", k)' <=> k = jl.job)
<1>1. UNCHANGED tl
  BY DEF Within, ParseArchive, SaveTweet, TweetsSaved, FlagTweet, MarkFlagged, MarkTweet, QueueTweet
<1> QED BY <1>1, WithinJob DEF LoopKeeps, Has, Loop

\* jobLoop's object becomes r, and is updated or not.
LEMMA MoveJobObject ==
    ASSUME Step, Within, NEW j \in Job, j = jl.job, NEW r \in Row,
           obj' = [obj EXCEPT !["job"] = r],
           updateJob(j, Live("job")) \/ UNCHANGED refs,
           GoodRow(j, r)', r.status = obj["job"].status
    PROVE  RowMove
<1> USE DEF Step, RowsInv
<1>1. /\ RefsOK /\ "job" \in Loop
      /\ \A k \in Job : Has("job", k) => k = j
      /\ \A k \in Job : Has("job", k)' <=> k = j
      /\ \A v \in Loop \ {"job"} : LoopKeeps(v)
  BY WithinLoops DEF DiskInv, TypeOK, Loop
<1>2. Adds(j, r)
  BY <1>1, AddsUpdate, AddsObject
<1>3. obj["job"] \in Copies(j)
  BY InCopies, WithinLoops DEF DiskInv, Loop
<1>4. r.status # "absent"
  BY <1>3 DEF RowsGood
<1> QED BY <1>2, <1>4 DEF RowMove

\* jobLoop's object is a good value of its job.
LEMMA JobObject ==
    ASSUME Step, Has("job", jl.job), jl.job \in Job
    PROVE  /\ obj["job"] \in Row /\ obj["job"] \in Copies(jl.job)
           /\ GoodRow(jl.job, obj["job"]) /\ obj["job"].status # "absent"
BY InCopies DEF Step, RowsInv, DiskInv, TypeOK, RefsOK, RowsGood, Loop

\* Steps of jobLoop that count a tweet.
LEMMA MoveCount ==
    ASSUME Step, Within, NEW hit \in BOOLEAN, CountTweet(hit),
           hit => jl.pc = "mark"
    PROVE  RowMove
<1> USE DEF Step, RowsInv
<1>1. jl.job \in Job /\ Has("job", jl.job)
  BY WithinJob, WithinLoops DEF DiskInv, TypeOK, JobLoopOK
<1>2. PICK j \in Job : j = jl.job
  BY <1>1
<1>3. PICK s \in Row : s = obj["job"]
  BY <1>1, JobObject
<1>4. PICK r \in Row : r = Plus(s, 0, hit)
  BY RowTypes
<1>5. obj' = [obj EXCEPT !["job"] = r] /\ (updateJob(j, Live("job")) \/ UNCHANGED refs)
  BY <1>2, <1>3, <1>4 DEF CountTweet
<1>6. /\ r.status = s.status /\ r.calls = s.calls
      /\ r.flagged = s.flagged + (IF hit THEN 1 ELSE 0)
      /\ s.flagged \in Nat /\ s.calls \in Nat /\ r.flagged \in Nat
  BY <1>4 DEF Plus, Row
<1>7. GoodRow(j, s) /\ s.status # "absent"
  BY <1>1, <1>2, <1>3, JobObject
<1>8. GoodRow(j, r)
  <2>1. CASE hit
    <3>1. s.flagged < Cardinality(FlaggedRows(j)) + faults
      BY <1>2, <1>3, <2>1 DEF CountLags
    <3>2. Cardinality(FlaggedRows(j)) \in Nat /\ faults \in Nat
      BY FlaggedFinite DEF DiskInv, TypeOK, ProcessOK
    <3>3. r.flagged <= Cardinality(FlaggedRows(j)) + faults
      BY <1>6, <2>1, <3>1, <3>2
    <3> QED BY <1>6, <1>7, <3>3 DEF GoodRow, Bounded
  <2>2. CASE ~hit
    BY <1>6, <1>7, <2>2 DEF GoodRow, Bounded
  <2> QED BY <2>1, <2>2
<1>9. GoodRow(j, r)'
  BY <1>8, GoodLike DEF DiskInv
<1> QED BY <1>2, <1>3, <1>5, <1>6, <1>9, MoveJobObject

\* jobLoop drops its object of a job, whose final value is r.
LEMMA MoveJobDropped ==
    ASSUME Step, NEW j \in Job, Has("job", j), jl' = JobIdle, UNCHANGED tl,
           NEW r \in Row, UpdateAndReturn("job", j, r),
           GoodRow(j, r)', r.status # "absent"
    PROVE  RowMove
<1> USE DEF Step, RowsInv
<1>1. RefsOK /\ "job" \in Loop
  BY DEF DiskInv, TypeOK, Loop
<1>2. obj' = [obj EXCEPT !["job"] = Absent] /\ Drops("job", j, r)
  BY <1>1, ReturnDrops DEF UpdateAndReturn
<1>3. /\ \A k \in Job : Has("job", k) => k = j
      /\ \A k \in Job : ~Has("job", k)'
      /\ \A v \in Loop \ {"job"} : LoopKeeps(v)
  BY DEF Has, JobIdle, JobBusy, LoopKeeps, Loop
<1>4. Adds(j, r)
  BY <1>1, <1>2, <1>3, AddsDropped
<1> QED BY <1>4 DEF RowMove

\* jobLoop.
LEMMA JobLoopMove ==
    ASSUME Step, JobLoop
    PROVE  RowMove
<1> USE DEF Step, RowsInv
<1>1. ASSUME NEW ok \in BOOLEAN, JobNotFound(ok) PROVE RowMove
  BY <1>1, LoopsStay, MoveNone DEF JobNotFound
<1>2. ASSUME StartJob PROVE RowMove
  <2>1. Head(jobQueue) \in Job /\ Head(jobQueue) \in Elems(jobQueue)
    BY <1>2, TailElems DEF StartJob, DiskInv, TypeOK, QueuesOK
  <2>2. PICK j \in Job : j = Head(jobQueue)
    BY <2>1
  <2>3. PICK s \in Row : s = jobRow[j]
    BY DEF DiskInv, TypeOK, TablesOK
  <2>4. PICK r \in Row : r = [s EXCEPT !.status = "running"]
    BY RowTypes DEF Status
  <2>5. /\ obj' = [obj EXCEPT !["job"] = r] /\ updateJob(j, Live("job"))
        /\ jl.pc = "idle" /\ jl'.pc = "parse" /\ jl'.job = j /\ UNCHANGED tl
    BY <1>2, <2>2, <2>3, <2>4 DEF StartJob
  <2>6. /\ RefsOK /\ "job" \in Loop
        /\ \A k \in Job : ~Has("job", k)
        /\ \A k \in Job : Has("job", k)' <=> k = j
        /\ \A v \in Loop \ {"job"} : LoopKeeps(v)
    BY <2>5 DEF Has, JobBusy, LoopKeeps, Loop, DiskInv, TypeOK
  <2>7. Adds(j, r)
    BY <2>5, <2>6, AddsUpdate
  <2>8. r.status = "running" /\ r.flagged = s.flagged /\ r.calls = s.calls
    BY <2>4 DEF Row
  <2>9. GoodRow(j, s)
    BY <2>3 DEF RowsGood
  <2>10. GoodRow(j, r)'
    BY <2>8, <2>9, GoodLike DEF DiskInv
  <2> QED BY <2>7, <2>8, <2>10 DEF RowMove
<1>3. ASSUME ParseFails PROVE RowMove
  <2>1. jl.pc = "parse" /\ jl.job \in Job /\ jl.job \in BadArchive /\ Has("job", jl.job)
    BY <1>3 DEF ParseFails, JobBusy, Has, DiskInv, TypeOK, JobLoopOK
  <2>2. PICK j \in Job : j = jl.job
    BY <2>1
  <2>3. PICK s \in Row : s = obj["job"]
    BY <2>1, JobObject
  <2>4. PICK r \in Row : r = [s EXCEPT !.status = "failed"]
    BY RowTypes DEF Status
  <2>5. /\ UpdateAndReturn("job", j, r) /\ jl' = JobIdle /\ UNCHANGED <<tl, jobQueue, upload>>
    BY <1>3, <2>2, <2>3, <2>4 DEF ParseFails, AfterFailure, queues
  <2>6. r.status = "failed" /\ r.flagged = s.flagged /\ r.calls = s.calls
    BY <2>4 DEF Row
  <2>7. GoodRow(j, s)
    BY <2>1, <2>2, <2>3, JobObject
  <2>8. Bounded(j, r)
    BY <2>6, <2>7 DEF GoodRow, Bounded
  <2>9. Bounded(j, r)'
    BY <2>8, BoundedKept DEF DiskInv, Grows
  <2>10. j \notin Elems(jobQueue) /\ upload[j] = "over"
    BY <2>1, <2>2, Apart DEF LifeInv, Has
  <2>11. ~Unfinished(j)'
    BY <2>1, <2>2, <2>5, <2>10 DEF Unfinished, Has, JobIdle, JobBusy
  <2>12. GoodRow(j, r)'
    BY <2>9, <2>11 DEF GoodRow
  <2>13. Has("job", j)
    BY <2>1, <2>2
  <2> QED BY <2>5, <2>6, <2>12, <2>13, MoveJobDropped
<1>4. ASSUME EndJob PROVE RowMove
  <2>1. jl.job \in Job /\ Has("job", jl.job)
    BY <1>4 DEF EndJob, JobBusy, Has, DiskInv, TypeOK, JobLoopOK
  <2>2. PICK j \in Job : j = jl.job
    BY <2>1
  <2>3. PICK r \in Row : r = obj["job"]
    BY <2>1, JobObject
  <2>4. UpdateAndReturn("job", j, r) /\ jl' = JobIdle /\ UNCHANGED tl
    BY <1>4, <2>2, <2>3 DEF EndJob
  <2>5. GoodRow(j, r) /\ r.status # "absent" /\ Has("job", j)
    BY <2>1, <2>2, <2>3, JobObject
  <2>6. GoodRow(j, r)'
    BY <2>5, GoodLike DEF DiskInv
  <2> QED BY <2>4, <2>5, <2>6, MoveJobDropped
<1>5. ASSUME TweetsSaved PROVE RowMove
  <2>0. Within
    BY <1>5 DEF Within
  <2>1. jl.job \in Job /\ Has("job", jl.job) /\ Len(Archive[jl.job]) \in Nat
    BY <2>0, WithinJob, WithinLoops, ArchiveAssumption DEF DiskInv, TypeOK, JobLoopOK
  <2>2. PICK j \in Job : j = jl.job
    BY <2>1
  <2>3. PICK s \in Row : s = obj["job"]
    BY <2>1, JobObject
  <2>4. PICK r \in Row : r = [s EXCEPT !.total = Len(Archive[j])]
    BY <2>1, <2>2, RowTypes
  <2>5. obj' = [obj EXCEPT !["job"] = r] /\ updateJob(j, Live("job"))
    BY <1>5, <2>2, <2>3, <2>4 DEF TweetsSaved
  <2>6. r.status = s.status /\ r.flagged = s.flagged /\ r.calls = s.calls
    BY <2>4 DEF Row
  <2>7. GoodRow(j, s)
    BY <2>1, <2>2, <2>3, JobObject
  <2>8. GoodRow(j, r)'
    BY <2>6, <2>7, GoodLike DEF DiskInv
  <2> QED BY <2>0, <2>2, <2>3, <2>5, <2>6, <2>8, MoveJobObject
<1>6. ASSUME ParseArchive \/ \E ok \in BOOLEAN : SaveTweet(ok) \/ FlagTweet(ok) \/ MarkTweet(ok)
      PROVE  RowMove
  <2>1. Within /\ UNCHANGED <<refs, obj>>
    BY <1>6 DEF Within, ParseArchive, SaveTweet, FlagTweet, MarkTweet
  <2> QED BY <2>1, WithinLoops, MoveNone DEF DiskInv
<1>7. ASSUME NEW ok \in BOOLEAN, MarkFlagged(ok) PROVE RowMove
  BY <1>7, MoveCount DEF MarkFlagged, Within
<1>8. ASSUME QueueTweet PROVE RowMove
  BY <1>8, MoveCount DEF QueueTweet, Within
<1>9. ASSUME JobLoopStops PROVE RowMove
  <2>1. \A w \in Loop : LoopKeeps(w)
    BY <1>9 DEF JobLoopStops, JobIdle, JobBusy, LoopKeeps, Has
  <2> QED BY <1>9, <2>1, MoveNone DEF JobLoopStops
<1> QED BY <1>1, <1>2, <1>3, <1>4, <1>5, <1>6, <1>7, <1>8, <1>9 DEF JobLoop

\* tweetLoop goes on with the tweet in its hands.
StaysInHand == /\ tl.pc \in TweetBusy /\ tl'.pc \in TweetBusy
               /\ tl'.item = tl.item /\ UNCHANGED jl

\* Then no loop changes the job it works on.
LEMMA InHandLoops ==
    ASSUME StaysInHand
    PROVE  /\ \A w \in Loop : LoopKeeps(w)
           /\ \A k \in Job : (Has("tweet", k) <=> k = tl.item.job)
                             /\ (Has("tweet", k)' <=> k = tl.item.job)
BY DEF StaysInHand, LoopKeeps, Has, Loop

\* tweetLoop's object is a good value of its job.
LEMMA TweetObject ==
    ASSUME Step, tl.pc \in TweetBusy
    PROVE  /\ tl.item \in Items /\ tl.item.job \in Job
           /\ Has("tweet", tl.item.job) /\ tl.item.job \notin BadArchive
           /\ obj["tweet"] \in Row /\ obj["tweet"] \in Copies(tl.item.job)
           /\ GoodRow(tl.item.job, obj["tweet"]) /\ obj["tweet"].status # "absent"
<1> USE DEF Step, RowsInv
<1>1. tl.item \in Items /\ tl.item.job \in Job /\ Has("tweet", tl.item.job)
  BY ItemTypes DEF DiskInv, TypeOK, TweetLoopOK, Has
<1>2. tl.item.job \notin BadArchive
  BY DEF OnlyParsed, Waiting, InHand
<1>3. obj["tweet"] \in Row /\ obj["tweet"] \in Copies(tl.item.job)
  BY <1>1, InCopies DEF DiskInv, TypeOK, RefsOK, Loop
<1> QED BY <1>1, <1>2, <1>3 DEF RowsGood

\* tweetLoop's object becomes r and is updated.
LEMMA MoveTweetObject ==
    ASSUME Step, StaysInHand, NEW j \in Job, j = tl.item.job, NEW r \in Row,
           obj' = [obj EXCEPT !["tweet"] = r], updateJob(j, Live("tweet")),
           GoodRow(j, r)', r.status # "absent"
    PROVE  RowMove
<1> USE DEF Step, RowsInv
<1>1. /\ RefsOK /\ "tweet" \in Loop
      /\ \A k \in Job : Has("tweet", k) => k = j
      /\ \A k \in Job : Has("tweet", k)' <=> k = j
      /\ \A v \in Loop \ {"tweet"} : LoopKeeps(v)
  BY InHandLoops DEF DiskInv, TypeOK, Loop
<1>2. Adds(j, r)
  BY <1>1, AddsUpdate
<1> QED BY <1>2 DEF RowMove

\* ... to another status.
LEMMA MoveTweetStatus ==
    ASSUME Step, StaysInHand, NEW st \in {"done", "paused_quota", "running"},
           obj' = [obj EXCEPT !["tweet"] = [@ EXCEPT !.status = st]],
           updateJob(tl.item.job, Live("tweet"))
    PROVE  RowMove
<1> USE DEF Step, RowsInv
<1>1. tl.pc \in TweetBusy
  BY DEF StaysInHand
<1>2. PICK j \in Job : j = tl.item.job
  BY <1>1, TweetObject
<1>3. PICK s \in Row : s = obj["tweet"]
  BY <1>1, TweetObject
<1>4. PICK r \in Row : r = [s EXCEPT !.status = st]
  BY RowTypes DEF Status
<1>5. obj' = [obj EXCEPT !["tweet"] = r] /\ updateJob(j, Live("tweet"))
  BY <1>2, <1>3, <1>4
<1>6. r.status = st /\ r.flagged = s.flagged /\ r.calls = s.calls
  BY <1>4 DEF Row
<1>7. GoodRow(j, s)
  BY <1>1, <1>2, <1>3, TweetObject
<1>8. GoodRow(j, r)'
  BY <1>6, <1>7, GoodLike DEF DiskInv
<1> QED BY <1>2, <1>5, <1>6, <1>8, MoveTweetObject

\* tweetLoop drops its object.
LEMMA MoveTweetDropped ==
    ASSUME Step, tl.pc \in TweetBusy, tl' = TweetIdle, UNCHANGED jl, Return("tweet", obj["tweet"])
    PROVE  RowMove
<1> USE DEF Step, RowsInv
<1>1. PICK j \in Job : j = tl.item.job
  BY TweetObject
<1>2. PICK r \in Row : r = obj["tweet"]
  BY TweetObject
<1>3. RefsOK /\ "tweet" \in Loop /\ Return("tweet", r)
  BY <1>2 DEF DiskInv, TypeOK, Loop
<1>4. obj' = [obj EXCEPT !["tweet"] = Absent] /\ Drops("tweet", j, r)
  BY <1>3, ReturnDrops DEF Return
<1>5. /\ \A k \in Job : Has("tweet", k) => k = j
      /\ \A k \in Job : ~Has("tweet", k)'
      /\ \A v \in Loop \ {"tweet"} : LoopKeeps(v)
  BY <1>1 DEF Has, TweetIdle, TweetBusy, LoopKeeps, Loop
<1>6. Adds(j, r)
  BY <1>3, <1>4, <1>5, AddsDropped
<1>7. GoodRow(j, r) /\ r.status # "absent"
  BY <1>1, <1>2, TweetObject
<1>8. GoodRow(j, r)'
  BY <1>7, GoodLike DEF DiskInv
<1> QED BY <1>6, <1>7, <1>8 DEF RowMove

\* tweetLoop.
LEMMA TweetLoopMove ==
    ASSUME Step, TweetLoop
    PROVE  RowMove
<1> USE DEF Step, RowsInv
<1>0. ASSUME tweetQueue # <<>>
      PROVE  /\ Head(tweetQueue) \in Items /\ Head(tweetQueue) \in Waiting
             /\ Head(tweetQueue).job \in Job
  <2>1. tweetQueue \in Seq(Items)
    BY DEF DiskInv, TypeOK, QueuesOK
  <2> QED BY <1>0, <2>1, HeadTail, ItemTypes DEF Waiting, Queued
<1>1. ASSUME PauseForQuota PROVE RowMove
  <2>1. PICK j \in Job : j = Head(tweetQueue).job
    BY <1>0, <1>1 DEF PauseForQuota
  <2>2. PICK s \in Row : s = jobRow[j]
    BY DEF DiskInv, TypeOK, TablesOK
  <2>3. PICK r \in Row : r = [s EXCEPT !.status = "paused_quota"]
    BY RowTypes DEF Status
  <2>4. updateJob(j, Held(r)) /\ UNCHANGED <<obj, jl, tl>>
    BY <1>1, <2>1, <2>2, <2>3 DEF PauseForQuota
  <2>5. \A k \in Job : \A ref \in RefsTo(k)' : ref \in RefsTo(k) \/ (k = j /\ ref = Held(r))
    BY <2>4 DEF updateJob, RefsTo, PendingTo, DiskInv, TypeOK, RefsOK
  <2>6. \A w \in Loop : LoopStays(w)
    BY <2>4, LoopsStay DEF LoopStays
  <2>7. Adds(j, r)
    BY <2>5, <2>6, AddsHeld
  <2>8. r.status = "paused_quota" /\ r.flagged = s.flagged /\ r.calls = s.calls
    BY <2>3 DEF Row
  <2>9. GoodRow(j, s)
    BY <2>2 DEF RowsGood
  <2>10. GoodRow(j, r)'
    BY <2>8, <2>9, GoodLike DEF DiskInv
  <2> QED BY <2>7, <2>8, <2>10 DEF RowMove
<1>2. ASSUME NEW ok \in BOOLEAN, DropTweet(ok) PROVE RowMove
  BY <1>2, LoopsStay, MoveNone DEF DropTweet
<1>3. ASSUME NEW ok \in BOOLEAN, StartScore(ok) PROVE RowMove
  <2>1. PICK j \in Job : j = Head(tweetQueue).job
    BY <1>0, <1>3 DEF StartScore
  <2>2. PICK r \in Row : r = jobRow[j]
    BY DEF DiskInv, TypeOK, TablesOK
  <2>3. /\ tl.pc = "idle" /\ tl'.pc = "scoring" /\ tl'.item.job = j
        /\ r.status # "absent" /\ obj' = [obj EXCEPT !["tweet"] = r] /\ UNCHANGED <<refs, jl>>
    BY <1>3, <2>1, <2>2 DEF StartScore
  <2>4. /\ RefsOK /\ "tweet" \in Loop
        /\ \A k \in Job : ~Has("tweet", k)
        /\ \A k \in Job : Has("tweet", k)' <=> k = j
        /\ \A v \in Loop \ {"tweet"} : LoopKeeps(v)
    BY <2>3 DEF Has, TweetBusy, LoopKeeps, Loop, DiskInv, TypeOK
  <2>5. Adds(j, r)
    BY <2>3, <2>4, AddsObject
  <2>6. GoodRow(j, r)
    BY <2>2 DEF RowsGood
  <2>7. GoodRow(j, r)'
    BY <2>6, GoodLike DEF DiskInv
  <2> QED BY <2>3, <2>5, <2>7 DEF RowMove
<1>4. ASSUME ScoreFails \/ \E hit, ok \in BOOLEAN : ScoreSucceeds(hit, ok) PROVE RowMove
  <2>1. UNCHANGED <<refs, obj>> /\ StaysInHand
    BY <1>4 DEF ScoreFails, MarkAnyway, ScoreSucceeds, StaysInHand, TweetBusy, DiskInv, TypeOK, TweetLoopOK
  <2> QED BY <2>1, InHandLoops, MoveNone
<1>5. ASSUME NEW ok \in BOOLEAN, RecordScore(ok) PROVE RowMove
  <2>1. tl.pc = "recording" /\ tl.pc \in TweetBusy /\ StaysInHand /\ tl.hit \in BOOLEAN
    BY <1>5 DEF RecordScore, StaysInHand, TweetBusy, DiskInv, TypeOK, TweetLoopOK
  <2>2. PICK j \in Job : j = tl.item.job
    BY <2>1, TweetObject
  <2>3. PICK s \in Row : s = obj["tweet"]
    BY <2>1, TweetObject
  <2>4. PICK r \in Row : r = Plus(s, 1, tl.hit)
    BY <2>1, RowTypes
  <2>5. obj' = [obj EXCEPT !["tweet"] = r] /\ updateJob(j, Live("tweet"))
    BY <1>5, <2>2, <2>3, <2>4 DEF RecordScore
  <2>6. /\ r.status = s.status /\ r.calls = s.calls + 1
        /\ r.flagged = s.flagged + (IF tl.hit THEN 1 ELSE 0)
        /\ s.flagged \in Nat /\ s.calls \in Nat
    BY <2>4 DEF Plus, Row
  <2>7. GoodRow(j, s) /\ s.status # "absent" /\ j \notin BadArchive /\ tl.item \in Items
    BY <2>1, <2>2, <2>3, TweetObject
  <2>8. r.status # "failed" /\ r.status # "absent"
    BY <2>6, <2>7 DEF GoodRow, Unfinished
  <2>9. /\ faults \in Nat /\ faults' \in Nat /\ quotaUsed \in Nat /\ quotaUsed' \in Nat
        /\ faults <= faults' /\ (days' = 0 => days = 0 /\ quotaUsed <= quotaUsed')
        /\ Cardinality(FlaggedRows(j)) \in Nat
    BY FlaggedFinite DEF DiskInv, TypeOK, TablesOK, ProcessOK, Grows, FaultsGrow, QuotaGrows
  <2>10. days' = 0 => r.calls <= quotaUsed' + faults'
    <3>1. days' = 0 => s.calls < quotaUsed + faults
      BY <2>1, <2>3, <2>9 DEF CountLags
    <3> QED BY <2>6, <2>9, <3>1
  <2>11. r.flagged <= Cardinality(FlaggedRows(j)') + faults'
    <3>1. s.flagged <= Cardinality(FlaggedRows(j)) + faults
      BY <2>7 DEF GoodRow, Bounded
    <3>2. CASE tl.hit /\ ok
      <4>1. flagged[tl.item] = 0
        BY <2>1, <2>7, AheadNext DEF LifeInv, PipeInv, FlaggedOnce, JustFlagged, Waiting, InHand,
             InFlightOnce, TypeOK, JobLoopOK, AtTweet
      <4>2. flagged' = [flagged EXCEPT ![tl.item] = 1]
        BY <1>5, <3>2, <4>1 DEF RecordScore
      <4>3. PICK x \in Items : x = tl.item
        BY <2>7
      <4>4. Cardinality(FlaggedRows(j)') = Cardinality(FlaggedRows(j)) + 1
        BY <2>2, <4>1, <4>2, <4>3, FlaggedOneMore DEF DiskInv
      <4> QED BY <2>6, <2>9, <3>1, <3>2, <4>4
    <3>3. CASE ~(tl.hit /\ ok)
      <4>1. Cardinality(FlaggedRows(j)) <= Cardinality(FlaggedRows(j)')
        BY DEF Grows, FlagsGrow
      <4>2. Cardinality(FlaggedRows(j)') \in Nat
        BY NextFlagCounts
      <4>3. r.flagged <= s.flagged + (faults' - faults)
        BY <1>5, <2>6, <2>9, <3>3 DEF RecordScore, Call
      <4> QED BY <2>6, <2>9, <3>1, <4>1, <4>2, <4>3
    <3> QED BY <3>2, <3>3
  <2>12. GoodRow(j, r)'
    BY <2>8, <2>10, <2>11 DEF GoodRow, Bounded
  <2> QED BY <2>1, <2>2, <2>5, <2>8, <2>12, MoveTweetObject
<1>6. ASSUME CheckDone \/ QuotaExceeded \/ WakeUp PROVE RowMove
  <2>1. StaysInHand
    BY <1>6 DEF CheckDone, QuotaExceeded, WakeUp, StaysInHand, TweetBusy, DiskInv, TypeOK, TweetLoopOK
  <2>2. CASE UNCHANGED <<obj, refs>>
    BY <2>1, <2>2, InHandLoops, MoveNone
  <2>3. CASE /\ obj' = [obj EXCEPT !["tweet"] = [@ EXCEPT !.status = "done"]]
             /\ updateJob(tl.item.job, Live("tweet"))
    BY <2>1, <2>3, MoveTweetStatus
  <2>4. CASE QuotaExceeded
    BY <2>1, <2>4, MoveTweetStatus DEF QuotaExceeded
  <2>5. CASE WakeUp
    BY <2>1, <2>5, MoveTweetStatus DEF WakeUp
  <2> QED BY <1>6, <2>2, <2>3, <2>4, <2>5 DEF CheckDone
<1>7. ASSUME Requeue \/ \E ok \in BOOLEAN : MarkProcessed(ok) PROVE RowMove
  <2>1. tl.pc \in TweetBusy /\ tl' = TweetIdle /\ UNCHANGED jl /\ Return("tweet", obj["tweet"])
    BY <1>7 DEF Requeue, MarkProcessed, TweetBusy
  <2> QED BY <2>1, MoveTweetDropped
<1>8. ASSUME TweetLoopStops PROVE RowMove
  <2>1. \A w \in Loop : LoopKeeps(w)
    BY <1>8 DEF TweetLoopStops, TweetIdle, TweetBusy, LoopKeeps, Has
  <2> QED BY <1>8, <2>1, MoveNone DEF TweetLoopStops
<1> QED BY <1>1, <1>2, <1>3, <1>4, <1>5, <1>6, <1>7, <1>8 DEF TweetLoop

\* Steps that may only forget references.
LEMMA MoveForgets ==
    ASSUME Step, NoNewRefs, UNCHANGED <<obj, jl, tl>>
    PROVE  RowMove
<1>1. \A w \in Loop : LoopStays(w)
  BY LoopsStay DEF LoopStays
<1> QED BY <1>1, AddsNone DEF RowMove, Step, RowsInv

\* The ticker and main: TakeUpdates copies references, Written drops one.
LEMMA ProcessMove ==
    ASSUME Step, Ticker \/ Main \/ NewDay \/ UNCHANGED vars
    PROVE  RowMove
<1> USE DEF Step, RowsInv
<1>0. RefsOK
  BY DEF DiskInv, TypeOK
<1>1. ASSUME NEW f \in Flusher, TakeUpdates(f), UNCHANGED <<obj, jl, tl>> PROVE RowMove
  <2>1. NoNewRefs
    BY <1>0, <1>1 DEF TakeUpdates, NoNewRefs, RefsTo, PendingTo, RefsOK, Empty
  <2> QED BY <1>1, <2>1, MoveForgets
<1>2. ASSUME NEW f \in Flusher, NEW j \in Job, NEW ok \in BOOLEAN, SaveJob(f, j, ok) PROVE RowMove
  <2>1. /\ jobsToUpdate' = [jobsToUpdate EXCEPT ![f][j] = Nil]
        /\ UNCHANGED <<jobs, jobUpdateQueue, obj, jl, tl>>
    BY <1>2 DEF SaveJob, Written
  <2>2. \A g \in Flusher, k \in Job : jobsToUpdate'[g][k] \in {jobsToUpdate[g][k], Nil}
    BY <1>0, <2>1 DEF RefsOK
  <2>3. NoNewRefs
    BY <2>1, <2>2 DEF NoNewRefs, RefsTo, PendingTo
  <2> QED BY <2>1, <2>3, MoveForgets
<1>3. ASSUME UNCHANGED <<refs, obj, jl, tl>> PROVE RowMove
  BY <1>3, LoopsStay, MoveNone
<1>4. "ticker" \in Flusher /\ "shutdown" \in Flusher
  BY DEF Flusher
<1>5. ASSUME Tick \/ LastTick PROVE RowMove
  <2>1. TakeUpdates("ticker") /\ UNCHANGED <<obj, jl, tl>>
    BY <1>5 DEF Tick, LastTick
  <2> QED BY <1>1, <1>4, <2>1
<1>6. ASSUME WorkersDone PROVE RowMove
  <2>1. TakeUpdates("shutdown") /\ UNCHANGED <<obj, jl, tl>>
    BY <1>6 DEF WorkersDone, MainOnly
  <2> QED BY <1>1, <1>4, <2>1
<1>7. ASSUME TickDone \/ Signal \/ HttpDrained \/ HttpTimeout \/ Exit \/ ShutdownTimeout
              \/ NewDay \/ UNCHANGED vars
      PROVE  RowMove
  BY <1>3, <1>7 DEF TickDone, Signal, HttpDrained, HttpTimeout, Exit, ShutdownTimeout, MainOnly,
                    NewDay, vars
<1> QED BY <1>2, <1>4, <1>5, <1>6, <1>7 DEF Ticker, Main

\* A restart forgets them all.
LEMMA RestartMove ==
    ASSUME Step, Restart
    PROVE  RowMove
<1>1. /\ \A k \in Job : \A ref \in RefsTo(k)' : ref = Nil
      /\ \A w \in Loop, k \in Job : ~Has(w, k)'
  BY DEF Restart, RefsTo, PendingTo, Empty, Has, JobIdle, TweetIdle, JobBusy, TweetBusy
<1>2. RefsOwned'
  BY <1>1 DEF RefsOwned, Owned, Nil, Loop
<1>3. ASSUME NEW k \in Job PROVE Copies(k)' = {}
  BY <1>1 DEF Copies, Nil
<1> QED BY <1>2, <1>3 DEF RowMove

-----------------------------------------------------------------------------
(* The invariant is kept *)

\* Every step adds at most one value, and a good one.
LEMMA StepMove ==
    ASSUME Step, [Next]_vars
    PROVE  RowMove
BY HandlersMove, JobLoopMove, TweetLoopMove, ProcessMove, RestartMove DEF Next

\* A row is written by EnqueueParse, or is what some reference points to.
RowKept(k) == \/ jobRow'[k] = jobRow[k]
              \/ jobRow'[k] \in Copies(k)
              \/ upload[k] = "none" /\ jobRow'[k] = Fresh

\* Every step treats the rows so.
LEMMA StepRows ==
    ASSUME Step, [Next]_vars
    PROVE  \A k \in Job : RowKept(k)
<1> USE DEF Step, RowsInv
<1>1. ASSUME NEW j \in Job, NEW ok \in BOOLEAN, EnqueueParse(j, ok) PROVE \A k \in Job : RowKept(k)
  BY <1>1 DEF EnqueueParse, SavedRow, RowKept, DiskInv, TypeOK, TablesOK
<1>2. ASSUME NEW f \in Flusher, NEW j \in Job, NEW ok \in BOOLEAN, SaveJob(f, j, ok)
      PROVE \A k \in Job : RowKept(k)
  <2>1. jobsToUpdate[f][j] \in RefsTo(j) /\ jobsToUpdate[f][j].at # "nil"
    BY <1>2, InRefs DEF SaveJob
  <2>2. Deref(jobsToUpdate[f][j]) \in Copies(j)
    BY <2>1, DerefCopies DEF DiskInv, TypeOK
  <2>3. jobRow' = jobRow \/ jobRow' = [jobRow EXCEPT ![j] = Deref(jobsToUpdate[f][j])]
    BY <1>2 DEF SaveJob, SavedRow
  <2> QED BY <2>2, <2>3 DEF RowKept, DiskInv, TypeOK, TablesOK
<1>3. ASSUME UNCHANGED jobRow PROVE \A k \in Job : RowKept(k)
  BY <1>3 DEF RowKept
<1>4. ASSUME JobLoop PROVE UNCHANGED jobRow
  BY <1>4 DEF JobLoop, JobNotFound, StartJob, ParseFails, ParseArchive, SaveTweet, TweetsSaved,
       FlagTweet, MarkFlagged, MarkTweet, QueueTweet, EndJob, JobLoopStops, tables
<1>5. ASSUME TweetLoop PROVE UNCHANGED jobRow
  BY <1>5 DEF TweetLoop, PauseForQuota, DropTweet, StartScore, ScoreSucceeds, RecordScore, CheckDone,
       ScoreFails, MarkProcessed, QuotaExceeded, WakeUp, Requeue, TweetLoopStops, tables
<1>6. ASSUME Ticker \/ Main PROVE \A k \in Job : RowKept(k)
  <2>1. ASSUME \A f \in Flusher, j \in Job, ok \in BOOLEAN : ~SaveJob(f, j, ok) PROVE UNCHANGED jobRow
    BY <1>6, <2>1 DEF Ticker, Main, Flusher, Tick, LastTick, TickDone, Signal, HttpDrained,
           HttpTimeout, WorkersDone, Exit, ShutdownTimeout, MainOnly, tables
  <2> QED BY <1>2, <1>3, <2>1
<1>7. ASSUME Handlers PROVE \A k \in Job : RowKept(k)
  BY <1>1, <1>3, <1>7 DEF Handlers, SendJob, GetJob, tables
<1>8. ASSUME NewDay \/ Restart \/ UNCHANGED vars PROVE UNCHANGED jobRow
  BY <1>8 DEF NewDay, Restart, vars, tables
<1> QED BY <1>3, <1>4, <1>5, <1>6, <1>7, <1>8 DEF Next

\* Every value stays good.
LEMMA KeepsRowsGood ==
    ASSUME Step, RowMove, \A k \in Job : RowKept(k)
    PROVE  RefsOwned' /\ RowsGood'
<1> USE DEF Step, RowsInv
<1>1. RefsOwned'
  BY DEF RowMove, Adds
<1>2. ASSUME NEW k \in Job, NEW s \in Copies(k) PROVE GoodRow(k, s)' /\ s.status # "absent"
  <2>1. s \in Row
    BY CopiesType DEF DiskInv, TypeOK
  <2>2. PICK r \in Row : r = s
    BY <2>1
  <2>3. GoodRow(k, r) /\ r.status # "absent"
    BY <2>2 DEF RowsGood
  <2>4. GoodRow(k, r)'
    BY <2>3, GoodLike DEF DiskInv
  <2> QED BY <2>2, <2>3, <2>4
<1>3. ASSUME NEW k \in Job, NEW s \in Copies(k)' PROVE GoodRow(k, s)' /\ s.status # "absent"
  <2>1. CASE s \in Copies(k)
    BY <1>2, <2>1
  <2>2. CASE s \notin Copies(k)
    <3>1. PICK j \in Job, r \in Row : Adds(j, r) /\ GoodRow(j, r)' /\ r.status # "absent"
      BY <1>3, <2>2 DEF RowMove
    <3> QED BY <1>3, <2>2, <3>1 DEF Adds
  <2> QED BY <2>1, <2>2
<1>4. ASSUME NEW k \in Job PROVE (GoodRow(k, jobRow[k]))'
  <2>1. PICK r : r = jobRow'[k]
    OBVIOUS
  <2>2. GoodRow(k, r)'
    <3>1. CASE r = jobRow[k]
      <4>1. r \in Row /\ GoodRow(k, r)
        BY <3>1 DEF RowsGood, DiskInv, TypeOK, TablesOK
      <4> QED BY <4>1, GoodLike DEF DiskInv
    <3>2. CASE r \in Copies(k)
      BY <1>2, <3>2
    <3>3. CASE r = Fresh
      BY <3>3, GoodFresh
    <3> QED BY <2>1, <3>1, <3>2, <3>3 DEF RowKept
  <2> QED BY <2>1, <2>2 DEF GoodRow, Bounded, Unfinished
<1>5. RowsGood'
  BY <1>3, <1>4 DEF RowsGood
<1> QED BY <1>1, <1>5

\* jobLoop takes up jobs that have a row, and passes on those it could parse.
JobFrom ==
    jl'.pc \in JobBusy =>
       \/ UNCHANGED jl
       \/ jl'.pc = "parse" /\ jl'.job \in Job /\ jobRow[jl'.job].status # "absent"
       \/ jl.pc \in JobBusy /\ jl'.job = jl.job /\ jl.job \notin BadArchive
WaitFrom == \A i \in Waiting' : i \in Waiting \/ (jl.pc = "send" /\ i.job = jl.job)

\* Where the next state's job at hand and waiting tweets come from.
LEMMA StepPipe ==
    ASSUME Step, [Next]_vars
    PROVE  JobFrom /\ WaitFrom
<1> USE DEF Step, RowsInv
<1>1. ASSUME UNCHANGED <<tl, tweetQueue>> PROVE WaitFrom
  BY <1>1 DEF WaitFrom, Waiting, Queued, InHand
<1>2. ASSUME UNCHANGED <<jl, upload, jobQueue>> PROVE JobFrom /\ WaitFrom
  <2>1. Coming' = Coming
    BY <1>2 DEF Coming, Ahead
  <2>2. Waiting' \subseteq Waiting
    <3>1. LifeMove
      BY StepLife
    <3> QED BY <2>1, <3>1 DEF LifeMove, Given, Queues, Flags, Kept, Finishes
  <2> QED BY <1>2, <2>2 DEF JobFrom, WaitFrom
<1>3. ASSUME Handlers PROVE JobFrom /\ WaitFrom
  <2>1. UNCHANGED <<jl, tl, tweetQueue>>
    BY <1>3 DEF Handlers, EnqueueParse, SendJob, GetJob, queues
  <2> QED BY <1>1, <2>1 DEF JobFrom
<1>4. ASSUME TweetLoop PROVE JobFrom /\ WaitFrom
  <2>1. UNCHANGED <<jl, upload, jobQueue>>
    BY <1>4 DEF TweetLoop, PauseForQuota, DropTweet, StartScore, ScoreSucceeds, RecordScore, CheckDone,
       ScoreFails, MarkProcessed, QuotaExceeded, WakeUp, Requeue, TweetLoopStops, queues
  <2> QED BY <1>2, <2>1
<1>5. ASSUME Ticker \/ Main \/ NewDay \/ UNCHANGED vars PROVE JobFrom /\ WaitFrom
  <2>1. UNCHANGED <<upload, jobQueue, jl>>
    BY <1>5 DEF Ticker, Main, NewDay, SaveJob, Tick, LastTick, TickDone, Signal, HttpDrained,
           HttpTimeout, WorkersDone, Exit, ShutdownTimeout, MainOnly, queues, vars
  <2> QED BY <1>2, <2>1
<1>6. ASSUME Restart PROVE JobFrom /\ WaitFrom
  BY <1>6 DEF Restart, resumePendingJobs, JobFrom, WaitFrom, Waiting, Queued, InHand, JobIdle, TweetIdle,
              JobBusy, TweetBusy
<1>7. ASSUME Within PROVE JobFrom /\ WaitFrom
  <2>1. jl.pc \in JobBusy /\ jl'.job = jl.job
    BY <1>7, WithinJob DEF DiskInv
  <2>2. jl.pc = "parse" => jl.job \notin BadArchive
    BY <1>7 DEF Within, ParseArchive, SaveTweet, TweetsSaved, FlagTweet, MarkFlagged, MarkTweet,
                QueueTweet, Filtering
  <2>3. jl.job \notin BadArchive
    BY <2>1, <2>2 DEF OnlyParsed
  <2>4. CASE QueueTweet
    <3>1. /\ jl.pc = "send" /\ UNCHANGED tl /\ tweetQueue \in Seq(Items)
          /\ tweetQueue' = Append(tweetQueue, HandItem) /\ HandItem.job = jl.job
      BY <2>4 DEF QueueTweet, Send, HandItem, DiskInv, TypeOK, QueuesOK
    <3>2. HandItem \in Items
      BY <3>1, AheadNext DEF DiskInv, TypeOK, JobLoopOK, AtTweet
    <3>3. Queued' = Queued \cup {HandItem}
      BY <3>1, <3>2, AppendElems DEF Queued, Elems
    <3>4. WaitFrom
      BY <3>1, <3>3 DEF WaitFrom, Waiting, InHand
    <3> QED BY <2>1, <2>3, <3>4 DEF JobFrom
  <2>5. CASE ~QueueTweet
    <3>1. UNCHANGED <<tl, tweetQueue>>
      BY <1>7, <2>5 DEF Within, ParseArchive, SaveTweet, TweetsSaved, FlagTweet, MarkFlagged, MarkTweet, queues
    <3> QED BY <1>1, <2>1, <2>3, <3>1 DEF JobFrom
  <2> QED BY <2>4, <2>5
<1>8. ASSUME JobLoop, ~Within PROVE JobFrom /\ WaitFrom
  <2>1. UNCHANGED <<tl, tweetQueue>>
    BY <1>8 DEF JobLoop, Within, JobNotFound, StartJob, ParseFails, EndJob, JobLoopStops, queues
  <2>2. ASSUME StartJob PROVE JobFrom
    <3>1. Head(jobQueue) \in Job
      BY <2>2, HeadTail DEF StartJob, DiskInv, TypeOK, QueuesOK
    <3> QED BY <2>2, <3>1 DEF StartJob, JobFrom
  <2>3. ASSUME \E ok \in BOOLEAN : JobNotFound(ok) PROVE JobFrom
    BY <2>3 DEF JobNotFound, JobFrom
  <2>4. ASSUME ParseFails \/ EndJob \/ JobLoopStops PROVE JobFrom
    BY <2>4 DEF ParseFails, AfterFailure, EndJob, JobLoopStops, JobIdle, JobBusy, JobFrom
  <2>5. JobFrom
    BY <1>8, <2>2, <2>3, <2>4 DEF JobLoop, Within
  <2> QED BY <1>1, <2>1, <2>5
<1> QED BY <1>3, <1>4, <1>5, <1>6, <1>7, <1>8 DEF Next

\* Who is worked on has a row and an archive.
LEMMA KeepsPresent ==
    ASSUME Step, [Next]_vars
    PROVE  RowsPresent' /\ OnlyParsed'
<1> USE DEF Step, RowsInv
<1>1. JobFrom /\ WaitFrom
  BY StepPipe
<1>2. ASSUME NEW k \in Job, jobRow[k].status # "absent" PROVE jobRow'[k].status # "absent"
  <2>1. RowKept(k)
    BY StepRows
  <2>2. Fresh.status # "absent"
    BY DEF Fresh, Absent
  <2> QED BY <1>2, <2>1, <2>2 DEF RowKept, RowsGood
<1>3. jl.pc \in JobBusy => jl.job \in Job
  BY DEF DiskInv, TypeOK, JobLoopOK
<1>4. \A i \in Waiting : i.job \in Job
  BY Apart DEF LifeInv
<1>5. jl'.pc \in JobBusy => jl'.job \in Job /\ jobRow[jl'.job].status # "absent"
  BY <1>1, <1>3 DEF JobFrom, RowsPresent
<1>6. \A i \in Waiting' : i.job \in Job /\ jobRow[i.job].status # "absent"
  BY <1>1, <1>3, <1>4 DEF WaitFrom, RowsPresent, JobBusy
<1>7. RowsPresent'
  BY <1>2, <1>5, <1>6 DEF RowsPresent
<1>8. jl'.pc \in JobBusy \ {"parse"} => jl'.job \notin BadArchive
  BY <1>1 DEF JobFrom, OnlyParsed
<1>9. \A i \in Waiting' : i.job \notin BadArchive
  BY <1>1 DEF WaitFrom, OnlyParsed, JobBusy
<1> QED BY <1>7, <1>8, <1>9 DEF OnlyParsed

\* A pending update that is new says "failed", or is of a job that can still
\* be worked on.
LEMMA PendingFailed ==
    ASSUME FailureLast, NEW j, NEW r,
           \A k \in Job : \A ref \in PendingTo(k)' :
              ref \in PendingTo(k) \/ ref.at # "held" \/ (k = j /\ ref = Held(r)),
           j \notin BadArchive \/ r.status = "failed"
    PROVE  FailureLast'
BY InputAssumption DEF FailureLast, Held

\* No final value is new among the pending updates.
LEMMA PendingSame ==
    ASSUME FailureLast,
           \A k \in Job : \A ref \in PendingTo(k)' : ref \in PendingTo(k) \/ ref.at # "held"
    PROVE  FailureLast'
BY InputAssumption DEF FailureLast

\* An updateJob with a live object leaves no new final value pending.
LEMMA PendingUpdate ==
    ASSUME RefsOK, FailureLast, NEW j \in Job, NEW w \in Loop,
           updateJob(j, Live(w)) \/ UNCHANGED <<jobUpdateQueue, jobsToUpdate>>
    PROVE  FailureLast'
<1>1. CASE updateJob(j, Live(w))
  <2>1. /\ jobUpdateQueue' = [jobUpdateQueue EXCEPT ![j] = Live(w)]
        /\ UNCHANGED jobsToUpdate
    BY <1>1 DEF updateJob
  <2>2. \A k \in Job : \A ref \in PendingTo(k)' : ref \in PendingTo(k) \/ ref.at # "held"
    BY <2>1 DEF PendingTo, RefsOK, Live, Loop
  <2> QED BY <2>2, PendingSame
<1>2. CASE UNCHANGED <<jobUpdateQueue, jobsToUpdate>>
  <2>1. \A k \in Job : PendingTo(k)' = PendingTo(k)
    BY <1>2 DEF PendingTo
  <2> QED BY <2>1, PendingSame
<1> QED BY <1>1, <1>2

\* A loop that drops its object leaves its final value.
LEMMA PendingReturn ==
    ASSUME RefsOK, RefsOwned, FailureLast, NEW j \in Job, NEW w \in Loop, NEW r,
           Return(w, r) \/ UpdateAndReturn(w, j, r),
           \A k \in Job : Has(w, k) => k = j,
           j \notin BadArchive \/ r.status = "failed"
    PROVE  FailureLast'
<1>1. \A k \in Job :
         \/ jobUpdateQueue'[k] = Released(jobUpdateQueue, w, r)[k]
         \/ k = j /\ jobUpdateQueue'[k] = Held(r)
  <2>1. CASE Return(w, r)
    BY <2>1 DEF Return
  <2>2. CASE UpdateAndReturn(w, j, r)
    BY <2>2 DEF UpdateAndReturn, Released
  <2> QED BY <2>1, <2>2
<1>2. \A f \in Flusher, k \in Job : jobsToUpdate'[f][k] = Released(jobsToUpdate[f], w, r)[k]
  BY DEF Return, UpdateAndReturn
<1>3. /\ jobUpdateQueue \in [Job -> Ref]
      /\ \A f \in Flusher : jobsToUpdate[f] \in [Job -> Ref]
  BY DEF RefsOK
<1>4. ASSUME NEW rs \in [Job -> Ref], NEW k \in Job, rs[k] \in RefsTo(k)
      PROVE  \/ Released(rs, w, r)[k] = rs[k]
             \/ Released(rs, w, r)[k] = Held(r) /\ k = j
  BY <1>4, ReleasedFacts DEF RefsOwned, Owned
<1>5. ASSUME NEW k \in Job, NEW ref \in PendingTo(k)'
      PROVE  ref \in PendingTo(k) \/ (k = j /\ ref = Held(r))
  <2>1. \/ ref = jobUpdateQueue'[k] \/ \E f \in Flusher : ref = jobsToUpdate'[f][k]
    BY <1>5 DEF PendingTo
  <2>2. CASE ref = jobUpdateQueue'[k]
    BY <1>1, <1>3, <1>4, <2>2, InRefs DEF PendingTo
  <2>3. CASE \E f \in Flusher : ref = jobsToUpdate'[f][k]
    BY <1>2, <1>3, <1>4, <2>3, InRefs DEF PendingTo
  <2> QED BY <2>1, <2>2, <2>3
<1> QED BY <1>5, PendingFailed

\* A broken archive's last word is "failed".
LEMMA KeepsFailureLast ==
    ASSUME Step, [Next]_vars
    PROVE  FailureLast'
<1> USE DEF Step, RowsInv
<1>0. RefsOK /\ "job" \in Loop /\ "tweet" \in Loop
  BY DEF DiskInv, TypeOK, Loop
<1>1. ASSUME UNCHANGED <<jobUpdateQueue, jobsToUpdate>> PROVE FailureLast'
  <2>1. \A k \in Job : PendingTo(k)' = PendingTo(k)
    BY <1>1 DEF PendingTo
  <2> QED BY <2>1, PendingSame
<1>2. ASSUME Handlers PROVE FailureLast'
  BY <1>1, <1>2 DEF Handlers, EnqueueParse, SendJob, GetJob, refs
<1>3. ASSUME JobLoop PROVE FailureLast'
  <2>1. ASSUME StartJob PROVE FailureLast'
    <3>1. Head(jobQueue) \in Job /\ updateJob(Head(jobQueue), Live("job"))
      BY <2>1, HeadTail DEF StartJob, DiskInv, TypeOK, QueuesOK
    <3> QED BY <1>0, <3>1, PendingUpdate
  <2>2. ASSUME Within PROVE FailureLast'
    <3>1. jl.job \in Job
      BY <2>2, WithinJob DEF DiskInv, TypeOK, JobLoopOK
    <3>2. updateJob(jl.job, Live("job")) \/ UNCHANGED <<jobUpdateQueue, jobsToUpdate>>
      BY <2>2 DEF Within, ParseArchive, SaveTweet, TweetsSaved, FlagTweet, MarkFlagged, MarkTweet,
                  QueueTweet, CountTweet, refs
    <3> QED BY <1>0, <3>1, <3>2, PendingUpdate
  <2>3. ASSUME ParseFails PROVE FailureLast'
    <3>1. PICK j \in Job : j = jl.job
      BY <2>3 DEF ParseFails, JobBusy, DiskInv, TypeOK, JobLoopOK
    <3>2. PICK r : r = [obj["job"] EXCEPT !.status = "failed"]
      OBVIOUS
    <3>3. UpdateAndReturn("job", j, r)
      BY <2>3, <3>1, <3>2 DEF ParseFails
    <3>4. r.status = "failed"
      BY <1>0, <3>2 DEF RefsOK, Row
    <3>5. \A k \in Job : Has("job", k) => k = j
      BY <3>1 DEF Has
    <3> QED BY <1>0, <3>3, <3>4, <3>5, PendingReturn
  <2>4. ASSUME EndJob PROVE FailureLast'
    <3>1. PICK j \in Job : j = jl.job
      BY <2>4 DEF EndJob, JobBusy, DiskInv, TypeOK, JobLoopOK
    <3>2. PICK r : r = obj["job"]
      OBVIOUS
    <3>3. UpdateAndReturn("job", j, r)
      BY <2>4, <3>1, <3>2 DEF EndJob
    <3>4. j \notin BadArchive
      BY <2>4, <3>1 DEF EndJob, OnlyParsed, JobBusy
    <3>5. \A k \in Job : Has("job", k) => k = j
      BY <3>1 DEF Has
    <3> QED BY <1>0, <3>3, <3>4, <3>5, PendingReturn
  <2>5. ASSUME JobLoopStops \/ \E ok \in BOOLEAN : JobNotFound(ok) PROVE FailureLast'
    BY <1>1, <2>5 DEF JobLoopStops, JobNotFound, refs
  <2> QED BY <1>3, <2>1, <2>2, <2>3, <2>4, <2>5 DEF JobLoop, Within
<1>4. ASSUME TweetLoop PROVE FailureLast'
  <2>1. ASSUME PauseForQuota PROVE FailureLast'
    <3>1. /\ Head(tweetQueue) \in Items /\ Head(tweetQueue) \in Waiting
      BY <2>1, HeadTail DEF PauseForQuota, DiskInv, TypeOK, QueuesOK, Waiting, Queued
    <3>2. Head(tweetQueue).job \in Job /\ Head(tweetQueue).job \notin BadArchive
      BY <3>1, ItemTypes DEF OnlyParsed
    <3>3. PICK j \in Job : j = Head(tweetQueue).job
      BY <3>2
    <3>4. PICK r : r = [jobRow[j] EXCEPT !.status = "paused_quota"]
      OBVIOUS
    <3>5. updateJob(j, Held(r))
      BY <2>1, <3>3, <3>4 DEF PauseForQuota
    <3>6. \A k \in Job : \A ref \in PendingTo(k)' : ref \in PendingTo(k) \/ (k = j /\ ref = Held(r))
      BY <1>0, <3>5 DEF updateJob, PendingTo, RefsOK
    <3> QED BY <3>2, <3>3, <3>6, PendingFailed
  <2>2. ASSUME CheckDone \/ QuotaExceeded \/ WakeUp \/ \E ok \in BOOLEAN : RecordScore(ok)
        PROVE  FailureLast'
    <3>1. tl.pc \in TweetBusy
      BY <2>2 DEF CheckDone, QuotaExceeded, WakeUp, RecordScore, TweetBusy
    <3>2. tl.item.job \in Job
      BY <3>1, TweetObject
    <3>3. updateJob(tl.item.job, Live("tweet")) \/ UNCHANGED <<jobUpdateQueue, jobsToUpdate>>
      BY <2>2 DEF CheckDone, QuotaExceeded, WakeUp, RecordScore, refs
    <3> QED BY <1>0, <3>2, <3>3, PendingUpdate
  <2>3. ASSUME Requeue \/ \E ok \in BOOLEAN : MarkProcessed(ok) PROVE FailureLast'
    <3>1. tl.pc \in TweetBusy /\ Return("tweet", obj["tweet"])
      BY <2>3 DEF Requeue, MarkProcessed, TweetBusy
    <3>2. PICK j \in Job : j = tl.item.job
      BY <3>1, TweetObject
    <3>3. PICK r : r = obj["tweet"]
      OBVIOUS
    <3>4. j \notin BadArchive /\ \A k \in Job : Has("tweet", k) => k = j
      BY <3>1, <3>2, TweetObject DEF Has
    <3> QED BY <1>0, <3>1, <3>3, <3>4, PendingReturn
  <2>4. ASSUME \/ ScoreFails \/ TweetLoopStops
               \/ \E ok \in BOOLEAN : DropTweet(ok) \/ StartScore(ok)
                                      \/ \E hit \in BOOLEAN : ScoreSucceeds(hit, ok)
        PROVE  FailureLast'
    BY <1>1, <2>4 DEF ScoreFails, TweetLoopStops, DropTweet, StartScore, ScoreSucceeds, refs
  <2> QED BY <1>4, <2>1, <2>2, <2>3, <2>4 DEF TweetLoop
<1>5. ASSUME NEW f \in Flusher, TakeUpdates(f) PROVE FailureLast'
  <2>1. \A k \in Job : \A ref \in PendingTo(k)' : ref \in PendingTo(k) \/ ref = Nil
    BY <1>0, <1>5 DEF TakeUpdates, PendingTo, RefsOK, Empty
  <2> QED BY <2>1, PendingSame DEF Nil
<1>6. ASSUME NEW f \in Flusher, NEW j \in Job, NEW ok \in BOOLEAN, SaveJob(f, j, ok) PROVE FailureLast'
  <2>1. jobsToUpdate' = [jobsToUpdate EXCEPT ![f][j] = Nil] /\ UNCHANGED jobUpdateQueue
    BY <1>6 DEF SaveJob, Written
  <2>2. \A g \in Flusher, k \in Job : jobsToUpdate'[g][k] \in {jobsToUpdate[g][k], Nil}
    BY <1>0, <2>1 DEF RefsOK
  <2>3. \A k \in Job : \A ref \in PendingTo(k)' : ref \in PendingTo(k) \/ ref = Nil
    BY <2>1, <2>2 DEF PendingTo
  <2> QED BY <2>3, PendingSame DEF Nil
<1>7. ASSUME Ticker \/ Main \/ NewDay \/ UNCHANGED vars PROVE FailureLast'
  <2>1. ASSUME \A f \in Flusher : ~TakeUpdates(f),
               \A f \in Flusher, j \in Job, ok \in BOOLEAN : ~SaveJob(f, j, ok)
        PROVE  UNCHANGED <<jobUpdateQueue, jobsToUpdate>>
    BY <1>7, <2>1 DEF Ticker, Main, Flusher, NewDay, Tick, LastTick, TickDone, Signal, HttpDrained,
           HttpTimeout, WorkersDone, Exit, ShutdownTimeout, refs, vars
  <2> QED BY <1>1, <1>5, <1>6, <2>1
<1>8. ASSUME Restart PROVE FailureLast'
  <2>1. \A k \in Job : \A ref \in PendingTo(k)' : ref = Nil
    BY <1>8 DEF Restart, PendingTo, Empty
  <2> QED BY <2>1, PendingSame DEF Nil
<1> QED BY <1>2, <1>3, <1>4, <1>7, <1>8 DEF Next

\* A flag is written down before the object counts it.
LEMMA KeepsMarkLag ==
    ASSUME Step, [Next]_vars, jl'.pc = "mark"
    PROVE  (obj["job"].flagged < Cardinality(FlaggedRows(jl.job)) + faults)'
<1> USE DEF Step, RowsInv
<1>1. /\ faults \in Nat /\ faults' \in Nat /\ faults <= faults'
      /\ \A k \in Job : /\ Cardinality(FlaggedRows(k)) \in Nat
                        /\ Cardinality(FlaggedRows(k)') \in Nat
                        /\ Cardinality(FlaggedRows(k)) <= Cardinality(FlaggedRows(k)')
  BY FlagCounts, NextFlagCounts DEF DiskInv, TypeOK, ProcessOK, Grows, FaultsGrow, FlagsGrow
<1>2. ASSUME UNCHANGED jl, obj'["job"] = obj["job"]
      PROVE  (obj["job"].flagged < Cardinality(FlaggedRows(jl.job)) + faults)'
  <2>1. jl.pc = "mark" /\ jl.job \in Job /\ obj["job"].flagged \in Nat
    BY <1>2 DEF JobBusy, DiskInv, TypeOK, JobLoopOK, RefsOK, Row, Loop
  <2>2. obj["job"].flagged < Cardinality(FlaggedRows(jl.job)) + faults
    BY <2>1 DEF CountLags
  <2>3. PICK j \in Job : j = jl.job
    BY <2>1
  <2>4. \A a, b, c, d, e \in Nat : a < b + c /\ b <= d /\ c <= e => a < d + e
    OBVIOUS
  <2>5. obj["job"].flagged < Cardinality(FlaggedRows(j)') + faults'
    BY <1>1, <2>1, <2>2, <2>3, <2>4
  <2>6. FlaggedRows(jl.job)' = FlaggedRows(j)'
    BY <1>2, <2>3 DEF FlaggedRows
  <2> QED BY <1>2, <2>5, <2>6
<1>3. ASSUME NEW ok \in BOOLEAN, FlagTweet(ok)
      PROVE  (obj["job"].flagged < Cardinality(FlaggedRows(jl.job)) + faults)'
  <2>1. /\ jl.pc = "filter" /\ AtTweet /\ jl.job \in Job /\ Has("job", jl.job)
        /\ jl'.job = jl.job /\ UNCHANGED obj
    BY <1>3 DEF FlagTweet, Filtering, JobBusy, Has, DiskInv, TypeOK, JobLoopOK
  <2>2. GoodRow(jl.job, obj["job"]) /\ obj["job"].flagged \in Nat
    BY <2>1, JobObject DEF Row
  <2>3. obj["job"].flagged <= Cardinality(FlaggedRows(jl.job)) + faults
    BY <2>2 DEF GoodRow, Bounded
  <2>4. PICK j \in Job : j = jl.job
    BY <2>1
  <2>5. PICK x \in Items : x = HandItem /\ x.job = j /\ x \in Coming
    BY <2>1, <2>4, AheadNext, Apart DEF LifeInv, PipeInv
  <2>6. Cardinality(FlaggedRows(j)) + faults < Cardinality(FlaggedRows(j)') + faults'
    <3>1. CASE ok
      <4>1. flagged[x] = 0
        BY <2>1, <2>5, Apart DEF LifeInv, FlaggedOnce, JustFlagged, Waiting, InHand, TweetBusy
      <4>2. flagged' = [flagged EXCEPT ![x] = 1] /\ faults' = faults
        BY <1>3, <2>5, <3>1, <4>1 DEF FlagTweet, Call
      <4>3. Cardinality(FlaggedRows(j)') = Cardinality(FlaggedRows(j)) + 1
        BY <2>5, <4>1, <4>2, FlaggedOneMore DEF DiskInv
      <4> QED BY <1>1, <4>2, <4>3
    <3>2. CASE ~ok
      <4>1. faults' = faults + 1
        BY <1>3, <3>2 DEF FlagTweet, Call
      <4>2. \A a, b, c \in Nat : a <= b => a + c < b + (c + 1)
        OBVIOUS
      <4> QED BY <1>1, <4>1, <4>2
    <3> QED BY <3>1, <3>2
  <2>7. \A a, b, c, d, e \in Nat : a <= b + c /\ b + c < d + e => a < d + e
    OBVIOUS
  <2>8. obj["job"].flagged < Cardinality(FlaggedRows(j)') + faults'
    BY <1>1, <2>2, <2>3, <2>4, <2>6, <2>7
  <2>9. FlaggedRows(jl.job)' = FlaggedRows(j)'
    BY <2>1, <2>4 DEF FlaggedRows
  <2> QED BY <2>1, <2>8, <2>9
<1>4. ASSUME JobLoop, \A ok \in BOOLEAN : ~FlagTweet(ok)
      PROVE  UNCHANGED jl /\ obj'["job"] = obj["job"]
  <2>1. \A ok \in BOOLEAN : MarkTweet(ok) => jl'.pc \in {"filter", "send"}
    BY DEF MarkTweet, NextTweet, DiskInv, TypeOK, JobLoopOK
  <2>2. ~ParseArchive /\ \A ok \in BOOLEAN : ~SaveTweet(ok)
    BY DEF ParseArchive, SaveTweet, DiskInv, TypeOK, JobLoopOK
  <2>3. ~StartJob /\ ~ParseFails /\ ~TweetsSaved /\ ~EndJob /\ ~JobLoopStops
    BY DEF StartJob, ParseFails, AfterFailure, JobIdle, TweetsSaved, EndJob, JobLoopStops
  <2>4. ~NextTweet
    BY DEF NextTweet
  <2>5. ~QueueTweet /\ \A ok \in BOOLEAN : ~MarkFlagged(ok)
    BY <2>4 DEF QueueTweet, MarkFlagged
  <2>6. \A ok \in BOOLEAN : ~MarkTweet(ok)
    BY <2>1
  <2>7. \E ok \in BOOLEAN : JobNotFound(ok)
    BY <1>4, <2>2, <2>3, <2>5, <2>6 DEF JobLoop
  <2> QED BY <2>7 DEF JobNotFound
<1>5. ASSUME TweetLoop PROVE UNCHANGED jl /\ obj'["job"] = obj["job"]
  <2>1. UNCHANGED jl
    BY <1>5 DEF TweetLoop, PauseForQuota, DropTweet, StartScore, ScoreSucceeds, RecordScore,
       CheckDone, ScoreFails, MarkProcessed, QuotaExceeded, WakeUp, Requeue, TweetLoopStops
  <2>2. UNCHANGED obj \/ \E r : obj' = [obj EXCEPT !["tweet"] = r]
    BY <1>5 DEF TweetLoop, PauseForQuota, DropTweet, StartScore, ScoreSucceeds, RecordScore,
       CheckDone, ScoreFails, MarkProcessed, QuotaExceeded, WakeUp, Requeue, Return, TweetLoopStops
  <2> QED BY <2>1, <2>2 DEF DiskInv, TypeOK, RefsOK, Loop
<1>6. ASSUME Handlers \/ Ticker \/ Main \/ NewDay \/ UNCHANGED vars
      PROVE  UNCHANGED jl /\ obj'["job"] = obj["job"]
  BY <1>6 DEF Handlers, EnqueueParse, SendJob, GetJob, Ticker, Main, NewDay, SaveJob, Tick, LastTick,
       TickDone, Signal, HttpDrained, HttpTimeout, WorkersDone, Exit, ShutdownTimeout, MainOnly, vars
<1>7. ~Restart
  BY DEF Restart, JobIdle
<1> QED BY <1>2, <1>3, <1>4, <1>5, <1>6, <1>7 DEF Next

\* What is at most a sum is below it once one of its terms has grown.
LEMMA OneMore ==
    \A n, a, b, c, d \in Nat :
       n <= a + b /\ ((c = a + 1 /\ d = b) \/ (c = a /\ d = b + 1)) => n < c + d
OBVIOUS

\* A call is written down before the object counts it.
LEMMA KeepsScoreLag ==
    ASSUME Step, [Next]_vars, tl'.pc = "recording", days' = 0
    PROVE  (obj["tweet"].calls < quotaUsed + faults)'
<1> USE DEF Step, RowsInv
<1>1. /\ faults \in Nat /\ faults' \in Nat /\ faults <= faults'
      /\ quotaUsed \in Nat /\ quotaUsed' \in Nat /\ quotaUsed <= quotaUsed'
      /\ days = 0
  BY DEF DiskInv, TypeOK, TablesOK, ProcessOK, Grows, FaultsGrow, QuotaGrows
<1>2. ASSUME UNCHANGED tl, obj'["tweet"] = obj["tweet"]
      PROVE  (obj["tweet"].calls < quotaUsed + faults)'
  <2>1. tl.pc = "recording" /\ obj["tweet"].calls \in Nat
    BY <1>2 DEF DiskInv, TypeOK, RefsOK, Row, Loop
  <2>2. obj["tweet"].calls < quotaUsed + faults
    BY <1>1, <2>1 DEF CountLags
  <2>3. \A a, b, c, d, e \in Nat : a < b + c /\ b <= d /\ c <= e => a < d + e
    OBVIOUS
  <2>4. obj["tweet"].calls < quotaUsed' + faults'
    BY <1>1, <2>1, <2>2, <2>3
  <2> QED BY <1>2, <2>4
<1>3. ASSUME NEW hit \in BOOLEAN, NEW ok \in BOOLEAN, ScoreSucceeds(hit, ok)
      PROVE  (obj["tweet"].calls < quotaUsed + faults)'
  <2>1. tl.pc \in TweetBusy /\ UNCHANGED obj
    BY <1>3 DEF ScoreSucceeds, TweetBusy
  <2>2. obj["tweet"].calls \in Nat /\ obj["tweet"].calls <= quotaUsed + faults
    BY <1>1, <2>1, TweetObject DEF GoodRow, Bounded, Row
  <2>3. \/ quotaUsed' = quotaUsed + 1 /\ faults' = faults
        \/ quotaUsed' = quotaUsed /\ faults' = faults + 1
    BY <1>3 DEF ScoreSucceeds, Call
  <2>4. obj["tweet"].calls < quotaUsed' + faults'
    BY <1>1, <2>2, <2>3, OneMore
  <2> QED BY <2>1, <2>4
<1>4. ASSUME TweetLoop, \A hit \in BOOLEAN, ok \in BOOLEAN : ~ScoreSucceeds(hit, ok)
      PROVE  FALSE
  <2>1. DOMAIN tl = {"pc", "item", "hit"}
    BY DEF DiskInv, TypeOK, TweetLoopOK
  <2>2. ASSUME PauseForQuota \/ \E ok \in BOOLEAN : DropTweet(ok) PROVE FALSE
    BY <2>2 DEF PauseForQuota, DropTweet
  <2>3. ~CheckDone /\ ~ScoreFails /\ ~QuotaExceeded /\ ~WakeUp
    BY <2>1 DEF CheckDone, ScoreFails, MarkAnyway, QuotaExceeded, WakeUp
  <2>4. ~Requeue /\ ~TweetLoopStops
    BY DEF Requeue, TweetLoopStops, TweetIdle
  <2>5. \A ok \in BOOLEAN : ~StartScore(ok)
    BY DEF StartScore
  <2>6. \A ok \in BOOLEAN : ~RecordScore(ok)
    BY DEF RecordScore
  <2>7. \A ok \in BOOLEAN : ~MarkProcessed(ok)
    BY DEF MarkProcessed, TweetIdle
  <2> QED BY <1>4, <2>2, <2>3, <2>4, <2>5, <2>6, <2>7 DEF TweetLoop
<1>5. ASSUME JobLoop PROVE UNCHANGED tl /\ obj'["tweet"] = obj["tweet"]
  <2>1. UNCHANGED tl
    BY <1>5 DEF JobLoop, StartJob, ParseFails, ParseArchive, SaveTweet, TweetsSaved, FlagTweet,
       MarkFlagged, MarkTweet, QueueTweet, EndJob, JobLoopStops, JobNotFound
  <2>2. UNCHANGED obj \/ \E r : obj' = [obj EXCEPT !["job"] = r]
    BY <1>5 DEF JobLoop, StartJob, ParseFails, UpdateAndReturn, ParseArchive, SaveTweet, TweetsSaved,
       FlagTweet, MarkFlagged, CountTweet, MarkTweet, QueueTweet, EndJob, JobLoopStops, JobNotFound
  <2> QED BY <2>1, <2>2 DEF DiskInv, TypeOK, RefsOK, Loop
<1>6. ASSUME Handlers \/ Ticker \/ Main \/ NewDay \/ UNCHANGED vars
      PROVE  UNCHANGED tl /\ obj'["tweet"] = obj["tweet"]
  BY <1>6 DEF Handlers, EnqueueParse, SendJob, GetJob, Ticker, Main, NewDay, SaveJob, Tick, LastTick,
       TickDone, Signal, HttpDrained, HttpTimeout, WorkersDone, Exit, ShutdownTimeout, MainOnly, vars
<1>7. ~Restart
  BY DEF Restart, TweetIdle
<1> QED BY <1>2, <1>3, <1>4, <1>5, <1>6, <1>7 DEF Next

-----------------------------------------------------------------------------
(* The invariant of the specification *)

\* Every step keeps the invariant.
LEMMA StepRowsInv ==
    ASSUME DiskInv, RowsInv, [Next]_vars
    PROVE  RowsInv'
<1>1. LifeInv' /\ TypeOK'
  BY StepLife, StepDisk DEF RowsInv, DiskInv
<1>2. Step
  BY <1>1, StepGrows DEF Step, RowsInv
<1>3. RefsOwned' /\ RowsGood'
  BY <1>2, StepMove, StepRows, KeepsRowsGood
<1>4. RowsPresent' /\ OnlyParsed' /\ FailureLast'
  BY <1>2, KeepsPresent, KeepsFailureLast
<1>5. CountLags'
  BY <1>2, KeepsMarkLag, KeepsScoreLag DEF CountLags
<1> QED BY <1>1, <1>3, <1>4, <1>5 DEF RowsInv

\* Nothing is claimed before the first job.
LEMMA InitRows ==
    ASSUME Init
    PROVE  RowsInv
<1>1. LifeInv
  BY InitLife
<1>2. \A j \in Job : \A ref \in RefsTo(j) : ref = Nil
  BY DEF Init, MemoryInit, Empty, RefsTo, PendingTo
<1>3. \A w \in Loop, j \in Job : ~Has(w, j)
  BY DEF Init, MemoryInit, Has, JobIdle, TweetIdle, JobBusy, TweetBusy
<1>4. \A j \in Job : Copies(j) = {}
  BY <1>2, <1>3 DEF Copies, Nil
<1>5. RefsOwned
  BY <1>2 DEF RefsOwned, Owned, Nil, Loop
<1>6. ASSUME NEW j \in Job PROVE GoodRow(j, jobRow[j])
  <2>1. jobRow[j].flagged = 0 /\ jobRow[j].calls = 0 /\ jobRow[j].status = "absent"
    BY DEF Init, Absent
  <2>2. Cardinality(FlaggedRows(j)) \in Nat /\ faults = 0 /\ quotaUsed = 0
    BY FlagCounts DEF Init
  <2> QED BY <2>1, <2>2 DEF GoodRow, Bounded
<1>7. RowsGood
  BY <1>4, <1>6 DEF RowsGood
<1>8. Waiting = {} /\ jl.pc \notin JobBusy /\ jl.pc # "mark" /\ tl.pc # "recording"
  BY DEF Init, MemoryInit, Waiting, Queued, InHand, resumePendingJobs, JobIdle, TweetIdle, JobBusy,
         TweetBusy
<1>9. RowsPresent /\ OnlyParsed /\ CountLags
  BY <1>8 DEF RowsPresent, OnlyParsed, CountLags
<1>10. FailureLast
  BY <1>2, InputAssumption DEF FailureLast, RefsTo, Nil
<1> QED BY <1>1, <1>5, <1>7, <1>9, <1>10 DEF RowsInv

\* The invariant holds in every reachable state.
LEMMA RowsInvariant == Spec => [](DiskInv /\ RowsInv)
<1>1. Init => DiskInv /\ RowsInv
  BY InitRows, InitDisk
<1>2. DiskInv /\ RowsInv /\ [Next]_vars => (DiskInv /\ RowsInv)'
  BY StepRowsInv, StepDisk
<1> QED BY <1>1, <1>2, PTL DEF Spec

-----------------------------------------------------------------------------
(* What the counts may say *)

\* Neither the row of a job nor what the cache shows of it claims more flagged
\* tweets than flagged_tweets holds, or more calls than were counted on the
\* first day, but for one per failed call (updateJob, SaveJob, GetJob).
THEOREM CountsNeverClaimMore == Spec => []CountsNeverExceed
<1>1. DiskInv /\ RowsInv => CountsNeverExceed
  <2> SUFFICES ASSUME DiskInv, RowsInv, NEW j \in Job, NEW r \in {jobRow[j], Deref(jobs[j])}
               PROVE  Bounded(j, r)
    BY DEF CountsNeverExceed, Bounded
  <2>1. CASE r = jobRow[j]
    BY <2>1 DEF RowsInv, RowsGood, GoodRow
  <2>2. CASE r = Deref(jobs[j]) /\ jobs[j].at = "nil"
    <3>1. r.flagged = 0 /\ r.calls = 0
      BY <2>2, InRefs DEF Deref, Loop, RowsInv, RefsOwned, Owned, Absent
    <3>2. faults \in Nat /\ quotaUsed \in Nat /\ Cardinality(FlaggedRows(j)) \in Nat
      BY FlagCounts DEF DiskInv, TypeOK, TablesOK, ProcessOK
    <3> QED BY <3>1, <3>2 DEF Bounded
  <2>3. CASE r = Deref(jobs[j]) /\ jobs[j].at # "nil"
    BY <2>3, InRefs, DerefCopies DEF RowsInv, RowsGood, GoodRow, DiskInv, TypeOK
  <2> QED BY <2>1, <2>2, <2>3
<1> QED BY <1>1, RowsInvariant, PTL

-----------------------------------------------------------------------------
(* A failure is final *)

\* No loop works on j, and none will.
LeftAlone(j) == /\ j \in BadArchive /\ ~Unfinished(j)
                /\ \A w \in Loop : ~Has(w, j)
                /\ \A i \in Waiting : i.job # j

\* Whatever says of a job that it failed, its row or a value in memory, says
\* so when nothing works on it any more.
LEMMA FailedLeftAlone ==
    ASSUME DiskInv, RowsInv, NEW j \in Job,
           \/ jobRow[j].status = "failed"
           \/ \E r \in Copies(j) : r.status = "failed"
    PROVE  LeftAlone(j)
<1>1. ~Unfinished(j)
  BY DEF RowsInv, RowsGood, GoodRow
<1>2. j \in BadArchive /\ ~Has("job", j)
  BY <1>1 DEF Unfinished
<1>3. \A i \in Waiting : i.job # j
  BY <1>2 DEF RowsInv, OnlyParsed
<1>4. ~Has("tweet", j)
  BY <1>3 DEF Has, Waiting, InHand
<1> QED BY <1>1, <1>2, <1>3, <1>4 DEF LeftAlone, Loop

\* The table: SaveJob writes the newest update of the job.
LEMMA FailedRowStays ==
    ASSUME DiskInv, RowsInv, [Next]_vars, NEW j \in Job, jobRow[j].status = "failed"
    PROVE  jobRow'[j].status = "failed"
<1> USE DEF RowsInv
<1>0. LeftAlone(j) /\ jobRow \in [Job -> Row]
  BY FailedLeftAlone DEF DiskInv, TypeOK, TablesOK
<1>1. ASSUME NEW k \in Job, NEW ok \in BOOLEAN, EnqueueParse(k, ok)
      PROVE  jobRow'[j].status = "failed"
  <2>1. k # j
    BY <1>0, <1>1 DEF EnqueueParse, LeftAlone, Unfinished
  <2> QED BY <1>0, <1>1, <2>1 DEF EnqueueParse, SavedRow
<1>2. ASSUME NEW f \in Flusher, NEW k \in Job, NEW ok \in BOOLEAN, SaveJob(f, k, ok)
      PROVE  jobRow'[j].status = "failed"
  <2>1. jobRow' = jobRow \/ jobRow' = [jobRow EXCEPT ![k] = Deref(jobsToUpdate[f][k])]
    BY <1>2 DEF SaveJob, SavedRow
  <2>2. ASSUME k = j PROVE Deref(jobsToUpdate[f][k]).status = "failed"
    <3>1. /\ jobsToUpdate[f][j] \in PendingTo(j) /\ jobsToUpdate[f][j] \in Ref
          /\ jobsToUpdate[f][j].at # "nil"
      BY <1>2, <2>2 DEF SaveJob, PendingTo, DiskInv, TypeOK, RefsOK
    <3>2. jobsToUpdate[f][j].at \notin Loop
      BY <1>0, <3>1 DEF RefsOwned, RefsTo, Owned, LeftAlone
    <3>3. jobsToUpdate[f][j].at = "held"
      BY <3>1, <3>2 DEF Ref
    <3> QED BY <1>0, <2>2, <3>1, <3>2, <3>3 DEF FailureLast, LeftAlone, Deref
  <2> QED BY <1>0, <2>1, <2>2
<1>3. CASE UNCHANGED jobRow
  BY <1>3
<1>4. ASSUME JobLoop \/ TweetLoop \/ NewDay \/ Restart \/ UNCHANGED vars PROVE UNCHANGED jobRow
  <2>1. ASSUME JobLoop PROVE UNCHANGED jobRow
    BY <2>1 DEF JobLoop, JobNotFound, StartJob, ParseFails, ParseArchive, SaveTweet, TweetsSaved,
         FlagTweet, MarkFlagged, MarkTweet, QueueTweet, EndJob, JobLoopStops, tables
  <2>2. ASSUME TweetLoop PROVE UNCHANGED jobRow
    BY <2>2 DEF TweetLoop, PauseForQuota, DropTweet, StartScore, ScoreSucceeds, RecordScore, CheckDone,
         ScoreFails, MarkProcessed, QuotaExceeded, WakeUp, Requeue, TweetLoopStops, tables
  <2> QED BY <1>4, <2>1, <2>2 DEF NewDay, Restart, vars, tables
<1>5. ASSUME Ticker \/ Main, \A f \in Flusher, k \in Job, ok \in BOOLEAN : ~SaveJob(f, k, ok)
      PROVE  UNCHANGED jobRow
  BY <1>5 DEF Ticker, Main, Flusher, Tick, LastTick, TickDone, Signal, HttpDrained,
         HttpTimeout, WorkersDone, Exit, ShutdownTimeout, MainOnly, tables
<1>6. ASSUME Handlers, \A k \in Job, ok \in BOOLEAN : ~EnqueueParse(k, ok) PROVE UNCHANGED jobRow
  BY <1>6 DEF Handlers, SendJob, GetJob, tables
<1> QED BY <1>1, <1>2, <1>3, <1>4, <1>5, <1>6 DEF Next

\* The cache: only a restart takes a finished job out of it.
LEMMA LeftAloneCached ==
    ASSUME DiskInv, RowsInv, [Next]_vars, NEW j \in Job, LeftAlone(j), jobs[j].at = "held"
    PROVE  jobs'[j] = jobs[j] \/ jobs'[j] = Nil
<1> USE DEF RowsInv
<1> DEFINE Stays == jobs'[j] = jobs[j] \/ jobs'[j] = Nil
<1>0. RefsOK /\ jobs \in [Job -> Ref] /\ "job" \in Loop /\ "tweet" \in Loop
  BY DEF DiskInv, TypeOK, RefsOK, Loop
<1>1. ASSUME NEW k, k # j, \E ref : jobs' = [jobs EXCEPT ![k] = ref] PROVE Stays
  BY <1>0, <1>1
<1>2. ASSUME NEW w \in Loop, NEW k, NEW r, Return(w, r) \/ (k # j /\ UpdateAndReturn(w, k, r))
      PROVE  Stays
  <2>1. jobs' = Released(jobs, w, r) \/ (k # j /\ jobs' = [Released(jobs, w, r) EXCEPT ![k] = Held(r)])
    BY <1>2 DEF Return, UpdateAndReturn
  <2>2. Released(jobs, w, r)[j] = jobs[j] /\ DOMAIN Released(jobs, w, r) = Job
    BY <1>0, <1>2, ReleasedFacts DEF Loop, Released
  <2> QED BY <2>1, <2>2
<1>3. ASSUME UNCHANGED jobs PROVE Stays
  BY <1>3
<1> HIDE DEF Stays
<1>4. ASSUME Handlers PROVE Stays
  <2>1. ASSUME NEW k \in Job, NEW ok \in BOOLEAN, EnqueueParse(k, ok) PROVE Stays
    BY <1>1, <2>1 DEF EnqueueParse, LeftAlone, Unfinished
  <2>2. ASSUME NEW k \in Job, SendJob(k) PROVE Stays
    BY <1>3, <2>2 DEF SendJob, refs
  <2>3. ASSUME NEW k \in Job, GetJob(k) PROVE Stays
    BY <1>1, <2>3 DEF GetJob
  <2> QED BY <1>4, <2>1, <2>2, <2>3 DEF Handlers
<1>5. ASSUME JobLoop PROVE Stays
  <2>1. ASSUME StartJob PROVE Stays
    <3>1. Head(jobQueue) # j
      BY <2>1, TailElems DEF StartJob, LeftAlone, Unfinished, DiskInv, TypeOK, QueuesOK
    <3> QED BY <1>1, <2>1, <3>1 DEF StartJob, updateJob
  <2>2. jl.pc \in JobBusy => jl.job # j
    BY DEF LeftAlone, Has, Loop
  <2>3. ASSUME ParseFails \/ EndJob PROVE Stays
    <3>1. jl.job # j
      BY <2>2, <2>3 DEF ParseFails, EndJob, JobBusy
    <3>2. PICK r : UpdateAndReturn("job", jl.job, r)
      BY <2>3 DEF ParseFails, EndJob
    <3>3. PICK k : k = jl.job
      OBVIOUS
    <3> QED BY <1>0, <1>2, <3>1, <3>2, <3>3
  <2>4. ASSUME Within PROVE Stays
    <3>1. jl.job # j
      BY <2>2, <2>4, WithinJob DEF DiskInv
    <3>2. updateJob(jl.job, Live("job")) \/ UNCHANGED jobs
      BY <2>4 DEF Within, ParseArchive, SaveTweet, TweetsSaved, FlagTweet, MarkFlagged, MarkTweet,
                  QueueTweet, CountTweet, refs
    <3>3. PICK k : k = jl.job
      OBVIOUS
    <3> QED BY <1>1, <1>3, <3>1, <3>2, <3>3 DEF updateJob
  <2>5. ASSUME JobLoopStops \/ \E ok \in BOOLEAN : JobNotFound(ok) PROVE Stays
    BY <1>3, <2>5 DEF JobLoopStops, JobNotFound, refs
  <2> QED BY <1>5, <2>1, <2>3, <2>4, <2>5 DEF JobLoop, Within
<1>6. ASSUME TweetLoop PROVE Stays
  <2>1. ASSUME PauseForQuota PROVE Stays
    <3>1. Head(tweetQueue) \in Waiting
      BY <2>1, HeadTail DEF PauseForQuota, DiskInv, TypeOK, QueuesOK, Waiting, Queued
    <3>2. PICK k : k = Head(tweetQueue).job /\ k # j
      BY <3>1 DEF LeftAlone
    <3> QED BY <1>1, <2>1, <3>2 DEF PauseForQuota, updateJob
  <2>2. ASSUME CheckDone \/ QuotaExceeded \/ WakeUp \/ \E ok \in BOOLEAN : RecordScore(ok)
        PROVE  Stays
    <3>1. tl.pc \in TweetBusy
      BY <2>2 DEF CheckDone, QuotaExceeded, WakeUp, RecordScore, TweetBusy
    <3>2. PICK k : k = tl.item.job /\ k # j
      BY <3>1 DEF LeftAlone, Has, Loop
    <3>3. updateJob(k, Live("tweet")) \/ UNCHANGED jobs
      BY <2>2, <3>2 DEF CheckDone, QuotaExceeded, WakeUp, RecordScore, refs
    <3> QED BY <1>1, <1>3, <3>2, <3>3 DEF updateJob
  <2>3. ASSUME Requeue \/ \E ok \in BOOLEAN : MarkProcessed(ok) PROVE Stays
    <3>1. PICK r : r = obj["tweet"]
      OBVIOUS
    <3>2. Return("tweet", r)
      BY <2>3, <3>1 DEF Requeue, MarkProcessed
    <3> QED BY <1>0, <1>2, <3>2
  <2>4. ASSUME \/ ScoreFails \/ TweetLoopStops
               \/ \E ok \in BOOLEAN : DropTweet(ok) \/ StartScore(ok)
                                      \/ \E hit \in BOOLEAN : ScoreSucceeds(hit, ok)
        PROVE  Stays
    BY <1>3, <2>4 DEF ScoreFails, TweetLoopStops, DropTweet, StartScore, ScoreSucceeds, refs
  <2> QED BY <1>6, <2>1, <2>2, <2>3, <2>4 DEF TweetLoop
<1>7. ASSUME Ticker \/ Main \/ NewDay \/ UNCHANGED vars PROVE Stays
  <2>1. UNCHANGED jobs
    BY <1>7 DEF Ticker, Main, NewDay, SaveJob, Tick, LastTick, TickDone, Signal, HttpDrained,
           HttpTimeout, WorkersDone, Exit, ShutdownTimeout, TakeUpdates, refs, vars
  <2> QED BY <1>3, <2>1
<1>8. ASSUME Restart PROVE Stays
  BY <1>8 DEF Restart, Empty, Stays
<1> QED BY <1>4, <1>5, <1>6, <1>7, <1>8 DEF Next, Stays

\* A job that failed stays failed for everyone who asks, although the loops,
\* the ticker and Shutdown write its row from references, and a restart only
\* empties the cache (processJob, updateJob, flushJobUpdates, GetJob).
THEOREM FailedForGood == Spec => FailedIsFinal
<1> DEFINE Final == \A j \in Job :
         /\ jobRow[j].status = "failed" => jobRow'[j].status = "failed"
         /\ Deref(jobs[j]).status = "failed" =>
               Deref(jobs[j])'.status \in {"failed", "absent"}
<1>1. DiskInv /\ RowsInv /\ [Next]_vars => Final
  <2> SUFFICES ASSUME DiskInv, RowsInv, [Next]_vars, NEW j \in Job PROVE
         /\ jobRow[j].status = "failed" => jobRow'[j].status = "failed"
         /\ Deref(jobs[j]).status = "failed" => Deref(jobs[j])'.status \in {"failed", "absent"}
    OBVIOUS
  <2>1. jobRow[j].status = "failed" => jobRow'[j].status = "failed"
    BY FailedRowStays
  <2>2. ASSUME Deref(jobs[j]).status = "failed" PROVE Deref(jobs[j])'.status \in {"failed", "absent"}
    <3>1. jobs[j] \in RefsTo(j) /\ jobs[j] \in Ref /\ RefsOK /\ RefsOwned
      BY InRefs DEF DiskInv, TypeOK, RefsOK, RowsInv
    <3>2. jobs[j].at # "nil"
      BY <2>2, <3>1 DEF Deref, Loop, RefsOwned, Owned, Absent
    <3>3. LeftAlone(j)
      BY <2>2, <3>1, <3>2, DerefCopies, FailedLeftAlone
    <3>4. jobs[j].at = "held" /\ jobs[j].row.status = "failed"
      BY <2>2, <3>1, <3>2, <3>3 DEF RefsOwned, Owned, LeftAlone, Ref, Deref
    <3>5. jobs'[j] = jobs[j] \/ jobs'[j] = Nil
      BY <3>3, <3>4, LeftAloneCached
    <3> QED BY <3>4, <3>5 DEF Deref, Loop, Nil, Absent
  <2> QED BY <2>1, <2>2
<1>2. [Next]_vars /\ DiskInv /\ RowsInv => [Final]_vars
  BY <1>1
<1>3. Spec => [][Final]_vars
  BY <1>2, RowsInvariant, PTL DEF Spec
<1> QED BY <1>3 DEF FailedIsFinal

-----------------------------------------------------------------------------
(* No tweet is left behind *)

\* A job is out of the queue and parsed before a tweet of it is marked.
MarkedTaken ==
    \A k \in needsGemini : /\ upload[k[1]] = "over"
                           /\ k[1] \notin Elems(jobQueue)
                           /\ ~(jl.pc \in {"parse", "save"} /\ jl.job = k[1])

\* NothingStranded alone is not inductive: a broken archive whose tweets were
\* marked would strand all of them at once.
StrandInv == MarkedTaken /\ IsFiniteSet(needsGemini) /\ NothingStranded

\* A key names the job.
LEMMA KeyJob == \A i : Key(i)[1] = i.job
BY DEF Key

\* Only MarkTweetNeedsGemini marks a tweet, and only the one at hand.
LEMMA StepMarks ==
    ASSUME DiskInv, RowsInv, [Next]_vars
    PROVE  \/ UNCHANGED needsGemini
           \/ /\ \E ok \in BOOLEAN : MarkTweet(ok)
              /\ needsGemini' \subseteq needsGemini \cup {Key(HandItem)}
<1>1. ASSUME NEW ok \in BOOLEAN, MarkTweet(ok)
      PROVE  needsGemini' \subseteq needsGemini \cup {Key(HandItem)}
  BY <1>1 DEF MarkTweet, Marked
<1>2. CASE UNCHANGED tables
  BY <1>2 DEF tables
<1>3. ASSUME JobLoop, \A ok \in BOOLEAN : ~MarkTweet(ok) PROVE UNCHANGED needsGemini
  BY <1>3 DEF JobLoop, JobNotFound, StartJob, ParseFails, ParseArchive, SaveTweet, TweetsSaved,
       FlagTweet, MarkFlagged, QueueTweet, EndJob, JobLoopStops, tables
<1>4. ASSUME TweetLoop PROVE UNCHANGED needsGemini
  BY <1>4 DEF TweetLoop, PauseForQuota, DropTweet, StartScore, ScoreSucceeds, RecordScore, CheckDone,
       ScoreFails, MarkProcessed, QuotaExceeded, WakeUp, Requeue, TweetLoopStops, tables
<1>5. ASSUME Handlers \/ Ticker \/ Main \/ NewDay \/ Restart \/ UNCHANGED vars
      PROVE  UNCHANGED needsGemini
  BY <1>5 DEF Handlers, EnqueueParse, SendJob, GetJob, Ticker, Main, NewDay, SaveJob, Tick, LastTick,
       TickDone, Signal, HttpDrained, HttpTimeout, WorkersDone, Exit, ShutdownTimeout, MainOnly,
       Restart, tables, vars
<1> QED BY <1>1, <1>3, <1>4, <1>5 DEF Next

\* A marked job is never queued or parsed again.
LEMMA KeepsTaken ==
    ASSUME DiskInv, RowsInv, MarkedTaken, [Next]_vars
    PROVE  MarkedTaken'
<1> USE DEF RowsInv, LifeInv
<1>0. TypeOK /\ needsGemini \subseteq Job \X Tweet
  BY DEF DiskInv, TypeOK, TablesOK
<1> DEFINE Taken(j) == /\ upload[j] = "over" /\ j \notin Elems(jobQueue)
                       /\ ~(jl.pc \in {"parse", "save"} /\ jl.job = j)
<1>1. ASSUME NEW j \in Job, Taken(j) PROVE Taken(j)'
  <2>1. ASSUME Handlers PROVE Taken(j)'
    <3>1. ASSUME NEW k \in Job, SendJob(k) PROVE Taken(j)'
      <4>1. Elems(jobQueue') = Elems(jobQueue) \cup {k}
        BY <1>0, <3>1, AppendElems DEF SendJob, TypeOK, QueuesOK
      <4>2. upload[k] = "sending" /\ upload' = [upload EXCEPT ![k] = "over"] /\ UNCHANGED jl
        BY <3>1 DEF SendJob, Answer
      <4> QED BY <1>0, <1>1, <4>1, <4>2 DEF TypeOK, ProcessOK
    <3>2. ASSUME NEW k \in Job, NEW ok \in BOOLEAN, EnqueueParse(k, ok) PROVE Taken(j)'
      <4>1. /\ upload[k] = "none" /\ upload' = [upload EXCEPT ![k] = "sending"]
            /\ UNCHANGED <<jl, jobQueue>>
        BY <3>2 DEF EnqueueParse, queues
      <4> QED BY <1>0, <1>1, <4>1 DEF TypeOK, ProcessOK
    <3>3. ASSUME NEW k \in Job, GetJob(k) PROVE Taken(j)'
      BY <1>1, <3>3 DEF GetJob, queues
    <3> QED BY <2>1, <3>1, <3>2, <3>3 DEF Handlers
  <2>2. ASSUME JobLoop PROVE Taken(j)'
    <3>1. ASSUME StartJob \/ \E ok \in BOOLEAN : JobNotFound(ok) PROVE Taken(j)'
      <4>1. jobQueue # <<>> /\ jobQueue' = Tail(jobQueue) /\ UNCHANGED upload
        BY <3>1 DEF StartJob, JobNotFound
      <4>2. Head(jobQueue) \in Elems(jobQueue) /\ Elems(jobQueue') \subseteq Elems(jobQueue)
        BY <1>0, <4>1, TailElems DEF TypeOK, QueuesOK
      <4>3. UNCHANGED jl \/ jl'.job = Head(jobQueue)
        BY <3>1 DEF StartJob, JobNotFound
      <4> QED BY <1>1, <4>1, <4>2, <4>3
    <3>2. ASSUME Within PROVE Taken(j)'
      <4>1. UNCHANGED <<jobQueue, upload>>
        BY <3>2 DEF Within, ParseArchive, SaveTweet, TweetsSaved, FlagTweet, MarkFlagged, MarkTweet, QueueTweet, queues
      <4>2. jl'.job = jl.job /\ (jl'.pc = "save" => jl.pc \in {"parse", "save"}) /\ jl'.pc # "parse"
        <5>1. jl'.job = jl.job /\ jl'.pc # "parse"
          BY <1>0, <3>2, WithinJob
        <5>2. ASSUME jl'.pc = "save" PROVE jl.pc \in {"parse", "save"}
          <6>1. ~TweetsSaved /\ ~NextTweet
            BY <5>2 DEF TweetsSaved, NextTweet
          <6>2. ~QueueTweet /\ \A ok \in BOOLEAN : ~MarkFlagged(ok)
            BY <6>1 DEF QueueTweet, MarkFlagged
          <6>3. \A ok \in BOOLEAN : ~MarkTweet(ok) /\ ~FlagTweet(ok)
            BY <1>0, <5>2, <6>1 DEF MarkTweet, FlagTweet, TypeOK, JobLoopOK
          <6> QED BY <3>2, <6>1, <6>2, <6>3 DEF Within, ParseArchive, SaveTweet
        <5> QED BY <5>1, <5>2
      <4> QED BY <1>1, <4>1, <4>2
    <3>3. ASSUME ParseFails \/ EndJob \/ JobLoopStops PROVE Taken(j)'
      BY <1>1, <3>3 DEF ParseFails, AfterFailure, EndJob, JobLoopStops, JobIdle, queues
    <3> QED BY <2>2, <3>1, <3>2, <3>3 DEF JobLoop, Within
  <2>3. ASSUME TweetLoop PROVE UNCHANGED <<upload, jobQueue, jl>>
    BY <2>3 DEF TweetLoop, PauseForQuota, DropTweet, StartScore, ScoreSucceeds, RecordScore, CheckDone,
       ScoreFails, MarkProcessed, QuotaExceeded, WakeUp, Requeue, TweetLoopStops, queues
  <2>4. ASSUME Ticker \/ Main \/ NewDay \/ UNCHANGED vars PROVE UNCHANGED <<upload, jobQueue, jl>>
    BY <2>4 DEF Ticker, Main, NewDay, SaveJob, Tick, LastTick, TickDone, Signal, HttpDrained,
         HttpTimeout, WorkersDone, Exit, ShutdownTimeout, MainOnly, queues, vars
  <2>5. ASSUME Restart PROVE Taken(j)'
    BY <1>0, <1>1, <2>5 DEF Restart, JobIdle, Elems, TypeOK, ProcessOK
  <2> QED BY <1>1, <2>1, <2>2, <2>3, <2>4, <2>5 DEF Next
<1>2. \A k \in needsGemini : k[1] \in Job /\ Taken(k[1])
  BY <1>0 DEF MarkedTaken
<1>3. ASSUME NEW ok \in BOOLEAN, MarkTweet(ok) PROVE jl.job \in Job /\ Taken(jl.job)
  BY <1>0, <1>3, Apart DEF MarkTweet, Filtering, JobBusy, TypeOK, JobLoopOK
<1>4. ASSUME NEW k \in needsGemini' PROVE k[1] \in Job /\ Taken(k[1])
  BY <1>2, <1>3, StepMarks, KeyJob DEF HandItem
<1>5. \A k \in needsGemini' : Taken(k[1])'
  <2> SUFFICES ASSUME NEW k \in needsGemini' PROVE Taken(k[1])'
    OBVIOUS
  <2>1. PICK j \in Job : j = k[1] /\ Taken(j)
    BY <1>4
  <2> QED BY <1>1, <2>1
<1> QED BY <1>5 DEF MarkedTaken

\* What leaves the pipeline is all that can be stranded.
LEMMA StrandedFrom ==
    ASSUME NEW x,
           \A k \in (needsGemini \ processed)' :
              k \in needsGemini \ processed \/ \E i \in InFlight' : Key(i) = k
    PROVE  /\ InFlight \subseteq InFlight' => Stranded' \subseteq Stranded
           /\ InFlight \subseteq InFlight' \cup {x} => Stranded' \subseteq Stranded \cup {Key(x)}
BY DEF Stranded, Key

\* At most one more tweet is stranded, by a call that failed.
StrandedMove == \/ Stranded' \subseteq Stranded
                \/ \E k : Stranded' \subseteq Stranded \cup {k} /\ faults' = faults + 1

\* jobLoop hands on every tweet it has marked, or fails to mark it.
LEMMA JobLoopStrands ==
    ASSUME DiskInv, RowsInv, MarkedTaken, JobLoop
    PROVE  StrandedMove
<1> USE DEF RowsInv, LifeInv, PipeInv
<1> DEFINE Needy == needsGemini \ processed
<1>0. TypeOK /\ needsGemini \subseteq saved /\ DOMAIN jl = {"pc", "job", "next"}
  BY DEF TypeOK, TablesOK, JobLoopOK
<1>1. ASSUME Needy' \subseteq Needy, InFlight \subseteq InFlight' PROVE StrandedMove
  BY <1>1, StrandedFrom DEF StrandedMove
<1>2. ASSUME UNCHANGED <<tl, tweetQueue>> PROVE Queued' = Queued /\ InHand' = InHand
  BY <1>2 DEF Queued, InHand
<1>3. ASSUME UNCHANGED <<tl, tweetQueue, needsGemini, processed>>, Ahead \subseteq Ahead'
      PROVE  StrandedMove
  BY <1>1, <1>2, <1>3 DEF InFlight
<1>4. ASSUME StartJob \/ JobLoopStops \/ \E ok \in BOOLEAN : JobNotFound(ok) PROVE StrandedMove
  <2>1. Ahead = {}
    BY <1>4, AheadNone DEF StartJob, JobLoopStops, JobNotFound, JobBusy
  <2> QED BY <1>3, <1>4, <2>1 DEF StartJob, JobLoopStops, JobNotFound, tables, queues
<1>5. ASSUME ParseArchive \/ TweetsSaved \/ \E ok \in BOOLEAN : SaveTweet(ok) \/ FlagTweet(ok)
      PROVE  StrandedMove
  <2>1. /\ jl.pc \in JobBusy /\ jl'.job = jl.job
        /\ \/ /\ jl.pc \in {"parse", "save"}
              /\ jl'.pc = "save" \/ (jl'.pc = "filter" /\ jl'.next = 1)
           \/ /\ jl.pc \in {"filter", "mark", "send"} /\ jl'.pc \in {"filter", "mark", "send"}
              /\ jl'.next = jl.next
    <3>1. CASE ParseArchive
      BY <1>0, <3>1 DEF ParseArchive, JobBusy
    <3>2. CASE TweetsSaved
      BY <3>2 DEF TweetsSaved, JobBusy
    <3>3. CASE \E ok \in BOOLEAN : SaveTweet(ok)
      BY <1>0, <3>3 DEF SaveTweet, JobBusy
    <3>4. CASE \E ok \in BOOLEAN : FlagTweet(ok)
      BY <1>0, <3>4 DEF FlagTweet, Filtering, JobBusy
    <3> QED BY <1>5, <3>1, <3>2, <3>3, <3>4
  <2>2. Ahead' = Ahead
    BY <1>0, <2>1, AheadSame
  <2> QED BY <1>3, <1>5, <2>2 DEF ParseArchive, TweetsSaved, SaveTweet, FlagTweet, tables, queues
<1>6. ASSUME ParseFails PROVE StrandedMove
  <2>1. UNCHANGED <<tl, tweetQueue, needsGemini, processed>> /\ jl.pc = "parse"
    BY <1>6 DEF ParseFails, tables, queues
  <2>2. \A i \in Ahead : Key(i) \notin needsGemini
    BY <2>1, KeyJob DEF Ahead, MarkedTaken
  <2>3. Stranded' \subseteq Stranded
    BY <1>2, <2>1, <2>2 DEF Stranded, InFlight, Key
  <2> QED BY <2>3 DEF StrandedMove
<1>7. ASSUME EndJob PROVE StrandedMove
  <2>1. jl.pc = "filter" /\ ~AtTweet
    BY <1>7 DEF EndJob
  <2>2. jl.next \in Nat /\ jl.job \in Job /\ Len(Archive[jl.job]) \in Nat
    BY <2>1, ArchiveAssumption DEF JobBusy, TypeOK, JobLoopOK
  <2>3. ASSUME NEW i \in Items, i.job = jl.job PROVE ~(i.pos >= jl.next)
    <3>1. i.pos \in Nat /\ i.pos <= Len(Archive[jl.job])
      BY <2>2, <2>3, ItemPlace
    <3> QED BY <2>1, <2>2, <3>1 DEF AtTweet
  <2>4. Ahead = {}
    BY <2>1, <2>3 DEF Ahead
  <2> QED BY <1>3, <1>7, <2>4 DEF EndJob, tables, queues
<1>8. ASSUME jl.pc \in {"filter", "mark", "send"}, AtTweet, NextTweet
      PROVE  Ahead \subseteq Ahead' \cup {HandItem}
  BY <1>0, <1>8, AheadNext
<1>9. ASSUME NEW ok \in BOOLEAN, MarkFlagged(ok) PROVE StrandedMove
  <2>1. /\ jl.pc = "mark" /\ AtTweet /\ NextTweet /\ Call(ok) /\ UNCHANGED <<tl, tweetQueue, needsGemini>>
        /\ processed' = IF ok THEN Marked(processed, HandItem) ELSE processed
    BY <1>0, <1>9 DEF MarkFlagged, queues, AtTweet, TypeOK, JobLoopOK
  <2>2. PICK x : x = HandItem
    OBVIOUS
  <2>3. Needy' \subseteq Needy /\ InFlight \subseteq InFlight' \cup {x}
    BY <1>2, <1>8, <2>1, <2>2 DEF InFlight, Marked
  <2>4. Stranded' \subseteq Stranded \cup {Key(x)}
    BY <2>3, StrandedFrom
  <2>5. CASE ok
    <3>1. Key(x) \notin Needy'
      BY <1>0, <2>1, <2>2, <2>5 DEF Marked
    <3> QED BY <2>4, <3>1 DEF StrandedMove, Stranded
  <2>6. CASE ~ok
    BY <2>1, <2>4, <2>6 DEF StrandedMove, Call
  <2> QED BY <2>5, <2>6
<1>10. ASSUME NEW ok \in BOOLEAN, MarkTweet(ok) PROVE StrandedMove
  <2>1. /\ jl.pc = "filter" /\ AtTweet /\ Call(ok) /\ UNCHANGED <<tl, tweetQueue, processed>>
        /\ needsGemini' = IF ok THEN Marked(needsGemini, HandItem) ELSE needsGemini
        /\ IF ok THEN jl' = [jl EXCEPT !.pc = "send"] ELSE NextTweet
    BY <1>10 DEF MarkTweet, Filtering, queues
  <2>2. PICK x : x = HandItem
    OBVIOUS
  <2>3. CASE ok
    <3>1. jl'.pc = "send" /\ jl'.job = jl.job /\ jl'.next = jl.next
      BY <1>0, <2>1, <2>3
    <3>2. Ahead' = Ahead /\ x \in Ahead
      BY <1>0, <2>1, <2>2, <3>1, AheadSame, AheadNext DEF JobBusy
    <3>3. InFlight \subseteq InFlight' /\ x \in InFlight'
      BY <1>2, <2>1, <3>2 DEF InFlight
    <3>4. needsGemini' \subseteq needsGemini \cup {Key(x)}
      BY <2>1, <2>2, <2>3 DEF Marked
    <3>5. \A k \in (needsGemini \ processed)' :
             k \in needsGemini \ processed \/ \E i \in InFlight' : Key(i) = k
      BY <2>1, <3>3, <3>4
    <3> QED BY <3>3, <3>5, StrandedFrom DEF StrandedMove
  <2>4. CASE ~ok
    <3>1. Needy' \subseteq Needy /\ InFlight \subseteq InFlight' \cup {x}
      BY <1>2, <1>8, <2>1, <2>2, <2>4 DEF InFlight
    <3>2. Stranded' \subseteq Stranded \cup {Key(x)}
      BY <3>1, StrandedFrom
    <3> QED BY <2>1, <2>4, <3>2 DEF StrandedMove, Call
  <2> QED BY <2>3, <2>4
<1>11. ASSUME QueueTweet PROVE StrandedMove
  <2>1. /\ jl.pc = "send" /\ AtTweet /\ NextTweet /\ UNCHANGED <<tl, needsGemini, processed>>
        /\ tweetQueue' = Append(tweetQueue, HandItem)
    BY <1>0, <1>11 DEF QueueTweet, Send, tables, AtTweet, TypeOK, JobLoopOK
  <2>2. HandItem \in Items /\ tweetQueue \in Seq(Items)
    BY <1>0, <2>1, AheadNext DEF TypeOK, QueuesOK
  <2>3. Queued' = Queued \cup {HandItem}
    BY <2>1, <2>2, AppendElems DEF Queued, Elems
  <2>4. InFlight \subseteq InFlight'
    BY <1>8, <2>1, <2>3 DEF InFlight, InHand
  <2> QED BY <1>1, <2>1, <2>4
<1> QED BY <1>4, <1>5, <1>6, <1>7, <1>9, <1>10, <1>11 DEF JobLoop

\* tweetLoop marks every tweet it takes as processed, or fails to; only a
\* used-up quota makes it give one up.
LEMMA TweetLoopStrands ==
    ASSUME DiskInv, RowsInv, TweetLoop, ~PauseForQuota
    PROVE  StrandedMove
<1> USE DEF RowsInv, LifeInv, PipeInv
<1> DEFINE Needy == needsGemini \ processed
<1>0. TypeOK /\ needsGemini \subseteq saved /\ DOMAIN tl = {"pc", "item", "hit"}
  BY DEF TypeOK, TablesOK, TweetLoopOK
<1>1. UNCHANGED <<jl, needsGemini>> /\ Ahead' = Ahead
  BY DEF Ahead, TweetLoop, PauseForQuota, DropTweet, StartScore, ScoreSucceeds, RecordScore, CheckDone,
     ScoreFails, MarkProcessed, QuotaExceeded, WakeUp, Requeue, TweetLoopStops, tables
<1>2. ASSUME UNCHANGED processed, Queued \cup InHand \subseteq Queued' \cup InHand' PROVE StrandedMove
  <2>1. InFlight \subseteq InFlight' /\ Needy' \subseteq Needy
    BY <1>1, <1>2 DEF InFlight
  <2> QED BY <2>1, StrandedFrom DEF StrandedMove
<1>3. ASSUME tweetQueue # <<>>, tweetQueue' = Tail(tweetQueue)
      PROVE  /\ Head(tweetQueue) \in Waiting
             /\ Queued = Queued' \cup {Head(tweetQueue)}
  BY <1>0, <1>3, TailElems DEF TypeOK, QueuesOK, Queued, Elems, Waiting
<1>4. ASSUME NEW ok \in BOOLEAN, DropTweet(ok) PROVE StrandedMove
  <2>1. /\ tweetQueue # <<>> /\ tweetQueue' = Tail(tweetQueue) /\ UNCHANGED <<tl, processed>>
        /\ jobRow[Head(tweetQueue).job].status = "absent" \/ ~ok
        /\ Call(ok)
    BY <1>4 DEF DropTweet, tables
  <2>2. faults' = faults + 1
    BY <1>3, <2>1 DEF RowsPresent, Call
  <2>3. PICK x : x = Head(tweetQueue)
    OBVIOUS
  <2>4. InFlight \subseteq InFlight' \cup {x} /\ Needy' \subseteq Needy
    BY <1>1, <1>3, <2>1, <2>3 DEF InFlight, InHand
  <2>5. Stranded' \subseteq Stranded \cup {Key(x)}
    BY <2>4, StrandedFrom
  <2> QED BY <2>2, <2>5 DEF StrandedMove
<1>5. ASSUME NEW ok \in BOOLEAN, StartScore(ok) PROVE StrandedMove
  <2>1. /\ tweetQueue # <<>> /\ tweetQueue' = Tail(tweetQueue) /\ UNCHANGED processed
        /\ tl.pc = "idle" /\ tl'.pc = "scoring" /\ tl'.item = Head(tweetQueue)
    BY <1>5 DEF StartScore, tables
  <2>2. InHand = {} /\ InHand' = {Head(tweetQueue)}
    BY <2>1 DEF InHand, TweetBusy
  <2> QED BY <1>2, <1>3, <2>1, <2>2
<1>6. ASSUME tl.pc \in TweetBusy, tl'.pc \in TweetBusy, tl'.item = tl.item,
             UNCHANGED <<tweetQueue, processed>>
      PROVE  StrandedMove
  BY <1>2, <1>6 DEF InHand, Queued
<1>7. ASSUME \E hit \in BOOLEAN, ok \in BOOLEAN : ScoreSucceeds(hit, ok) \/ RecordScore(ok)
      PROVE  StrandedMove
  BY <1>6, <1>7 DEF ScoreSucceeds, RecordScore, TweetBusy, queues
<1>8. ASSUME CheckDone \/ ScoreFails \/ QuotaExceeded \/ WakeUp PROVE StrandedMove
  <2>1. /\ tl.pc \in TweetBusy /\ tl'.pc \in TweetBusy /\ tl'.item = tl.item
    BY <1>0, <1>8 DEF CheckDone, ScoreFails, MarkAnyway, QuotaExceeded, WakeUp, TweetBusy
  <2> QED BY <1>6, <1>8, <2>1 DEF CheckDone, ScoreFails, QuotaExceeded, WakeUp, queues, tables
<1>9. ASSUME NEW ok \in BOOLEAN, MarkProcessed(ok) PROVE StrandedMove
  <2>1. /\ tl.pc = "marking" /\ tl' = TweetIdle /\ Call(ok) /\ UNCHANGED tweetQueue
        /\ processed' = IF ok THEN Marked(processed, tl.item) ELSE processed
    BY <1>9 DEF MarkProcessed, queues
  <2>2. PICK x : x = tl.item
    OBVIOUS
  <2>3. InHand = {x} /\ Queued' = Queued
    BY <2>1, <2>2 DEF InHand, Queued, TweetBusy
  <2>4. Needy' \subseteq Needy /\ InFlight \subseteq InFlight' \cup {x}
    BY <1>1, <2>1, <2>3 DEF InFlight, Marked
  <2>5. Stranded' \subseteq Stranded \cup {Key(x)}
    BY <2>4, StrandedFrom
  <2>6. CASE ok
    <3>1. Key(x) \notin Needy'
      BY <1>0, <1>1, <2>1, <2>2, <2>6 DEF Marked
    <3> QED BY <2>5, <3>1 DEF StrandedMove, Stranded
  <2>7. CASE ~ok
    BY <2>1, <2>5, <2>7 DEF StrandedMove, Call
  <2> QED BY <2>6, <2>7
<1>10. ASSUME Requeue PROVE StrandedMove
  <2>1. /\ tl.pc \in TweetBusy /\ tweetQueue' = Append(tweetQueue, tl.item) /\ UNCHANGED processed
    BY <1>10 DEF Requeue, Send, TweetBusy, tables
  <2>2. Queued' = Queued \cup {tl.item} /\ InHand = {tl.item}
    BY <1>0, <2>1, AppendElems DEF Queued, Elems, InHand, TypeOK, QueuesOK, TweetLoopOK
  <2> QED BY <1>2, <2>1, <2>2
<1>11. ASSUME TweetLoopStops PROVE StrandedMove
  <2>1. InHand = {} /\ Queued' = Queued /\ UNCHANGED processed
    BY <1>11 DEF TweetLoopStops, InHand, Queued, TweetBusy, queues, tables
  <2> QED BY <1>2, <2>1
<1> QED BY <1>4, <1>5, <1>7, <1>8, <1>9, <1>10, <1>11 DEF TweetLoop

\* The tweet that meets a used-up quota is given up, and its job paused.
LEMMA PauseStrands ==
    ASSUME DiskInv, RowsInv, PauseForQuota
    PROVE  \E x \in Items :
              /\ Stranded' \subseteq Stranded \cup {Key(x)}
              /\ QuotaReached
              /\ Deref(jobs[x.job])'.status = "paused_quota"
<1>1. /\ tweetQueue # <<>> /\ tweetQueue' = Tail(tweetQueue) /\ QuotaReached
      /\ jobs' = [jobs EXCEPT ![Head(tweetQueue).job] =
                     Held([jobRow[Head(tweetQueue).job] EXCEPT !.status = "paused_quota"])]
      /\ UNCHANGED <<jl, tl, needsGemini, processed>>
  BY DEF PauseForQuota, updateJob, tables
<1>2. PICK x : x = Head(tweetQueue)
  OBVIOUS
<1>3. TypeOK
  BY DEF RowsInv, LifeInv, PipeInv
<1>4. x \in Items /\ x.job \in Job /\ Queued = Queued' \cup {x}
  <2>1. x \in Queued /\ Queued \subseteq Items /\ Queued = Queued' \cup {x}
    <3>1. tweetQueue \in Seq(Items)
      BY <1>3 DEF TypeOK, QueuesOK
    <3>2. x \in Elems(tweetQueue) /\ Elems(tweetQueue) = Elems(Tail(tweetQueue)) \cup {x}
      BY <1>1, <1>2, <3>1, TailElems
    <3>3. Queued \subseteq Items
      BY <3>1 DEF Queued
    <3>4. Queued = Elems(tweetQueue) /\ Queued' = Elems(Tail(tweetQueue))
      BY <1>1 DEF Queued, Elems
    <3> QED BY <3>2, <3>3, <3>4
  <2> QED BY <2>1, ItemTypes
<1>5. InFlight \subseteq InFlight' \cup {x}
  BY <1>1, <1>4 DEF InFlight, InHand, Ahead
<1>6. Stranded' \subseteq Stranded \cup {Key(x)}
  BY <1>1, <1>5, StrandedFrom
<1>7. Deref(jobs[x.job])'.status = "paused_quota"
  <2>1. jobRow[x.job] \in Row
    BY <1>3, <1>4 DEF TypeOK, TablesOK
  <2>2. jobs'[x.job] = Held([jobRow[x.job] EXCEPT !.status = "paused_quota"])
    BY <1>1, <1>2, <1>3, <1>4 DEF TypeOK, RefsOK
  <2>3. jobs'[x.job].at \notin Loop /\ jobs'[x.job].row.status = "paused_quota"
    BY <2>1, <2>2 DEF Held, Loop, Row
  <2> QED BY <2>3 DEF Deref
<1> QED BY <1>1, <1>4, <1>6, <1>7

\* Every other step but a restart leaves a tweet only if a call of it fails.
LEMMA StepLeaves ==
    ASSUME DiskInv, RowsInv, MarkedTaken, [Next]_vars, ~Restart, ~PauseForQuota
    PROVE  StrandedMove
<1>1. ASSUME Handlers \/ Ticker \/ Main \/ NewDay \/ UNCHANGED vars PROVE StrandedMove
  <2>1. UNCHANGED <<tl, tweetQueue, jl, needsGemini, processed>>
    BY <1>1 DEF Handlers, EnqueueParse, SendJob, GetJob, NewDay, Ticker, Main, SaveJob, Tick, LastTick,
         TickDone, Signal, HttpDrained, HttpTimeout, WorkersDone, Exit, ShutdownTimeout, MainOnly,
         tables, queues, vars
  <2> QED BY <2>1 DEF StrandedMove, Stranded, InFlight, Queued, InHand, Ahead
<1> QED BY <1>1, JobLoopStrands, TweetLoopStrands DEF Next

\* The days and restarts that NothingStranded leaves out only add up.
LEMMA StepStrands ==
    ASSUME DiskInv, RowsInv, MarkedTaken, [Next]_vars,
           restarts' = 0, days' = 0, alive', ~QuotaReached'
    PROVE  /\ restarts = 0 /\ days = 0 /\ alive /\ ~QuotaReached
           /\ StrandedMove
<1>1. /\ restarts \in Nat /\ days \in Nat /\ faults \in Nat /\ quotaUsed \in Nat
      /\ quotaUsed' \in Nat /\ DailyQuotaLimit \in Nat
  BY StepDisk, SizeAssumption DEF DiskInv, TypeOK, TablesOK, ProcessOK
<1>2. ~Restart /\ ~NewDay
  BY <1>1 DEF Restart, NewDay
<1>3. days = 0 /\ ~QuotaReached
  <2>1. days = 0 /\ quotaUsed <= quotaUsed'
    BY StepCounters DEF QuotaGrows, DiskInv
  <2> QED BY <1>1, <2>1 DEF QuotaReached
<1>4. ASSUME Handlers \/ UNCHANGED vars PROVE restarts = 0 /\ alive
  BY <1>4 DEF Handlers, EnqueueParse, SendJob, GetJob, process, spent, vars, alive
<1>5. ASSUME Ticker \/ Main PROVE restarts = 0 /\ alive
  BY <1>5 DEF alive, Ticker, Main, SaveJob, Tick, LastTick, TickDone, Signal, HttpDrained,
       HttpTimeout, WorkersDone, Exit, ShutdownTimeout, MainOnly, spent
<1>6. ASSUME JobLoop PROVE restarts = 0 /\ alive
  BY <1>6 DEF JobLoop, JobNotFound, StartJob, ParseFails, ParseArchive, SaveTweet, TweetsSaved,
       FlagTweet, Filtering, MarkFlagged, MarkTweet, QueueTweet, EndJob, JobLoopStops, spent
<1>7. ASSUME TweetLoop PROVE restarts = 0 /\ alive
  BY <1>7 DEF TweetLoop, PauseForQuota, DropTweet, StartScore, ScoreSucceeds, RecordScore, CheckDone,
       ScoreFails, MarkProcessed, QuotaExceeded, WakeUp, Requeue, TweetLoopStops, spent
<1>8. StrandedMove
  BY <1>2, <1>3, StepLeaves DEF PauseForQuota
<1> QED BY <1>2, <1>3, <1>4, <1>5, <1>6, <1>7, <1>8 DEF Next

\* Every step keeps the count.
LEMMA StepStrandInv ==
    ASSUME DiskInv, RowsInv, StrandInv, [Next]_vars
    PROVE  StrandInv'
<1> USE DEF StrandInv
<1>1. MarkedTaken'
  BY KeepsTaken
<1>2. IsFiniteSet(needsGemini)'
  <2>1. PICK k : needsGemini' \subseteq needsGemini \cup {k}
    BY StepMarks
  <2>2. IsFiniteSet(needsGemini \cup {k})
    BY FS_AddElement
  <2>3. PICK N : N = needsGemini'
    OBVIOUS
  <2>4. IsFiniteSet(N)
    BY <2>1, <2>2, <2>3, FS_Subset
  <2> QED BY <2>3, <2>4
<1>3. ASSUME restarts' = 0, days' = 0, alive', ~QuotaReached'
      PROVE  Cardinality(Stranded)' <= faults'
  <2>1. StrandedMove /\ Cardinality(Stranded) <= faults
    BY <1>3, StepStrands DEF NothingStranded
  <2>2. faults \in Nat /\ faults' \in Nat /\ faults <= faults'
    BY StepDisk, StepCounters DEF DiskInv, TypeOK, ProcessOK, FaultsGrow
  <2>3. IsFiniteSet(Stranded) /\ Cardinality(Stranded) \in Nat
    BY FS_Subset, FS_CardinalityType DEF Stranded
  <2>4. PICK S : S = Stranded'
    OBVIOUS
  <2>5. CASE S \subseteq Stranded
    <3>1. Cardinality(S) <= Cardinality(Stranded) /\ Cardinality(S) \in Nat
      BY <2>3, <2>5, FS_Subset, FS_CardinalityType
    <3>2. Cardinality(S) <= faults'
      BY <2>1, <2>2, <2>3, <3>1
    <3> QED BY <2>4, <3>2
  <2>6. ASSUME NEW k, S \subseteq Stranded \cup {k}, faults' = faults + 1
        PROVE  Cardinality(Stranded)' <= faults'
    <3>1. IsFiniteSet(Stranded \cup {k}) /\ Cardinality(Stranded \cup {k}) <= Cardinality(Stranded) + 1
      <4>1. /\ IsFiniteSet(Stranded \cup {k})
            /\ Cardinality(Stranded \cup {k}) \in {Cardinality(Stranded), Cardinality(Stranded) + 1}
        BY <2>3, FS_AddElement, Zenon
      <4>2. \A n \in Nat : n <= n + 1 /\ n + 1 <= n + 1
        OBVIOUS
      <4> QED BY <2>3, <4>1, <4>2
    <3>2. Cardinality(S) <= Cardinality(Stranded \cup {k}) /\ Cardinality(S) \in Nat
          /\ Cardinality(Stranded \cup {k}) \in Nat
      BY <2>6, <3>1, FS_Subset, FS_CardinalityType
    <3>3. Cardinality(S) <= faults'
      BY <2>1, <2>2, <2>3, <2>6, <3>1, <3>2
    <3> QED BY <2>4, <3>3
  <2> QED BY <2>1, <2>4, <2>5, <2>6 DEF StrandedMove
<1> QED BY <1>1, <1>2, <1>3 DEF NothingStranded

\* A tweet that needs Gemini is on its way until it is processed, and each
\* call that fails strands at most one, as long as no crash, no midnight and
\* no used-up quota intervenes: the hand-over from jobLoop through tweetQueue
\* to tweetLoop loses none.
THEOREM NoTweetLeftBehind == Spec => []NothingStranded
<1>1. Init => StrandInv
  <2> SUFFICES ASSUME Init PROVE StrandInv
    OBVIOUS
  <2>1. needsGemini = {} /\ faults = 0 /\ Stranded = {}
    BY DEF Init, Stranded
  <2> QED BY <2>1, FS_EmptySet DEF StrandInv, MarkedTaken, NothingStranded
<1>2. DiskInv /\ RowsInv /\ StrandInv /\ [Next]_vars => StrandInv'
  BY StepStrandInv
<1>3. StrandInv => NothingStranded
  BY DEF StrandInv
<1> QED BY <1>1, <1>2, <1>3, RowsInvariant, PTL DEF Spec

\* A step leaves at most one tweet behind, for a failed call or for the quota of
\* the day, and then the client sees the job paused; only a restart leaves more.
THEOREM LeftOnlyForReason == Spec => LeftForReason
<1> DEFINE Left == restarts' = restarts =>
                     \A k \in Stranded' \ Stranded :
                        /\ Stranded' \subseteq Stranded \cup {k}
                        /\ \/ faults' = faults + 1
                           \/ QuotaReached /\ Deref(jobs[k[1]])'.status = "paused_quota"
<1>1. ASSUME DiskInv, RowsInv, MarkedTaken, [Next]_vars PROVE Left
  <2> SUFFICES ASSUME restarts' = restarts,
                      NEW k \in Stranded' \ Stranded
               PROVE  /\ Stranded' \subseteq Stranded \cup {k}
                      /\ \/ faults' = faults + 1
                         \/ QuotaReached /\ Deref(jobs[k[1]])'.status = "paused_quota"
    OBVIOUS
  <2>1. ~Restart
    <3>1. restarts \in Nat
      BY <1>1 DEF DiskInv, TypeOK, ProcessOK
    <3> QED BY <3>1 DEF Restart
  <2>2. CASE PauseForQuota
    <3>1. PICK x \in Items : /\ Stranded' \subseteq Stranded \cup {Key(x)} /\ QuotaReached
                             /\ Deref(jobs[x.job])'.status = "paused_quota"
      BY <1>1, <2>2, PauseStrands
    <3>2. k = Key(x) /\ k[1] = x.job
      BY <3>1, KeyJob
    <3> QED BY <3>1, <3>2
  <2>3. CASE ~PauseForQuota
    <3>1. StrandedMove
      BY <1>1, <2>1, <2>3, StepLeaves
    <3> QED BY <3>1 DEF StrandedMove
  <2> QED BY <2>2, <2>3
<1>2. Init => MarkedTaken
  BY DEF Init, MarkedTaken
<1>3. DiskInv /\ RowsInv /\ MarkedTaken /\ [Next]_vars => MarkedTaken'
  BY KeepsTaken
<1>4. DiskInv /\ RowsInv /\ MarkedTaken /\ [Next]_vars => [Left]_vars
  BY <1>1
<1>5. Spec => [][Left]_vars
  BY <1>2, <1>3, <1>4, RowsInvariant, PTL DEF Spec
<1> QED BY <1>5 DEF LeftForReason
=============================================================================
