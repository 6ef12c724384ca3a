---------------------------- MODULE WorkerProofs ----------------------------
(***************************************************************************)
(* Theorems about Worker for every value of its constants.                 *)
(***************************************************************************)
EXTENDS Worker, TLAPS

-----------------------------------------------------------------------------
(* Helpers *)

\* The rows and references that actions write are well formed.
LEMMA RowTypes ==
    /\ Absent \in Row /\ Fresh \in Row
    /\ \A r \in Row, s \in Status : [r EXCEPT !.status = s] \in Row
    /\ \A r \in Row, n \in Nat : [r EXCEPT !.total = n] \in Row
    /\ \A r \in Row, c \in Nat, hit \in BOOLEAN : Plus(r, c, hit) \in Row
<1>1. Absent \in Row /\ Fresh \in Row
  BY DEF Absent, Fresh, Row, Status
<1>2. \A r \in Row, s \in Status : [r EXCEPT !.status = s] \in Row
  BY DEF Row
<1>3. \A r \in Row, n \in Nat : [r EXCEPT !.total = n] \in Row
  BY DEF Row
<1>4. ASSUME NEW r \in Row, NEW c \in Nat, NEW hit \in BOOLEAN PROVE Plus(r, c, hit) \in Row
  BY DEF Row, Plus
<1> QED BY <1>1, <1>2, <1>3, <1>4

\* References are well formed.
LEMMA RefTypes ==
    /\ Nil \in Ref
    /\ \A w \in Loop : Live(w) \in Ref
    /\ \A r \in Row : Held(r) \in Ref
    /\ Empty \in [Job -> Ref]
BY RowTypes DEF Nil, Live, Held, Ref, Empty

\* Dereferencing gives a row, and releasing keeps references well formed.
LEMMA DerefType ==
    ASSUME RefsOK, NEW r \in Ref
    PROVE  Deref(r) \in Row
BY DEF RefsOK, Ref, Deref, Loop

\* Releasing keeps references well formed.
LEMMA ReleasedType ==
    ASSUME NEW rs \in [Job -> Ref], NEW w, NEW r \in Row
    PROVE  Released(rs, w, r) \in [Job -> Ref]
BY RefTypes DEF Released

\* An item names a tweet of a job's archive.
LEMMA ItemTypes ==
    /\ \A i \in Items : i.job \in Job /\ i.pos \in Nat \ {0} /\ Key(i) \in Job \X Tweet
    /\ \A j \in Job, p \in Nat \ {0} :
          p <= Len(Archive[j]) => [job |-> j, pos |-> p] \in Items
<1>1. \A j \in Job : Archive[j] \in Seq(Tweet) /\ DOMAIN Archive[j] = 1 .. Len(Archive[j])
  BY ArchiveAssumption
<1>2. ASSUME NEW i \in Items
      PROVE  i.job \in Job /\ i.pos \in Nat \ {0} /\ Key(i) \in Job \X Tweet
  <2>0. PICK j \in Job : i \in {[job |-> j, pos |-> p] : p \in DOMAIN Archive[j]}
    BY DEF Items
  <2>1. PICK p \in DOMAIN Archive[j] : i = [job |-> j, pos |-> p]
    BY <2>0
  <2>2. i.job = j /\ i.pos = p /\ p \in 1 .. Len(Archive[j]) /\ Len(Archive[j]) \in Nat
    BY <1>1, <2>1
  <2>3. Archive[j][p] \in Tweet
    BY <1>1, <2>1
  <2> QED BY <2>1, <2>2, <2>3 DEF Key
<1>3. ASSUME NEW j \in Job, NEW p \in Nat \ {0}, p <= Len(Archive[j])
      PROVE  [job |-> j, pos |-> p] \in Items
  <2>1. p \in DOMAIN Archive[j]
    BY <1>1, <1>3
  <2> QED BY <2>1 DEF Items
<1> QED BY <1>2, <1>3

-----------------------------------------------------------------------------
(* updateJob and the ends of the two loops keep references well formed. *)

\* updateJob keeps the types.
LEMMA UpdateType ==
    ASSUME RefsOK, NEW j \in Job, NEW ref \in Ref, updateJob(j, ref), obj' \in [Loop -> Row]
    PROVE  RefsOK'
BY DEF RefsOK, updateJob

\* So does Return,
LEMMA ReturnType ==
    ASSUME RefsOK, NEW w, NEW r \in Row, Return(w, r)
    PROVE  RefsOK'
<1>1. jobs' \in [Job -> Ref] /\ jobUpdateQueue' \in [Job -> Ref]
  BY ReleasedType DEF RefsOK, Return
<1>2. jobsToUpdate' \in [Flusher -> [Job -> Ref]]
  BY ReleasedType DEF RefsOK, Return
<1>3. obj' \in [Loop -> Row]
  BY RowTypes DEF RefsOK, Return
<1> QED BY <1>1, <1>2, <1>3 DEF RefsOK

\* and UpdateAndReturn.
LEMMA UpdateAndReturnType ==
    ASSUME RefsOK, NEW w, NEW j \in Job, NEW r \in Row, UpdateAndReturn(w, j, r)
    PROVE  RefsOK'
<1>1. jobs' \in [Job -> Ref] /\ jobUpdateQueue' \in [Job -> Ref]
  BY ReleasedType, RefTypes DEF RefsOK, UpdateAndReturn
<1>2. jobsToUpdate' \in [Flusher -> [Job -> Ref]]
  BY ReleasedType DEF RefsOK, UpdateAndReturn
<1>3. obj' \in [Loop -> Row]
  BY RowTypes DEF RefsOK, UpdateAndReturn
<1> QED BY <1>1, <1>2, <1>3 DEF RefsOK

-----------------------------------------------------------------------------
(* Type correctness, one lemma for each goroutine *)

\* Upload and status handlers keep the types.
LEMMA HandlersType ==
    ASSUME TypeOK, Handlers
    PROVE  TypeOK'
<1>1. ASSUME NEW j \in Job, NEW ok \in BOOLEAN, EnqueueParse(j, ok) PROVE TypeOK'
  <2>1. TablesOK'
    BY <1>1, RowTypes DEF TypeOK, TablesOK, EnqueueParse, SavedRow
  <2>2. RefsOK'
    BY <1>1, RowTypes, RefTypes DEF TypeOK, RefsOK, EnqueueParse
  <2>3. QueuesOK' /\ JobLoopOK' /\ TweetLoopOK' /\ ProcessOK'
    BY <1>1 DEF TypeOK, EnqueueParse, QueuesOK, JobLoopOK, TweetLoopOK, ProcessOK, tables, refs, queues, process, spent, Call
  <2> QED BY <2>1, <2>2, <2>3 DEF TypeOK
<1>2. ASSUME NEW j \in Job, SendJob(j) PROVE TypeOK'
  <2>1. QueuesOK'
    BY <1>2 DEF TypeOK, QueuesOK, SendJob, queues
  <2>2. TablesOK' /\ RefsOK' /\ JobLoopOK' /\ TweetLoopOK' /\ ProcessOK'
    BY <1>2 DEF TypeOK, SendJob, Answer, TablesOK, RefsOK, JobLoopOK, TweetLoopOK, ProcessOK, tables, refs, queues, process, spent, Call
  <2> QED BY <2>1, <2>2 DEF TypeOK
<1>3. ASSUME NEW j \in Job, GetJob(j) PROVE TypeOK'
  <2>1. RefsOK'
    BY <1>3, RefTypes DEF TypeOK, TablesOK, RefsOK, GetJob
  <2>2. TablesOK' /\ QueuesOK' /\ JobLoopOK' /\ TweetLoopOK' /\ ProcessOK'
    BY <1>3 DEF TypeOK, GetJob, TablesOK, QueuesOK, JobLoopOK, TweetLoopOK, ProcessOK, tables, refs, queues, process, spent, Call
  <2> QED BY <2>1, <2>2 DEF TypeOK
<1> QED BY <1>1, <1>2, <1>3 DEF Handlers

\* jobLoop keeps the types.
LEMMA JobLoopType ==
    ASSUME TypeOK, JobLoop
    PROVE  TypeOK'
<1>1. ASSUME NEW ok \in BOOLEAN, JobNotFound(ok) PROVE TypeOK'
  <2>1. QueuesOK'
    BY <1>1 DEF TypeOK, QueuesOK, JobNotFound
  <2>2. TablesOK' /\ RefsOK' /\ JobLoopOK' /\ TweetLoopOK' /\ ProcessOK'
    BY <1>1 DEF TypeOK, JobNotFound, TablesOK, RefsOK, JobLoopOK, TweetLoopOK, ProcessOK, tables, refs, queues, process, spent, Call
  <2> QED BY <2>1, <2>2 DEF TypeOK
<1>2. ASSUME StartJob PROVE TypeOK'
  <2>1. Head(jobQueue) \in Job /\ Tail(jobQueue) \in Seq(Job)
    BY <1>2 DEF TypeOK, QueuesOK, StartJob
  <2>2. obj' \in [Loop -> Row]
    BY <1>2, <2>1, RowTypes DEF TypeOK, TablesOK, RefsOK, StartJob, Status
  <2>3. RefsOK'
    BY <1>2, <2>1, <2>2, RefTypes, UpdateType DEF TypeOK, StartJob, Loop
  <2>4. QueuesOK' /\ JobLoopOK'
    BY <1>2, <2>1 DEF TypeOK, QueuesOK, JobLoopOK, JobBusy, StartJob
  <2>5. TablesOK' /\ TweetLoopOK' /\ ProcessOK'
    BY <1>2 DEF TypeOK, StartJob, TablesOK, TweetLoopOK, ProcessOK, tables, process, spent
  <2> QED BY <2>3, <2>4, <2>5 DEF TypeOK
<1>3. ASSUME ParseFails PROVE TypeOK'
  <2>1. jl.job \in Job /\ [obj["job"] EXCEPT !.status = "failed"] \in Row
    BY <1>3, RowTypes DEF TypeOK, RefsOK, JobLoopOK, JobBusy, ParseFails, Loop, Status
  <2>2. RefsOK'
    BY <1>3, <2>1, UpdateAndReturnType DEF TypeOK, ParseFails
  <2>3. TablesOK' /\ QueuesOK' /\ JobLoopOK' /\ TweetLoopOK' /\ ProcessOK'
    BY <1>3 DEF TypeOK, ParseFails, AfterFailure, TablesOK, QueuesOK, JobLoopOK, JobIdle, JobBusy,
                TweetLoopOK, ProcessOK, tables, queues, process, spent
  <2> QED BY <2>2, <2>3 DEF TypeOK
<1>4. ASSUME ParseArchive PROVE TypeOK'
  <2>1. JobLoopOK'
    BY <1>4 DEF TypeOK, JobLoopOK, JobBusy, ParseArchive
  <2>2. TablesOK' /\ RefsOK' /\ QueuesOK' /\ TweetLoopOK' /\ ProcessOK'
    BY <1>4 DEF TypeOK, ParseArchive, TablesOK, RefsOK, QueuesOK, TweetLoopOK, ProcessOK, tables, refs, queues, process, spent, Call
  <2> QED BY <2>1, <2>2 DEF TypeOK
<1>5. ASSUME NEW ok \in BOOLEAN, SaveTweet(ok) PROVE TypeOK'
  <2>1. Key(HandItem) \in Job \X Tweet
    BY <1>5, ItemTypes DEF TypeOK, JobLoopOK, JobBusy, SaveTweet, AtTweet, HandItem
  <2>2. TablesOK'
    BY <1>5, <2>1 DEF TypeOK, TablesOK, SaveTweet
  <2>3. JobLoopOK'
    BY <1>5 DEF TypeOK, JobLoopOK, JobBusy, SaveTweet
  <2>4. RefsOK' /\ QueuesOK' /\ TweetLoopOK' /\ ProcessOK'
    BY <1>5 DEF TypeOK, SaveTweet, RefsOK, QueuesOK, TweetLoopOK, ProcessOK, refs, queues, process,
                spent, Call
  <2> QED BY <2>2, <2>3, <2>4 DEF TypeOK
<1>6. ASSUME TweetsSaved PROVE TypeOK'
  <2>1. jl.job \in Job /\ Len(Archive[jl.job]) \in Nat
    BY <1>6, ArchiveAssumption DEF TypeOK, JobLoopOK, JobBusy, TweetsSaved
  <2>2. obj' \in [Loop -> Row]
    BY <1>6, <2>1, RowTypes DEF TypeOK, RefsOK, TweetsSaved
  <2>3. RefsOK'
    BY <1>6, <2>1, <2>2, RefTypes, UpdateType DEF TypeOK, TweetsSaved, Loop
  <2>4. JobLoopOK'
    BY <1>6 DEF TypeOK, JobLoopOK, JobBusy, TweetsSaved
  <2>5. TablesOK' /\ QueuesOK' /\ TweetLoopOK' /\ ProcessOK'
    BY <1>6 DEF TypeOK, TweetsSaved, TablesOK, QueuesOK, TweetLoopOK, ProcessOK, tables, queues,
                process, spent
  <2> QED BY <2>3, <2>4, <2>5 DEF TypeOK
<1>7. ASSUME NEW ok \in BOOLEAN, FlagTweet(ok) PROVE TypeOK'
  <2>1. HandItem \in Items
    BY <1>7, ItemTypes DEF TypeOK, JobLoopOK, JobBusy, FlagTweet, Filtering, AtTweet, HandItem
  <2>2. TablesOK'
    BY <1>7, <2>1 DEF TypeOK, TablesOK, FlagTweet
  <2>3. JobLoopOK'
    BY <1>7 DEF TypeOK, JobLoopOK, JobBusy, FlagTweet, Filtering, AtTweet
  <2>4. RefsOK' /\ QueuesOK' /\ TweetLoopOK' /\ ProcessOK'
    BY <1>7 DEF TypeOK, FlagTweet, RefsOK, QueuesOK, TweetLoopOK, ProcessOK, refs, queues, process,
                spent, Call
  <2> QED BY <2>2, <2>3, <2>4 DEF TypeOK
<1>8. ASSUME NEW hit \in BOOLEAN, CountTweet(hit), jl.pc \in JobBusy PROVE RefsOK'
  <2>1. jl.job \in Job /\ obj' \in [Loop -> Row]
    BY <1>8, RowTypes DEF TypeOK, RefsOK, JobLoopOK, CountTweet, Loop
  <2>2. CASE updateJob(jl.job, Live("job"))
    BY <2>1, <2>2, RefTypes, UpdateType DEF TypeOK, Loop
  <2>3. CASE UNCHANGED refs
    BY <2>1, <2>3 DEF TypeOK, RefsOK, refs
  <2> QED BY <1>8, <2>2, <2>3 DEF CountTweet
<1>9. ASSUME NEW ok \in BOOLEAN, MarkFlagged(ok) PROVE TypeOK'
  <2>1. RefsOK'
    BY <1>8, <1>9 DEF MarkFlagged, JobBusy
  <2>2. TablesOK'
    BY <1>9 DEF TypeOK, TablesOK, MarkFlagged, Marked
  <2>3. JobLoopOK'
    BY <1>9 DEF TypeOK, JobLoopOK, JobBusy, MarkFlagged, NextTweet
  <2>4. QueuesOK' /\ TweetLoopOK' /\ ProcessOK'
    BY <1>9 DEF TypeOK, MarkFlagged, QueuesOK, TweetLoopOK, ProcessOK, queues, process, spent, Call
  <2> QED BY <2>1, <2>2, <2>3, <2>4 DEF TypeOK
<1>10. ASSUME NEW ok \in BOOLEAN, MarkTweet(ok) PROVE TypeOK'
  <2>1. TablesOK'
    BY <1>10 DEF TypeOK, TablesOK, MarkTweet, Marked
  <2>2. JobLoopOK'
    BY <1>10 DEF TypeOK, JobLoopOK, JobBusy, MarkTweet, NextTweet, Filtering, AtTweet
  <2>3. RefsOK' /\ QueuesOK' /\ TweetLoopOK' /\ ProcessOK'
    BY <1>10 DEF TypeOK, MarkTweet, RefsOK, QueuesOK, TweetLoopOK, ProcessOK, refs, queues, process,
                 spent, Call
  <2> QED BY <2>1, <2>2, <2>3 DEF TypeOK
<1>11. ASSUME QueueTweet PROVE TypeOK'
  <2>1. RefsOK'
    BY <1>8, <1>11 DEF QueueTweet, JobBusy
  <2>2. HandItem \in Items
    BY <1>11, ItemTypes DEF TypeOK, JobLoopOK, JobBusy, QueueTweet, HandItem
  <2>3. QueuesOK'
    BY <1>11, <2>2 DEF TypeOK, QueuesOK, QueueTweet, Send
  <2>4. JobLoopOK'
    BY <1>11 DEF TypeOK, JobLoopOK, JobBusy, QueueTweet, NextTweet
  <2>5. TablesOK' /\ TweetLoopOK' /\ ProcessOK'
    BY <1>11 DEF TypeOK, QueueTweet, TablesOK, TweetLoopOK, ProcessOK, tables, process, spent
  <2> QED BY <2>1, <2>3, <2>4, <2>5 DEF TypeOK
<1>12. ASSUME EndJob PROVE TypeOK'
  <2>1. jl.job \in Job /\ obj["job"] \in Row
    BY <1>12 DEF TypeOK, RefsOK, JobLoopOK, JobBusy, EndJob, Loop
  <2>2. RefsOK'
    BY <1>12, <2>1, UpdateAndReturnType DEF TypeOK, EndJob
  <2>3. TablesOK' /\ QueuesOK' /\ JobLoopOK' /\ TweetLoopOK' /\ ProcessOK'
    BY <1>12 DEF TypeOK, EndJob, TablesOK, QueuesOK, JobLoopOK, JobIdle, JobBusy, TweetLoopOK,
                 ProcessOK, tables, queues, process, spent
  <2> QED BY <2>2, <2>3 DEF TypeOK
<1>13. ASSUME JobLoopStops PROVE TypeOK'
  BY <1>13 DEF TypeOK, JobLoopStops, TablesOK, RefsOK, QueuesOK, JobLoopOK, JobIdle, JobBusy,
               TweetLoopOK, ProcessOK, tables, refs, queues, process, spent
<1> QED
  BY <1>1, <1>2, <1>3, <1>4, <1>5, <1>6, <1>7, <1>9, <1>10, <1>11, <1>12, <1>13 DEF JobLoop

\* tweetLoop keeps the types.
LEMMA TweetLoopType ==
    ASSUME TypeOK, TweetLoop
    PROVE  TypeOK'
<1>1. ASSUME PauseForQuota PROVE TypeOK'
  <2>1. Head(tweetQueue) \in Items /\ Tail(tweetQueue) \in Seq(Items)
    BY <1>1 DEF TypeOK, QueuesOK, PauseForQuota
  <2>2. Head(tweetQueue).job \in Job
    BY <1>1, <2>1, ItemTypes DEF PauseForQuota
  <2>3. [jobRow[Head(tweetQueue).job] EXCEPT !.status = "paused_quota"] \in Row
    BY <1>1, <2>2, RowTypes DEF TypeOK, TablesOK, Status
  <2>4. RefsOK'
    BY <1>1, <2>2, <2>3, RefTypes, UpdateType DEF TypeOK, RefsOK, PauseForQuota
  <2>5. QueuesOK'
    BY <1>1, <2>1 DEF TypeOK, QueuesOK, PauseForQuota
  <2>6. TablesOK' /\ JobLoopOK' /\ TweetLoopOK' /\ ProcessOK'
    BY <1>1 DEF TypeOK, PauseForQuota, TablesOK, JobLoopOK, TweetLoopOK, ProcessOK, tables, process, spent, Call
  <2> QED BY <2>1, <2>2, <2>3, <2>4, <2>5, <2>6 DEF TypeOK
<1>2. ASSUME NEW ok \in BOOLEAN, DropTweet(ok) PROVE TypeOK'
  <2>1. Head(tweetQueue) \in Items /\ Tail(tweetQueue) \in Seq(Items)
    BY <1>2 DEF TypeOK, QueuesOK, DropTweet
  <2>2. QueuesOK'
    BY <1>2, <2>1 DEF TypeOK, QueuesOK, DropTweet
  <2>3. TablesOK' /\ RefsOK' /\ JobLoopOK' /\ TweetLoopOK' /\ ProcessOK'
    BY <1>2 DEF TypeOK, DropTweet, TablesOK, RefsOK, JobLoopOK, TweetLoopOK, ProcessOK, tables, refs, process, spent, Call
  <2> QED BY <2>1, <2>2, <2>3 DEF TypeOK
<1>3. ASSUME NEW ok \in BOOLEAN, StartScore(ok) PROVE TypeOK'
  <2>1. Head(tweetQueue) \in Items /\ Tail(tweetQueue) \in Seq(Items)
    BY <1>3 DEF TypeOK, QueuesOK, StartScore
  <2>2. Head(tweetQueue).job \in Job
    BY <1>3, <2>1, ItemTypes DEF StartScore
  <2>3. RefsOK'
    BY <1>3, <2>2 DEF TypeOK, TablesOK, RefsOK, StartScore, refs
  <2>4. QueuesOK'
    BY <1>3, <2>1 DEF TypeOK, QueuesOK, StartScore
  <2>5. TweetLoopOK'
    BY <1>3, <2>1, <2>2, CriteriaAssumption DEF TweetLoopOK, TweetBusy, TypeOK, StartScore, SetCriteria
  <2>6. TablesOK' /\ JobLoopOK' /\ ProcessOK'
    BY <1>3 DEF TypeOK, StartScore, TablesOK, JobLoopOK, ProcessOK, tables, process, spent, Call
  <2> QED BY <2>1, <2>2, <2>3, <2>4, <2>5, <2>6 DEF TypeOK
<1>4. ASSUME NEW hit \in BOOLEAN, NEW ok \in BOOLEAN, ScoreSucceeds(hit, ok) PROVE TypeOK'
  <2>1. TablesOK'
    BY <1>4 DEF TypeOK, TablesOK, ScoreSucceeds
  <2>2. TweetLoopOK'
    BY <1>4 DEF TweetLoopOK, TweetBusy, TypeOK, ScoreSucceeds
  <2>3. RefsOK' /\ QueuesOK' /\ JobLoopOK' /\ ProcessOK'
    BY <1>4 DEF TypeOK, ScoreSucceeds, RefsOK, QueuesOK, JobLoopOK, ProcessOK, refs, queues, process, spent, Call
  <2> QED BY <2>1, <2>2, <2>3 DEF TypeOK
<1>5. ASSUME NEW ok \in BOOLEAN, RecordScore(ok) PROVE TypeOK'
  <2>1. tl.item \in Items /\ tl.item.job \in Job /\ tl.hit \in BOOLEAN
    BY <1>5, ItemTypes DEF TweetLoopOK, TweetBusy, TypeOK, RecordScore
  <2>2. obj' \in [Loop -> Row]
    BY <1>5, <2>1, RowTypes DEF TypeOK, RefsOK, Loop, Status, RecordScore
  <2>3. RefsOK'
    BY <1>5, <2>1, <2>2, RefTypes, UpdateType DEF TypeOK, Loop, RecordScore
  <2>4. TweetLoopOK'
    BY <1>5 DEF TweetLoopOK, TweetBusy, TypeOK, RecordScore
  <2>5. TablesOK'
    BY <1>5, <2>1 DEF TypeOK, TablesOK, RecordScore
  <2>6. QueuesOK' /\ JobLoopOK' /\ ProcessOK'
    BY <1>5 DEF TypeOK, RecordScore, QueuesOK, JobLoopOK, ProcessOK, queues, process, spent, Call
  <2> QED BY <2>1, <2>2, <2>3, <2>4, <2>5, <2>6 DEF TypeOK
<1>6. ASSUME CheckDone PROVE TypeOK'
  <2>1. tl.item.job \in Job
    BY <1>6, ItemTypes DEF TweetLoopOK, TweetBusy, TypeOK, CheckDone
  <2>2. ASSUME UNCHANGED <<obj, refs>> PROVE RefsOK'
    BY <2>2 DEF TypeOK, RefsOK, refs
  <2>3. ASSUME obj' = [obj EXCEPT !["tweet"] = [@ EXCEPT !.status = "done"]],
               updateJob(tl.item.job, Live("tweet"))
        PROVE  RefsOK'
    <3>1. obj' \in [Loop -> Row]
      BY <2>3, RowTypes DEF TypeOK, RefsOK, Loop, Status
    <3> QED BY <2>1, <2>3, <3>1, RefTypes, UpdateType DEF TypeOK, Loop
  <2>4. RefsOK'
    BY <1>6, <2>2, <2>3 DEF CheckDone
  <2>5. TweetLoopOK'
    BY <1>6 DEF TweetLoopOK, TweetBusy, TypeOK, CheckDone
  <2>6. TablesOK' /\ QueuesOK' /\ JobLoopOK' /\ ProcessOK'
    BY <1>6 DEF TypeOK, CheckDone, TablesOK, QueuesOK, JobLoopOK, ProcessOK, tables, queues, process,
                spent
  <2> QED BY <2>4, <2>5, <2>6 DEF TypeOK
<1>7. ASSUME ScoreFails PROVE TypeOK'
  <2>1. TweetLoopOK'
    BY <1>7 DEF TweetLoopOK, TweetBusy, TypeOK, ScoreFails, MarkAnyway
  <2>2. TablesOK' /\ RefsOK' /\ QueuesOK' /\ JobLoopOK' /\ ProcessOK'
    BY <1>7 DEF TypeOK, ScoreFails, MarkAnyway, TablesOK, RefsOK, QueuesOK, JobLoopOK, ProcessOK, tables, refs, queues, process, spent, Call
  <2> QED BY <2>1, <2>2 DEF TypeOK
<1>8. ASSUME NEW ok \in BOOLEAN, MarkProcessed(ok) PROVE TypeOK'
  <2>1. obj["tweet"] \in Row
    BY <1>8 DEF TypeOK, RefsOK, Loop
  <2>2. RefsOK'
    BY <1>8, <2>1, ReturnType DEF TypeOK, MarkProcessed
  <2>3. TablesOK'
    BY <1>8 DEF TypeOK, TablesOK, MarkProcessed, Marked
  <2>4. TweetLoopOK'
    BY <1>8 DEF TweetLoopOK, TweetBusy, TweetIdle, TypeOK, MarkProcessed
  <2>5. QueuesOK' /\ JobLoopOK' /\ ProcessOK'
    BY <1>8 DEF TypeOK, MarkProcessed, QueuesOK, JobLoopOK, ProcessOK, queues, process, spent, Call
  <2> QED BY <2>1, <2>2, <2>3, <2>4, <2>5 DEF TypeOK
<1>9. ASSUME QuotaExceeded PROVE TypeOK'
  <2>1. tl.item \in Items /\ tl.item.job \in Job /\ tl.hit \in BOOLEAN
    BY <1>9, ItemTypes DEF TweetLoopOK, TweetBusy, TypeOK, QuotaExceeded
  <2>2. obj' \in [Loop -> Row]
    BY <1>9, <2>1, RowTypes DEF TypeOK, RefsOK, Loop, Status, QuotaExceeded
  <2>3. RefsOK'
    BY <1>9, <2>1, <2>2, RefTypes, UpdateType DEF TypeOK, Loop, QuotaExceeded
  <2>4. TweetLoopOK'
    BY <1>9 DEF TweetLoopOK, TweetBusy, TypeOK, QuotaExceeded
  <2>5. TablesOK' /\ QueuesOK' /\ JobLoopOK' /\ ProcessOK'
    BY <1>9 DEF TypeOK, QuotaExceeded, TablesOK, QueuesOK, JobLoopOK, ProcessOK, tables, queues, process, spent, Call
  <2> QED BY <2>1, <2>2, <2>3, <2>4, <2>5 DEF TypeOK
<1>10. ASSUME WakeUp PROVE TypeOK'
  <2>1. tl.item \in Items /\ tl.item.job \in Job /\ tl.hit \in BOOLEAN
    BY <1>10, ItemTypes DEF TweetLoopOK, TweetBusy, TypeOK, WakeUp
  <2>2. obj' \in [Loop -> Row]
    BY <1>10, <2>1, RowTypes DEF TypeOK, RefsOK, Loop, Status, WakeUp
  <2>3. RefsOK'
    BY <1>10, <2>1, <2>2, RefTypes, UpdateType DEF TypeOK, Loop, WakeUp
  <2>4. TweetLoopOK'
    BY <1>10 DEF TweetLoopOK, TweetBusy, TypeOK, WakeUp
  <2>5. TablesOK' /\ QueuesOK' /\ JobLoopOK' /\ ProcessOK'
    BY <1>10 DEF TypeOK, WakeUp, TablesOK, QueuesOK, JobLoopOK, ProcessOK, tables, queues, process, spent, Call
  <2> QED BY <2>1, <2>2, <2>3, <2>4, <2>5 DEF TypeOK
<1>11. ASSUME Requeue PROVE TypeOK'
  <2>1. obj["tweet"] \in Row
    BY <1>11 DEF TypeOK, RefsOK, Loop
  <2>2. RefsOK'
    BY <1>11, <2>1, ReturnType DEF TypeOK, Requeue
  <2>3. QueuesOK'
    BY <1>11 DEF TypeOK, QueuesOK, Requeue, Send, TweetLoopOK, TweetBusy
  <2>4. TweetLoopOK'
    BY <1>11 DEF TweetLoopOK, TweetBusy, TweetIdle, TypeOK, Requeue
  <2>5. TablesOK' /\ JobLoopOK' /\ ProcessOK'
    BY <1>11 DEF TypeOK, Requeue, TablesOK, JobLoopOK, ProcessOK, tables, process, spent, Call
  <2> QED BY <2>1, <2>2, <2>3, <2>4, <2>5 DEF TypeOK
<1>12. ASSUME TweetLoopStops PROVE TypeOK'
  <2>1. TweetLoopOK'
    BY <1>12 DEF TweetLoopOK, TweetBusy, TweetIdle, TypeOK, TweetLoopStops
  <2>2. TablesOK' /\ RefsOK' /\ QueuesOK' /\ JobLoopOK' /\ ProcessOK'
    BY <1>12 DEF TypeOK, TweetLoopStops, TablesOK, RefsOK, QueuesOK, JobLoopOK, ProcessOK, tables, refs, queues, process, spent, Call
  <2> QED BY <2>1, <2>2 DEF TypeOK
<1> QED
  BY <1>1, <1>2, <1>3, <1>4, <1>5, <1>6, <1>7, <1>8, <1>9, <1>10, <1>11, <1>12 DEF TweetLoop

\* The flusher and main keep the types.
LEMMA ProcessType ==
    ASSUME TypeOK, Ticker \/ Main
    PROVE  TypeOK'
<1>1. ASSUME NEW f \in Flusher, NEW j \in Job, NEW ok \in BOOLEAN, SaveJob(f, j, ok) PROVE TypeOK'
  <2>1. jobsToUpdate[f] \in [Job -> Ref] /\ Deref(jobsToUpdate[f][j]) \in Row
    BY <1>1, DerefType DEF TypeOK, RefsOK
  <2>2. TablesOK'
    BY <1>1, <2>1 DEF TypeOK, TablesOK, SaveJob, SavedRow
  <2>3. RefsOK'
    BY <1>1, <2>1, RefTypes DEF TypeOK, RefsOK, SaveJob, Written
  <2>4. QueuesOK' /\ JobLoopOK' /\ TweetLoopOK' /\ ProcessOK'
    BY <1>1 DEF TypeOK, SaveJob, QueuesOK, JobLoopOK, TweetLoopOK, ProcessOK, queues, process, spent, Call
  <2> QED BY <2>1, <2>2, <2>3, <2>4 DEF TypeOK
<1>2. ASSUME NEW f \in Flusher, TakeUpdates(f), UNCHANGED obj PROVE RefsOK'
  BY <1>2, RefTypes DEF TypeOK, RefsOK, TakeUpdates
<1>3. ASSUME Tick PROVE TypeOK'
  <2>1. RefsOK'
    BY <1>3, <1>2 DEF Flusher, Tick
  <2>2. TablesOK' /\ QueuesOK' /\ JobLoopOK' /\ TweetLoopOK' /\ ProcessOK'
    BY <1>3 DEF TypeOK, Tick, TablesOK, QueuesOK, JobLoopOK, TweetLoopOK, ProcessOK, tables, queues, process, spent, Call
  <2> QED BY <2>1, <2>2 DEF TypeOK
<1>4. ASSUME LastTick PROVE TypeOK'
  <2>1. RefsOK'
    BY <1>4, <1>2 DEF Flusher, LastTick
  <2>2. TablesOK' /\ QueuesOK' /\ JobLoopOK' /\ TweetLoopOK' /\ ProcessOK'
    BY <1>4 DEF TypeOK, LastTick, TablesOK, QueuesOK, JobLoopOK, TweetLoopOK, ProcessOK, tables, queues, process, spent, Call
  <2> QED BY <2>1, <2>2 DEF TypeOK
<1>5. ASSUME TickDone PROVE TypeOK'
  <2>1. TablesOK' /\ RefsOK' /\ QueuesOK' /\ JobLoopOK' /\ TweetLoopOK' /\ ProcessOK'
    BY <1>5 DEF TypeOK, TickDone, AfterFlush, TablesOK, RefsOK, QueuesOK, JobLoopOK, TweetLoopOK, ProcessOK, tables, refs, queues, process, spent, Call
  <2> QED BY <2>1 DEF TypeOK
<1>6. ASSUME Signal PROVE TypeOK'
  <2>1. TablesOK' /\ RefsOK' /\ QueuesOK' /\ JobLoopOK' /\ TweetLoopOK' /\ ProcessOK'
    BY <1>6 DEF TypeOK, Signal, MainOnly, TablesOK, RefsOK, QueuesOK, JobLoopOK, TweetLoopOK, ProcessOK, tables, refs, queues, process, spent, Call
  <2> QED BY <2>1 DEF TypeOK
<1>7. ASSUME HttpDrained PROVE TypeOK'
  <2>1. TablesOK' /\ RefsOK' /\ QueuesOK' /\ JobLoopOK' /\ TweetLoopOK' /\ ProcessOK'
    BY <1>7 DEF TypeOK, HttpDrained, MainOnly, TablesOK, RefsOK, QueuesOK, JobLoopOK, TweetLoopOK, ProcessOK, tables, refs, queues, process, spent, Call
  <2> QED BY <2>1 DEF TypeOK
<1>8. ASSUME HttpTimeout PROVE TypeOK'
  <2>1. TablesOK' /\ RefsOK' /\ QueuesOK' /\ JobLoopOK' /\ TweetLoopOK' /\ ProcessOK'
    BY <1>8 DEF TypeOK, HttpTimeout, MainOnly, TablesOK, RefsOK, QueuesOK, JobLoopOK, TweetLoopOK, ProcessOK, tables, refs, queues, process, spent, Call
  <2> QED BY <2>1 DEF TypeOK
<1>9. ASSUME WorkersDone PROVE TypeOK'
  <2>1. RefsOK'
    BY <1>9, <1>2 DEF Flusher, WorkersDone, MainOnly
  <2>2. TablesOK' /\ QueuesOK' /\ JobLoopOK' /\ TweetLoopOK' /\ ProcessOK'
    BY <1>9 DEF TypeOK, WorkersDone, MainOnly, TablesOK, QueuesOK, JobLoopOK, TweetLoopOK, ProcessOK, tables, queues, process, spent, Call
  <2> QED BY <2>1, <2>2 DEF TypeOK
<1>10. ASSUME Exit PROVE TypeOK'
  <2>1. TablesOK' /\ RefsOK' /\ QueuesOK' /\ JobLoopOK' /\ TweetLoopOK' /\ ProcessOK'
    BY <1>10 DEF TypeOK, Exit, MainOnly, TablesOK, RefsOK, QueuesOK, JobLoopOK, TweetLoopOK, ProcessOK, tables, refs, queues, process, spent, Call
  <2> QED BY <2>1 DEF TypeOK
<1>11. ASSUME ShutdownTimeout PROVE TypeOK'
  <2>1. TablesOK' /\ RefsOK' /\ QueuesOK' /\ JobLoopOK' /\ TweetLoopOK' /\ ProcessOK'
    BY <1>11 DEF TypeOK, ShutdownTimeout, MainOnly, TablesOK, RefsOK, QueuesOK, JobLoopOK, TweetLoopOK, ProcessOK, tables, refs, queues, process, spent, Call
  <2> QED BY <2>1 DEF TypeOK
<1> QED
  BY <1>1, <1>3, <1>4, <1>5, <1>6, <1>7, <1>8, <1>9, <1>10, <1>11 DEF Ticker, Main, Flusher

\* A midnight and a restart keep the types.
LEMMA EnvironmentType ==
    ASSUME TypeOK, NewDay \/ Restart
    PROVE  TypeOK'
<1>1. ASSUME NewDay PROVE TypeOK'
  BY <1>1 DEF TypeOK, NewDay, TablesOK, RefsOK, QueuesOK, JobLoopOK, TweetLoopOK, ProcessOK, refs,
              queues, process
<1>2. ASSUME Restart PROVE TypeOK'
  <2>1. RefsOK'
    BY <1>2, RowTypes, RefTypes DEF Restart, RefsOK
  <2>2. QueuesOK' /\ JobLoopOK' /\ TweetLoopOK'
    BY <1>2, CriteriaAssumption DEF Restart, QueuesOK, resumePendingJobs, JobLoopOK, JobIdle, JobBusy,
                                   TweetLoopOK, TweetIdle, TweetBusy
  <2>3. TablesOK'
    BY <1>2 DEF TypeOK, Restart, TablesOK, tables
  <2>4. upload' \in [Job -> {"none", "sending", "over"}]
    BY <1>2 DEF TypeOK, Restart, ProcessOK
  <2>5. ProcessOK'
    <3>1. faults' = faults /\ days' = days /\ restarts' = restarts + 1
      BY <1>2 DEF Restart, tables
    <3>2. ticker' = "waiting" /\ main' = "serving" /\ httpForced' = FALSE
      BY <1>2 DEF Restart
    <3>3. faults \in Nat /\ days \in Nat /\ restarts \in Nat
      BY DEF TypeOK, ProcessOK
    <3>4. faults' \in Nat /\ days' \in Nat /\ restarts' \in Nat
      BY <3>1, <3>3
    <3>5. httpForced' \in BOOLEAN
      BY <3>2
    <3> QED BY <2>4, <3>2, <3>4, <3>5 DEF ProcessOK
  <2> QED BY <2>1, <2>2, <2>3, <2>5 DEF TypeOK
<1> QED BY <1>1, <1>2

\* The first state has the types.
LEMMA InitType == Init => TypeOK
<1> SUFFICES ASSUME Init PROVE TypeOK
  OBVIOUS
<1>1. TablesOK
  BY RowTypes DEF Init, TablesOK
<1>2. RefsOK
  BY RowTypes, RefTypes DEF Init, MemoryInit, RefsOK
<1>3. QueuesOK /\ JobLoopOK
  BY DEF Init, MemoryInit, QueuesOK, resumePendingJobs, JobLoopOK, JobIdle, JobBusy
<1>4. TweetLoopOK
  BY CriteriaAssumption DEF Init, MemoryInit, TweetLoopOK, TweetIdle, TweetBusy
<1>5. ProcessOK
  BY DEF Init, MemoryInit, ProcessOK
<1> QED BY <1>1, <1>2, <1>3, <1>4, <1>5 DEF TypeOK

\* Every step keeps them.
LEMMA StepType == TypeOK /\ [Next]_vars => TypeOK'
<1> SUFFICES ASSUME TypeOK, [Next]_vars PROVE TypeOK'
  OBVIOUS
<1>1. CASE UNCHANGED vars
  BY <1>1 DEF vars, TypeOK, TablesOK, RefsOK, QueuesOK, JobLoopOK, TweetLoopOK, ProcessOK, tables, refs,
              queues, process, spent
<1> QED
  BY <1>1, HandlersType, JobLoopType, TweetLoopType, ProcessType, EnvironmentType DEF Next

\* In every execution all variables keep their types, only saved tweets are
\* marked, and a busy loop works on a job or tweet that exists.
THEOREM TypeCorrect == Spec => []TypeOK
<1> QED BY InitType, StepType, PTL DEF Spec

-----------------------------------------------------------------------------
(* Scoring: the criteria and the quota *)

\* The quota and the scorer's criteria change only where a tweet is scored, at
\* midnight and at a start; no other step begins to score.
ScoringUntouched ==
    /\ UNCHANGED <<scorerCriteria, quotaUsed>>
    /\ tl'.pc = "scoring" => tl' = tl
    /\ faults' \in Nat /\ faults <= faults'

\* Only StartScore begins to score; quota and criteria change in these steps alone.
LEMMA ScoringSteps ==
    ASSUME TypeOK, [Next]_vars
    PROVE  \/ \E ok \in BOOLEAN : StartScore(ok)
           \/ \E hit, ok \in BOOLEAN : ScoreSucceeds(hit, ok)
           \/ NewDay \/ Restart \/ ScoringUntouched
<1>1. faults \in Nat /\ \A ok : Call(ok) => faults' \in Nat /\ faults <= faults'
  BY DEF TypeOK, ProcessOK, Call
<1>2. CASE UNCHANGED vars
  BY <1>1, <1>2 DEF vars, tables, spent, ScoringUntouched
<1>3. CASE Handlers
  BY <1>1, <1>3 DEF Handlers, SendJob, GetJob, EnqueueParse, tables, spent, ScoringUntouched
<1>4. CASE JobLoop
  <2>1. UNCHANGED <<scorerCriteria, quotaUsed, tl>>
    BY <1>4 DEF JobLoop, JobNotFound, StartJob, ParseFails, ParseArchive, SaveTweet, TweetsSaved,
                FlagTweet, MarkFlagged, MarkTweet, QueueTweet, EndJob, JobLoopStops, tables
  <2>2. UNCHANGED faults \/ \E ok \in BOOLEAN : Call(ok)
    BY <1>4 DEF JobLoop, JobNotFound, StartJob, ParseFails, ParseArchive, SaveTweet, TweetsSaved,
                FlagTweet, MarkFlagged, MarkTweet, QueueTweet, EndJob, JobLoopStops, spent
  <2> QED BY <1>1, <2>1, <2>2 DEF ScoringUntouched
<1>5. CASE TweetLoop
  <2>1. CASE PauseForQuota \/ \E ok \in BOOLEAN : DropTweet(ok)
    BY <1>1, <2>1 DEF PauseForQuota, DropTweet, tables, spent, ScoringUntouched
  <2>2. CASE \E ok \in BOOLEAN : RecordScore(ok) \/ MarkProcessed(ok)
    BY <1>1, <2>2 DEF RecordScore, MarkProcessed, TweetIdle, ScoringUntouched
  <2>3. CASE CheckDone \/ ScoreFails \/ QuotaExceeded \/ WakeUp
    <3>1. UNCHANGED <<scorerCriteria, quotaUsed, faults>>
      BY <2>3 DEF CheckDone, ScoreFails, QuotaExceeded, WakeUp, tables, spent
    <3>2. tl'.pc # "scoring"
      BY <2>3 DEF CheckDone, ScoreFails, MarkAnyway, QuotaExceeded, WakeUp, TypeOK, TweetLoopOK
    <3> QED BY <1>1, <3>1, <3>2 DEF ScoringUntouched
  <2>4. CASE Requeue \/ TweetLoopStops
    BY <1>1, <2>4 DEF Requeue, TweetLoopStops, TweetIdle, tables, spent, ScoringUntouched
  <2> QED BY <1>5, <2>1, <2>2, <2>3, <2>4 DEF TweetLoop
<1>6. CASE Ticker \/ Main
  BY <1>1, <1>6 DEF Ticker, Main, SaveJob, Tick, LastTick, TickDone, Signal, HttpDrained, HttpTimeout,
                    WorkersDone, Exit, ShutdownTimeout, MainOnly, tables, spent, ScoringUntouched
<1> QED BY <1>2, <1>3, <1>4, <1>5, <1>6 DEF Next

\* In every execution a tweet is scored under the criteria of its own job,
\* although SetCriteria changes the one scorer all jobs share.
THEOREM CriteriaOfTheJob == Spec => []CriteriaMatch
<1>1. Init => CriteriaMatch
  BY DEF Init, MemoryInit, TweetIdle, CriteriaMatch
<1>2. TypeOK /\ CriteriaMatch /\ [Next]_vars => CriteriaMatch'
  <2> SUFFICES ASSUME TypeOK, CriteriaMatch, [Next]_vars PROVE CriteriaMatch'
    OBVIOUS
  <2>1. CASE \E ok \in BOOLEAN : StartScore(ok)
    BY <2>1 DEF StartScore, SetCriteria, CriteriaMatch
  <2>2. CASE \E hit, ok \in BOOLEAN : ScoreSucceeds(hit, ok)
    BY <2>2 DEF ScoreSucceeds, CriteriaMatch
  <2>3. CASE NewDay
    BY <2>3 DEF NewDay, CriteriaMatch
  <2>4. CASE Restart
    BY <2>4 DEF Restart, TweetIdle, CriteriaMatch
  <2>5. CASE ScoringUntouched
    BY <2>5 DEF ScoringUntouched, CriteriaMatch
  <2> QED BY <2>1, <2>2, <2>3, <2>4, <2>5, ScoringSteps
<1> QED BY <1>1, <1>2, TypeCorrect, PTL DEF Spec

\* One more failed call only widens the bound.
LEMMA MoreFaults ==
    ASSUME NEW q \in Nat, NEW d \in Nat, NEW f \in Nat, NEW g \in Nat, f <= g
    PROVE  /\ q <= d + f => q <= d + g
           /\ q < d + f => q < d + g
OBVIOUS

\* While a tweet is scored there is room for its call: the quota was checked
\* before, and only tweetLoop counts calls.
QuotaInv ==
    /\ QuotaRespected
    /\ tl.pc = "scoring" => quotaUsed < DailyQuotaLimit + faults

\* In every execution no day counts more calls than the limit and one for
\* each failed call, whatever fails and however often the process restarts.
THEOREM QuotaKept == Spec => []QuotaRespected
<1>1. Init => QuotaInv
  BY SizeAssumption DEF Init, MemoryInit, TweetIdle, QuotaInv, QuotaRespected
<1>2. TypeOK /\ QuotaInv /\ [Next]_vars => QuotaInv'
  <2> SUFFICES ASSUME TypeOK, QuotaInv, [Next]_vars PROVE QuotaInv'
    OBVIOUS
  <2>0. faults \in Nat /\ quotaUsed \in Nat /\ DailyQuotaLimit \in Nat
    BY SizeAssumption DEF TypeOK, ProcessOK, TablesOK
  <2>1. ASSUME NEW ok \in BOOLEAN, StartScore(ok) PROVE QuotaInv'
    <3>1. quotaUsed' = quotaUsed
      BY <2>1 DEF StartScore, tables
    <3>2. CASE ok
      BY <2>0, <2>1, <3>1, <3>2 DEF StartScore, Call, QuotaReached, QuotaInv, QuotaRespected
    <3>3. CASE ~ok
      BY <2>0, <2>1, <3>1, <3>3 DEF StartScore, Call, QuotaInv, QuotaRespected
    <3> QED BY <3>2, <3>3
  <2>2. ASSUME NEW hit \in BOOLEAN, NEW ok \in BOOLEAN, ScoreSucceeds(hit, ok) PROVE QuotaInv'
    BY <2>0, <2>2 DEF ScoreSucceeds, Call, QuotaInv, QuotaRespected
  <2>3. CASE NewDay
    BY <2>0, <2>3 DEF NewDay, QuotaInv, QuotaRespected
  <2>4. CASE Restart
    BY <2>0, <2>4 DEF Restart, TweetIdle, tables, QuotaInv, QuotaRespected
  <2>5. CASE ScoringUntouched
    <3>1. quotaUsed' = quotaUsed /\ faults' \in Nat /\ faults <= faults'
      BY <2>5 DEF ScoringUntouched
    <3>2. tl'.pc = "scoring" => tl.pc = "scoring"
      BY <2>5 DEF ScoringUntouched
    <3>3. /\ quotaUsed <= DailyQuotaLimit + faults => quotaUsed <= DailyQuotaLimit + faults'
          /\ quotaUsed < DailyQuotaLimit + faults => quotaUsed < DailyQuotaLimit + faults'
      BY <2>0, <3>1, MoreFaults
    <3> QED BY <3>1, <3>2, <3>3 DEF QuotaInv, QuotaRespected
  <2> QED BY <2>1, <2>2, <2>3, <2>4, <2>5, ScoringSteps
<1>3. QuotaInv => QuotaRespected
  BY DEF QuotaInv
<1> QED BY <1>1, <1>2, <1>3, TypeCorrect, PTL DEF Spec

-----------------------------------------------------------------------------
(* Shutdown *)

\* jobLoop ends only after stop and with an empty queue, and main flushes only
\* after jobLoop has ended; from then on only a handler that outlasted the
\* HTTP server can put a job into the queue.
DrainInv ==
    /\ jl.pc = "gone" => stopped
    /\ main \in {"flushing", "exited"} => jl.pc = "gone"
    /\ jl.pc = "gone" /\ ~httpForced => jobQueue = <<>>

\* In every execution an orderly shutdown leaves no accepted job in the queue.
THEOREM ShutdownDrains == Spec => []ShutdownDrainsJobs
<1>1. Init => DrainInv
  BY DEF Init, MemoryInit, JobIdle, DrainInv
<1>2. TypeOK /\ DrainInv /\ [Next]_vars => DrainInv'
  <2> SUFFICES ASSUME TypeOK, DrainInv, [Next]_vars PROVE DrainInv'
    OBVIOUS
  <2>1. CASE \E j \in Job : SendJob(j)
    BY <2>1 DEF SendJob, HandlersRun, process, DrainInv, stopped
  <2>2. CASE \E j \in Job : GetJob(j) \/ \E ok \in BOOLEAN : EnqueueParse(j, ok)
    BY <2>2 DEF GetJob, EnqueueParse, process, queues, DrainInv, stopped
  <2>3. CASE JobLoopStops
    BY <2>3 DEF JobLoopStops, JobsDrained, alive, process, queues, DrainInv, stopped
  <2>4. CASE JobLoop /\ ~JobLoopStops
    <3>1. /\ UNCHANGED <<main, httpForced>> /\ jl.pc # "gone" /\ alive
      BY <2>4 DEF JobLoop, JobNotFound, StartJob, ParseFails, ParseArchive, SaveTweet, TweetsSaved,
                  FlagTweet, MarkFlagged, MarkTweet, QueueTweet, EndJob, Filtering, process
    <3>2. jl'.pc # "gone"
      <4>1. CASE StartJob
        BY <4>1 DEF StartJob
      <4>2. CASE TweetsSaved
        BY <4>2 DEF TweetsSaved
      <4>3. CASE QueueTweet
        BY <4>3 DEF QueueTweet, NextTweet
      <4>4. CASE ParseFails
        BY <4>4 DEF ParseFails, AfterFailure, JobIdle
      <4>5. CASE EndJob
        BY <4>5 DEF EndJob, JobIdle
      <4>6. CASE ParseArchive
        BY <4>6 DEF ParseArchive, TypeOK, JobLoopOK
      <4>7. ASSUME NEW ok \in BOOLEAN, JobNotFound(ok) PROVE jl'.pc # "gone"
        BY <4>7 DEF JobNotFound
      <4>8. ASSUME NEW ok \in BOOLEAN, MarkFlagged(ok) PROVE jl'.pc # "gone"
        BY <4>8 DEF MarkFlagged, NextTweet
      <4>9. ASSUME NEW ok \in BOOLEAN, SaveTweet(ok) PROVE jl'.pc # "gone"
        BY <4>9 DEF SaveTweet, TypeOK, JobLoopOK
      <4>10. ASSUME NEW ok \in BOOLEAN, FlagTweet(ok) \/ MarkTweet(ok) PROVE jl'.pc # "gone"
        BY <4>10 DEF FlagTweet, MarkTweet, NextTweet, TypeOK, JobLoopOK
      <4> QED
        BY <2>4, <4>1, <4>2, <4>3, <4>4, <4>5, <4>6, <4>7, <4>8, <4>9, <4>10 DEF JobLoop
    <3> QED BY <3>1, <3>2 DEF DrainInv, alive, stopped
  <2>5. CASE TweetLoop
    BY <2>5 DEF TweetLoop, PauseForQuota, CheckDone, ScoreFails, QuotaExceeded, WakeUp, Requeue,
                TweetLoopStops, DropTweet, StartScore, RecordScore, MarkProcessed, ScoreSucceeds,
                process, queues, DrainInv, stopped
  <2>6. CASE Ticker \/ \E j \in Job, ok \in BOOLEAN : SaveJob("shutdown", j, ok)
    BY <2>6 DEF Ticker, SaveJob, Tick, LastTick, TickDone, process, queues, DrainInv, stopped
  <2>7. CASE Signal \/ HttpDrained \/ HttpTimeout \/ WorkersDone \/ Exit \/ ShutdownTimeout
    BY <2>7 DEF Signal, HttpDrained, HttpTimeout, WorkersDone, Exit, ShutdownTimeout, MainOnly,
                queues, DrainInv, stopped
  <2>8. CASE NewDay \/ UNCHANGED vars
    BY <2>8 DEF NewDay, vars, process, queues, DrainInv, stopped
  <2>9. CASE Restart
    BY <2>9 DEF Restart, JobIdle, DrainInv
  <2> QED BY <2>1, <2>2, <2>3, <2>4, <2>5, <2>6, <2>7, <2>8, <2>9 DEF Next, Handlers, Main
<1>3. DrainInv => ShutdownDrainsJobs
  BY DEF DrainInv, ShutdownDrainsJobs
<1> QED BY <1>1, <1>2, <1>3, TypeCorrect, PTL DEF Spec

-----------------------------------------------------------------------------
(* Job updates reach the disk *)

\* The inductive invariant: which references to a job may exist at once
\* (UpdateOrder) is what makes the last write of a flush the newest.
DiskInv == TypeOK /\ UpdateOrder /\ UpdatesReachDisk

\* What a step must not touch for the lemmas below.
Calm == UNCHANGED <<jobRow, unsaved, ticker, main>>

-----------------------------------------------------------------------------
(* The shapes of a step: an object changes, updateJob, the end of a loop *)

\* No update, and objects change only where the cache does not look.
LEMMA QuietKeeps ==
    ASSUME RefsOK, NewestPending, UpdatesReachDisk, Calm, UNCHANGED refs,
           \A w \in Loop : obj'[w] = obj[w] \/ \A j \in Job : jobs[j].at # w
    PROVE  NewestPending' /\ UpdatesReachDisk'
<1>1. NewestPending'
  BY DEF NewestPending, FinalFlush, Calm, refs
<1>2. UpdatesReachDisk'
  BY DEF UpdatesReachDisk, FinalFlush, Pending, Deref, Calm, refs, RefsOK, Ref, Loop
<1> QED BY <1>1, <1>2

\* updateJob(j): only j may point to an object that changes.
LEMMA UpdateKeeps ==
    ASSUME RefsOK, NewestPending, UpdatesReachDisk, Calm,
           NEW j \in Job, NEW ref \in Ref, ref.at # "nil", updateJob(j, ref),
           \A w \in Loop : obj'[w] = obj[w] \/ \A k \in Job \ {j} : jobs[k].at # w
    PROVE  NewestPending' /\ UpdatesReachDisk'
<1>1. /\ jobs' = [jobs EXCEPT ![j] = ref]
      /\ jobUpdateQueue' = [jobUpdateQueue EXCEPT ![j] = ref]
      /\ UNCHANGED jobsToUpdate
  BY DEF updateJob
<1>2. NewestPending'
  BY <1>1 DEF NewestPending, FinalFlush, Calm, RefsOK
<1>3. UpdatesReachDisk'
  <2> SUFFICES ASSUME ~FinalFlush', NEW k \in Job \ unsaved', jobs'[k].at # "nil", ~Pending(k)'
               PROVE  IF jobs'[k].at = "job"
                      THEN /\ jobRow'[k].status = obj'["job"].status
                           /\ jobRow'[k].total = obj'["job"].total
                           /\ jobRow'[k].calls = obj'["job"].calls
                      ELSE jobRow'[k] = Deref(jobs[k])'
    BY DEF UpdatesReachDisk
  <2>1. k # j
    BY <1>1 DEF Pending, RefsOK
  <2>2. jobs'[k] = jobs[k] /\ ~Pending(k) /\ k \notin unsaved /\ ~FinalFlush
    BY <1>1, <2>1 DEF Pending, RefsOK, Calm, FinalFlush
  <2>3. jobs[k].at \in Loop => obj'[jobs[k].at] = obj[jobs[k].at]
    BY <2>1
  <2> QED BY <2>2, <2>3 DEF UpdatesReachDisk, Deref, Calm, Loop
<1> QED BY <1>2, <1>3

\* Releasing an object changes no reference to another one, makes none nil
\* and leaves equal references equal.
LEMMA ReleasedFacts ==
    ASSUME NEW rs \in [Job -> Ref], NEW w \in Loop, NEW r, NEW j \in Job
    PROVE  /\ rs[j].at = w => Released(rs, w, r)[j] = Held(r)
           /\ rs[j].at # w => Released(rs, w, r)[j] = rs[j]
           /\ Released(rs, w, r)[j].at = "nil" <=> rs[j].at = "nil"
           /\ Released(rs, w, r)[j].at # w
BY DEF Released, Held, Loop

\* The end of tweetLoop's work on a tweet: the object keeps its value.
LEMMA ReturnKeeps ==
    ASSUME RefsOK, NewestPending, UpdatesReachDisk, Calm, Return("tweet", obj["tweet"])
    PROVE  NewestPending' /\ UpdatesReachDisk'
<1> DEFINE r == obj["tweet"]
<1>1. /\ jobs' = Released(jobs, "tweet", r)
      /\ jobUpdateQueue' = Released(jobUpdateQueue, "tweet", r)
      /\ \A f \in Flusher : jobsToUpdate'[f] = Released(jobsToUpdate[f], "tweet", r)
      /\ obj'["job"] = obj["job"]
  BY DEF Return, RefsOK, Loop
<1>2. /\ "tweet" \in Loop /\ "ticker" \in Flusher /\ "shutdown" \in Flusher
      /\ jobs \in [Job -> Ref] /\ jobUpdateQueue \in [Job -> Ref]
      /\ \A f \in Flusher : jobsToUpdate[f] \in [Job -> Ref]
  BY DEF RefsOK, Loop, Flusher
<1> HIDE DEF r
<1>3. ASSUME NEW j \in Job
      PROVE  /\ jobs'[j].at = "nil" <=> jobs[j].at = "nil"
             /\ jobUpdateQueue'[j].at = "nil" <=> jobUpdateQueue[j].at = "nil"
             /\ \A f \in Flusher : jobsToUpdate'[f][j].at = "nil" <=> jobsToUpdate[f][j].at = "nil"
             /\ jobUpdateQueue[j] = jobs[j] => jobUpdateQueue'[j] = jobs'[j]
             /\ jobsToUpdate["ticker"][j] = jobs[j] => jobsToUpdate'["ticker"][j] = jobs'[j]
  <2>1. /\ jobs'[j].at = "nil" <=> jobs[j].at = "nil"
        /\ jobUpdateQueue'[j].at = "nil" <=> jobUpdateQueue[j].at = "nil"
    BY <1>1, <1>2, ReleasedFacts
  <2>2. \A f \in Flusher : jobsToUpdate'[f][j].at = "nil" <=> jobsToUpdate[f][j].at = "nil"
    BY <1>1, <1>2, ReleasedFacts
  <2>3. /\ jobs'[j] = (IF jobs[j].at = "tweet" THEN Held(r) ELSE jobs[j])
        /\ jobUpdateQueue'[j] =
              (IF jobUpdateQueue[j].at = "tweet" THEN Held(r) ELSE jobUpdateQueue[j])
        /\ jobsToUpdate'["ticker"][j] =
              (IF jobsToUpdate["ticker"][j].at = "tweet" THEN Held(r)
               ELSE jobsToUpdate["ticker"][j])
    BY <1>1, <1>2, ReleasedFacts
  <2> QED BY <2>1, <2>2, <2>3
<1>4. NewestPending'
  BY <1>2, <1>3 DEF NewestPending, FinalFlush, Calm
<1>5. UpdatesReachDisk'
  <2> SUFFICES ASSUME ~FinalFlush', NEW k \in Job \ unsaved', jobs'[k].at # "nil", ~Pending(k)'
               PROVE  IF jobs'[k].at = "job"
                      THEN /\ jobRow'[k].status = obj'["job"].status
                           /\ jobRow'[k].total = obj'["job"].total
                           /\ jobRow'[k].calls = obj'["job"].calls
                      ELSE jobRow'[k] = Deref(jobs[k])'
    BY DEF UpdatesReachDisk
  <2>1. jobs[k].at # "nil" /\ ~Pending(k) /\ k \notin unsaved /\ ~FinalFlush
    BY <1>2, <1>3 DEF Pending, Calm, FinalFlush
  <2>2. CASE jobs[k].at = "tweet"
    <3>1. jobs'[k] = Held(r)
      BY <1>1, <1>2, <2>2, ReleasedFacts
    <3>2. jobRow[k] = r
      BY <2>1, <2>2 DEF UpdatesReachDisk, Deref, Loop, r
    <3> QED BY <3>1, <3>2 DEF Held, Deref, Loop, Calm
  <2>3. CASE jobs[k].at # "tweet"
    <3>1. jobs'[k] = jobs[k]
      BY <1>1, <1>2, <2>3, ReleasedFacts
    <3>2. jobs[k].at \in {"job", "held"}
      BY <1>2, <2>1, <2>3 DEF Ref, Loop
    <3> QED BY <1>1, <2>1, <3>1, <3>2 DEF UpdatesReachDisk, Deref, Loop, Calm
  <2> QED BY <2>2, <2>3
<1> QED BY <1>4, <1>5

\* The end of jobLoop's work on j, to which alone the cache points by "job".
LEMMA UpdateAndReturnKeeps ==
    ASSUME RefsOK, NewestPending, UpdatesReachDisk, Calm,
           NEW j \in Job, NEW r \in Row, UpdateAndReturn("job", j, r),
           \A k \in Job \ {j} : jobs[k].at # "job"
    PROVE  NewestPending' /\ UpdatesReachDisk'
<1>1. /\ jobs' = [Released(jobs, "job", r) EXCEPT ![j] = Held(r)]
      /\ jobUpdateQueue' = [Released(jobUpdateQueue, "job", r) EXCEPT ![j] = Held(r)]
      /\ \A f \in Flusher : jobsToUpdate'[f] = Released(jobsToUpdate[f], "job", r)
      /\ obj'["tweet"] = obj["tweet"]
  BY DEF UpdateAndReturn, RefsOK, Loop
<1>2. /\ "job" \in Loop /\ "ticker" \in Flusher /\ "shutdown" \in Flusher
      /\ jobs \in [Job -> Ref] /\ jobUpdateQueue \in [Job -> Ref]
      /\ \A f \in Flusher : jobsToUpdate[f] \in [Job -> Ref]
  BY DEF RefsOK, Loop, Flusher
<1>3. jobs'[j] = Held(r) /\ jobUpdateQueue'[j] = Held(r) /\ Held(r).at = "held"
  BY <1>1 DEF Released, Held
<1>4. ASSUME NEW k \in Job \ {j}
      PROVE  /\ jobs'[k] = jobs[k]
             /\ jobUpdateQueue'[k].at = "nil" <=> jobUpdateQueue[k].at = "nil"
             /\ jobUpdateQueue[k] = jobs[k] => jobUpdateQueue'[k] = jobs'[k]
             /\ jobsToUpdate["ticker"][k] = jobs[k] => jobsToUpdate'["ticker"][k] = jobs'[k]
  <2>1. jobs'[k] = jobs[k]
    BY <1>1, <1>2 DEF Released
  <2>2. /\ jobUpdateQueue'[k] = Released(jobUpdateQueue, "job", r)[k]
        /\ jobsToUpdate'["ticker"][k] = Released(jobsToUpdate["ticker"], "job", r)[k]
    BY <1>1, <1>2 DEF Released
  <2>3. /\ jobUpdateQueue'[k].at = "nil" <=> jobUpdateQueue[k].at = "nil"
        /\ jobUpdateQueue[k].at # "job" => jobUpdateQueue'[k] = jobUpdateQueue[k]
        /\ jobsToUpdate["ticker"][k].at # "job" =>
              jobsToUpdate'["ticker"][k] = jobsToUpdate["ticker"][k]
    BY <1>2, <2>2, ReleasedFacts
  <2> QED BY <2>1, <2>3
<1>5. \A f \in Flusher, k \in Job : jobsToUpdate'[f][k].at = "nil" <=> jobsToUpdate[f][k].at = "nil"
  BY <1>1, <1>2, ReleasedFacts
<1>6. NewestPending'
  <2> SUFFICES ASSUME NEW k \in Job
               PROVE /\ ticker' = "waiting" => jobsToUpdate'["ticker"][k].at = "nil"
                     /\ ~FinalFlush' =>
                        /\ jobsToUpdate'["shutdown"][k].at = "nil"
                        /\ jobUpdateQueue'[k].at # "nil" => jobUpdateQueue'[k] = jobs'[k]
                        /\ jobUpdateQueue'[k].at = "nil" /\ jobsToUpdate'["ticker"][k].at # "nil" =>
                             jobsToUpdate'["ticker"][k] = jobs'[k]
    BY DEF NewestPending
  <2>1. CASE k = j
    BY <1>2, <1>3, <1>5, <2>1 DEF NewestPending, FinalFlush, Calm
  <2>2. CASE k # j
    BY <1>2, <1>4, <1>5, <2>2 DEF NewestPending, FinalFlush, Calm
  <2> QED BY <2>1, <2>2
<1>7. UpdatesReachDisk'
  <2> SUFFICES ASSUME ~FinalFlush', NEW k \in Job \ unsaved', jobs'[k].at # "nil", ~Pending(k)'
               PROVE  IF jobs'[k].at = "job"
                      THEN /\ jobRow'[k].status = obj'["job"].status
                           /\ jobRow'[k].total = obj'["job"].total
                           /\ jobRow'[k].calls = obj'["job"].calls
                      ELSE jobRow'[k] = Deref(jobs[k])'
    BY DEF UpdatesReachDisk
  <2>1. k # j
    BY <1>3 DEF Pending
  <2>2. jobs'[k] = jobs[k] /\ ~Pending(k) /\ k \notin unsaved /\ ~FinalFlush
    BY <1>2, <1>4, <1>5, <2>1 DEF Pending, Calm, FinalFlush
  <2>3. jobs[k].at # "job"
    BY <2>1
  <2> QED BY <1>1, <2>2, <2>3 DEF UpdatesReachDisk, Deref, Calm, Loop
<1> QED BY <1>6, <1>7

-----------------------------------------------------------------------------
(* The steps, one lemma for each goroutine *)

\* The first entry of a queue, and the entries after it.
LEMMA HeadTail ==
    ASSUME NEW S, NEW q \in Seq(S), q # <<>>
    PROVE  /\ Head(q) \in S /\ 1 \in DOMAIN q /\ Head(q) = q[1]
           /\ \A k \in DOMAIN Tail(q) : k + 1 \in DOMAIN q /\ Tail(q)[k] = q[k + 1]
OBVIOUS

\* The entries of a queue after a send.
LEMMA AppendAt ==
    ASSUME NEW S, NEW q \in Seq(S), NEW x \in S
    PROVE  \A k \in DOMAIN Append(q, x) :
              Append(q, x)[k] = x \/ (k \in DOMAIN q /\ Append(q, x)[k] = q[k])
OBVIOUS

\* Upload and status handlers.
LEMMA HandlersDisk ==
    ASSUME DiskInv, Handlers
    PROVE  UpdateOrder' /\ UpdatesReachDisk'
<1> USE DEF DiskInv, UpdateOrder
<1>1. ASSUME NEW j \in Job, NEW ok \in BOOLEAN, EnqueueParse(j, ok)
      PROVE  UpdateOrder' /\ UpdatesReachDisk'
  <2>1. /\ upload[j] = "none" /\ upload' = [upload EXCEPT ![j] = "sending"]
        /\ jobs[j].at = "nil" /\ jobs' = [jobs EXCEPT ![j] = Held(Fresh)]
        /\ UNCHANGED <<jobUpdateQueue, jobsToUpdate, obj, jl, tl, ticker, main>>
        /\ UNCHANGED <<jobQueue, tweetQueue>>
    BY <1>1 DEF EnqueueParse, OnlySentJobs, process, queues
  <2>2. \A k \in Job \ unsaved' :
           /\ k # j => k \notin unsaved /\ jobRow'[k] = jobRow[k]
           /\ k = j => jobRow'[k] = Fresh
    BY <1>1 DEF EnqueueParse, SavedRow, TypeOK, TablesOK
  <2>3. OnlySentJobs'
    BY <2>1 DEF OnlySentJobs, TypeOK, ProcessOK, RefsOK, QueuesOK
  <2>4. CacheOwned'
    BY <2>1 DEF CacheOwned, TypeOK, RefsOK, Held
  <2>5. NewestPending'
    BY <2>1 DEF NewestPending, FinalFlush, TypeOK, RefsOK
  <2>6. UpdatesReachDisk'
    BY <2>1, <2>2 DEF UpdatesReachDisk, FinalFlush, Pending, Deref, Held, Loop, TypeOK, RefsOK, TablesOK
  <2> QED BY <2>3, <2>4, <2>5, <2>6
<1>2. ASSUME NEW j \in Job, SendJob(j)
      PROVE  UpdateOrder' /\ UpdatesReachDisk'
  <2>1. /\ jobQueue' = Append(jobQueue, j) /\ upload' = [upload EXCEPT ![j] = "over"]
        /\ UNCHANGED <<jobs, jl, tl, tweetQueue>>
    BY <1>2 DEF SendJob, Answer, refs
  <2>2. OnlySentJobs'
    BY <2>1, AppendAt DEF OnlySentJobs, TypeOK, ProcessOK, QueuesOK
  <2>3. CacheOwned'
    BY <2>1 DEF CacheOwned
  <2>4. Calm /\ UNCHANGED refs /\ UNCHANGED obj
    BY <1>2 DEF SendJob, Calm, tables, process
  <2> QED BY <2>2, <2>3, <2>4, QuietKeeps DEF TypeOK
<1>3. ASSUME NEW j \in Job, GetJob(j)
      PROVE  UpdateOrder' /\ UpdatesReachDisk'
  <2>1. /\ upload[j] = "over" /\ jobs[j].at = "nil"
        /\ jobs' = [jobs EXCEPT ![j] = Held(jobRow[j])]
        /\ UNCHANGED <<jobRow, unsaved, jobUpdateQueue, jobsToUpdate, obj, jl, tl, ticker, main>>
        /\ UNCHANGED <<jobQueue, tweetQueue, upload>>
    BY <1>3 DEF GetJob, process, queues, tables, spent
  <2>2. OnlySentJobs'
    BY <2>1 DEF OnlySentJobs, TypeOK, RefsOK
  <2>3. CacheOwned'
    BY <2>1 DEF CacheOwned, TypeOK, RefsOK, Held
  <2>4. NewestPending'
    BY <2>1 DEF NewestPending, FinalFlush, TypeOK, RefsOK
  <2>5. UpdatesReachDisk'
    BY <2>1 DEF UpdatesReachDisk, FinalFlush, Pending, Deref, Held, Loop, TypeOK, RefsOK
  <2> QED BY <2>2, <2>3, <2>4, <2>5
<1> QED BY <1>1, <1>2, <1>3 DEF Handlers

\* A job that is sent, and to which alone the cache may point by "job".
LEMMA JobInHand ==
    ASSUME DiskInv, jl.pc \in JobBusy
    PROVE  /\ jl.job \in Job /\ upload[jl.job] = "over"
           /\ \A k \in Job \ {jl.job} : jobs[k].at # "job"
           /\ obj["job"] \in Row /\ Live("job") \in Ref /\ Live("job").at = "job"
BY RefTypes DEF DiskInv, UpdateOrder, TypeOK, JobLoopOK, RefsOK, OnlySentJobs, CacheOwned, Live, Loop

\* Steps of jobLoop that touch no job object.
LEMMA JobLoopQuiet ==
    ASSUME DiskInv, Calm, UNCHANGED <<refs, obj, upload, tl>>,
           jl' = jl \/ jl'.pc \notin JobBusy \/ (jl'.pc \in JobBusy /\ jl.pc \in JobBusy /\ jl'.job = jl.job),
           jl' # jl /\ jl'.pc \notin JobBusy => jl.pc \notin JobBusy,
           \/ UNCHANGED queues
           \/ jobQueue # <<>> /\ jobQueue' = Tail(jobQueue) /\ UNCHANGED tweetQueue
    PROVE  UpdateOrder' /\ UpdatesReachDisk'
<1> USE DEF DiskInv, UpdateOrder
<1>1. \A k \in DOMAIN jobQueue' : upload'[jobQueue'[k]] = "over"
  <2>1. CASE UNCHANGED queues
    BY <2>1 DEF queues, OnlySentJobs
  <2>2. CASE jobQueue # <<>> /\ jobQueue' = Tail(jobQueue)
    BY <2>2, HeadTail DEF OnlySentJobs, TypeOK, QueuesOK
  <2> QED BY <2>1, <2>2
<1>2. OnlySentJobs'
  BY <1>1 DEF OnlySentJobs, refs, queues
<1>3. CacheOwned'
  BY DEF CacheOwned, refs
<1> QED BY <1>2, <1>3, QuietKeeps DEF TypeOK

\* Steps of jobLoop that change its object and call updateJob.
LEMMA JobLoopUpdate ==
    ASSUME DiskInv, Calm, jl.pc \in JobBusy, updateJob(jl.job, Live("job")),
           obj'["tweet"] = obj["tweet"], UNCHANGED <<upload, tl, jobQueue>>,
           jl'.pc \in JobBusy, jl'.job = jl.job,
           \A k \in DOMAIN tweetQueue' : upload[tweetQueue'[k].job] = "over"
    PROVE  UpdateOrder' /\ UpdatesReachDisk'
<1>1. /\ jl.job \in Job /\ upload[jl.job] = "over"
      /\ \A k \in Job \ {jl.job} : jobs[k].at # "job"
      /\ Live("job") \in Ref /\ Live("job").at = "job"
  BY JobInHand
<1>2. jobs' = [jobs EXCEPT ![jl.job] = Live("job")]
  BY DEF updateJob
<1> USE DEF DiskInv, UpdateOrder
<1>3. OnlySentJobs'
  BY <1>1, <1>2 DEF OnlySentJobs, TypeOK, RefsOK
<1>4. CacheOwned'
  BY <1>1, <1>2 DEF CacheOwned, TypeOK, RefsOK
<1>5. \A w \in Loop : obj'[w] = obj[w] \/ \A k \in Job \ {jl.job} : jobs[k].at # w
  BY <1>1 DEF Loop
<1>6. RefsOK /\ NewestPending /\ UpdatesReachDisk
  BY DEF TypeOK
<1> QED BY <1>1, <1>3, <1>4, <1>5, <1>6, UpdateKeeps

\* Steps of jobLoop that count a tweet.
LEMMA JobLoopCount ==
    ASSUME DiskInv, Calm, jl.pc \in JobBusy, NEW hit \in BOOLEAN, CountTweet(hit), NextTweet,
           UNCHANGED <<upload, tl, jobQueue>>,
           \A k \in DOMAIN tweetQueue' : upload[tweetQueue'[k].job] = "over"
    PROVE  UpdateOrder' /\ UpdatesReachDisk'
<1>1. jl'.pc \in JobBusy /\ jl'.job = jl.job
  BY DEF NextTweet, JobBusy
<1>2. obj' = [obj EXCEPT !["job"] = Plus(@, 0, hit)]
  BY DEF CountTweet
<1>3. obj'["tweet"] = obj["tweet"] /\ obj'["job"] = Plus(obj["job"], 0, hit)
  BY <1>2 DEF DiskInv, TypeOK, RefsOK, Loop
<1>4. CASE updateJob(jl.job, Live("job"))
  BY <1>1, <1>3, <1>4, JobLoopUpdate
<1>5. CASE UNCHANGED refs
  <2> USE DEF DiskInv, UpdateOrder
  <2>1. OnlySentJobs'
    BY <1>1, <1>5 DEF OnlySentJobs, refs
  <2>2. CacheOwned'
    BY <1>1, <1>5 DEF CacheOwned, refs
  <2>3. NewestPending'
    BY <1>5 DEF NewestPending, FinalFlush, Calm, refs
  <2>4. /\ obj'["job"].status = obj["job"].status /\ obj'["job"].total = obj["job"].total
        /\ obj'["job"].calls = obj["job"].calls
    BY <1>3 DEF Plus, TypeOK, RefsOK, Row, Loop
  <2>5. UpdatesReachDisk'
    BY <1>3, <1>5, <2>4 DEF UpdatesReachDisk, FinalFlush, Pending, Deref, Calm, refs, Loop, TypeOK, RefsOK, Ref
  <2> QED BY <2>1, <2>2, <2>3, <2>5
<1> QED BY <1>4, <1>5 DEF CountTweet

\* Steps that end jobLoop's work on a job.
LEMMA JobLoopEnd ==
    ASSUME DiskInv, Calm, jl.pc \in JobBusy, NEW r \in Row, UpdateAndReturn("job", jl.job, r),
           jl' = JobIdle, UNCHANGED <<upload, tl, queues>>
    PROVE  UpdateOrder' /\ UpdatesReachDisk'
<1>1. /\ jl.job \in Job /\ upload[jl.job] = "over"
      /\ \A k \in Job \ {jl.job} : jobs[k].at # "job"
  BY JobInHand
<1>2. /\ jobs'[jl.job] = Held(r)
      /\ \A k \in Job \ {jl.job} : jobs'[k] = jobs[k]
  BY <1>1 DEF UpdateAndReturn, Released
<1>3. jl'.pc \notin JobBusy
  BY DEF JobIdle, JobBusy
<1> USE DEF DiskInv, UpdateOrder
<1>4. OnlySentJobs'
  BY <1>1, <1>2, <1>3 DEF OnlySentJobs, queues
<1>5. CacheOwned'
  BY <1>1, <1>2, <1>3 DEF CacheOwned, Held
<1>6. RefsOK /\ NewestPending /\ UpdatesReachDisk
  BY DEF TypeOK
<1> QED BY <1>1, <1>4, <1>5, <1>6, UpdateAndReturnKeeps

\* jobLoop.
LEMMA JobLoopDisk ==
    ASSUME DiskInv, JobLoop
    PROVE  UpdateOrder' /\ UpdatesReachDisk'
<1>1. ASSUME NEW ok \in BOOLEAN, JobNotFound(ok) PROVE UpdateOrder' /\ UpdatesReachDisk'
  <2>1. Calm
    BY <1>1 DEF JobNotFound, Calm, tables, process
  <2> QED BY <1>1, <2>1, JobLoopQuiet DEF JobNotFound
<1>2. ASSUME StartJob PROVE UpdateOrder' /\ UpdatesReachDisk'
  <2> DEFINE j == Head(jobQueue)
  <2>1. /\ j \in Job /\ upload[j] = "over"
        /\ \A k \in DOMAIN Tail(jobQueue) : upload[Tail(jobQueue)[k]] = "over"
    BY <1>2, HeadTail DEF StartJob, DiskInv, UpdateOrder, OnlySentJobs, TypeOK, QueuesOK
  <2>2. /\ updateJob(j, Live("job")) /\ obj'["tweet"] = obj["tweet"]
        /\ jl'.pc \in JobBusy /\ jl'.job = j /\ jl.pc \notin JobBusy
        /\ jobQueue' = Tail(jobQueue)
        /\ UNCHANGED <<tweetQueue, upload, tl>>
    BY <1>2 DEF StartJob, JobBusy, DiskInv, TypeOK, RefsOK, Loop
  <2>3. Calm
    BY <1>2 DEF StartJob, Calm, tables, process
  <2> HIDE DEF j
  <2> USE DEF DiskInv, UpdateOrder
  <2>4. jobs' = [jobs EXCEPT ![j] = Live("job")]
    BY <2>2 DEF updateJob
  <2>5. OnlySentJobs'
    BY <2>1, <2>2, <2>4 DEF OnlySentJobs, TypeOK, RefsOK
  <2>6. CacheOwned'
    BY <2>1, <2>2, <2>4 DEF CacheOwned, Live, TypeOK, RefsOK
  <2>7. \A w \in Loop : obj'[w] = obj[w] \/ \A k \in Job \ {j} : jobs[k].at # w
    BY <2>2 DEF Loop, CacheOwned
  <2>8. RefsOK /\ NewestPending /\ UpdatesReachDisk /\ Live("job") \in Ref /\ Live("job").at # "nil"
    BY RefTypes DEF TypeOK, Live, Loop
  <2> QED BY <2>1, <2>2, <2>3, <2>5, <2>6, <2>7, <2>8, UpdateKeeps
<1>3. ASSUME ParseFails PROVE UpdateOrder' /\ UpdatesReachDisk'
  <2>1. Calm /\ jl.pc \in JobBusy
    BY <1>3 DEF ParseFails, Calm, JobBusy, tables, process
  <2>2. [obj["job"] EXCEPT !.status = "failed"] \in Row
    BY <2>1, JobInHand, RowTypes DEF Status
  <2> QED BY <1>3, <2>1, <2>2, JobLoopEnd DEF ParseFails, AfterFailure
<1>4. ASSUME ParseArchive PROVE UpdateOrder' /\ UpdatesReachDisk'
  <2>1. Calm
    BY <1>4 DEF ParseArchive, Calm, tables, process
  <2>2. jl'.pc \in JobBusy /\ jl.pc \in JobBusy /\ jl'.job = jl.job
    BY <1>4 DEF ParseArchive, JobBusy, DiskInv, TypeOK, JobLoopOK
  <2> QED BY <1>4, <2>1, <2>2, JobLoopQuiet DEF ParseArchive
<1>5. ASSUME NEW ok \in BOOLEAN, SaveTweet(ok) PROVE UpdateOrder' /\ UpdatesReachDisk'
  <2>1. Calm
    BY <1>5 DEF SaveTweet, Calm, process
  <2>2. jl'.pc \in JobBusy /\ jl.pc \in JobBusy /\ jl'.job = jl.job
    BY <1>5 DEF SaveTweet, JobBusy, DiskInv, TypeOK, JobLoopOK
  <2> QED BY <1>5, <2>1, <2>2, JobLoopQuiet DEF SaveTweet
<1>6. ASSUME TweetsSaved PROVE UpdateOrder' /\ UpdatesReachDisk'
  <2>1. Calm /\ jl.pc \in JobBusy /\ jl'.pc \in JobBusy /\ jl'.job = jl.job
    BY <1>6 DEF TweetsSaved, Calm, JobBusy, tables, process
  <2>2. /\ updateJob(jl.job, Live("job")) /\ obj'["tweet"] = obj["tweet"]
        /\ UNCHANGED <<upload, tl, jobQueue, tweetQueue>>
    BY <1>6 DEF TweetsSaved, queues, DiskInv, TypeOK, RefsOK, Loop
  <2>3. \A k \in DOMAIN tweetQueue' : upload[tweetQueue'[k].job] = "over"
    BY <2>2 DEF DiskInv, UpdateOrder, OnlySentJobs
  <2> QED BY <2>1, <2>2, <2>3, JobLoopUpdate
<1>7. ASSUME NEW ok \in BOOLEAN, FlagTweet(ok) PROVE UpdateOrder' /\ UpdatesReachDisk'
  <2>1. Calm
    BY <1>7 DEF FlagTweet, Calm, process
  <2>2. jl'.pc \in JobBusy /\ jl.pc \in JobBusy /\ jl'.job = jl.job
    BY <1>7 DEF FlagTweet, Filtering, JobBusy, DiskInv, TypeOK, JobLoopOK
  <2> QED BY <1>7, <2>1, <2>2, JobLoopQuiet DEF FlagTweet
<1>8. ASSUME NEW ok \in BOOLEAN, MarkFlagged(ok) PROVE UpdateOrder' /\ UpdatesReachDisk'
  <2>1. Calm /\ jl.pc \in JobBusy
    BY <1>8 DEF MarkFlagged, Calm, JobBusy, process
  <2>2. CountTweet(TRUE) /\ NextTweet /\ UNCHANGED <<upload, tl, jobQueue, tweetQueue>>
    BY <1>8 DEF MarkFlagged, queues
  <2>3. \A k \in DOMAIN tweetQueue' : upload[tweetQueue'[k].job] = "over"
    BY <2>2 DEF DiskInv, UpdateOrder, OnlySentJobs
  <2> QED BY <2>1, <2>2, <2>3, JobLoopCount
<1>9. ASSUME NEW ok \in BOOLEAN, MarkTweet(ok) PROVE UpdateOrder' /\ UpdatesReachDisk'
  <2>1. Calm
    BY <1>9 DEF MarkTweet, Calm, process
  <2>2. jl'.pc \in JobBusy /\ jl.pc \in JobBusy /\ jl'.job = jl.job
    BY <1>9 DEF MarkTweet, Filtering, NextTweet, JobBusy, DiskInv, TypeOK, JobLoopOK
  <2> QED BY <1>9, <2>1, <2>2, JobLoopQuiet DEF MarkTweet
<1>10. ASSUME QueueTweet PROVE UpdateOrder' /\ UpdatesReachDisk'
  <2>1. Calm /\ jl.pc \in JobBusy
    BY <1>10 DEF QueueTweet, Calm, JobBusy, tables, process
  <2>2. /\ CountTweet(FALSE) /\ NextTweet /\ UNCHANGED <<upload, tl, jobQueue>>
        /\ tweetQueue' = Append(tweetQueue, HandItem)
    BY <1>10 DEF QueueTweet, Send
  <2>3. HandItem \in Items /\ HandItem.job = jl.job
    BY <1>10, ItemTypes DEF DiskInv, TypeOK, JobLoopOK, JobBusy, QueueTweet, HandItem
  <2>4. \A k \in DOMAIN tweetQueue' : upload[tweetQueue'[k].job] = "over"
    BY <2>1, <2>2, <2>3, AppendAt, JobInHand DEF DiskInv, UpdateOrder, OnlySentJobs, TypeOK, QueuesOK
  <2> QED BY <2>1, <2>2, <2>4, JobLoopCount
<1>11. ASSUME EndJob PROVE UpdateOrder' /\ UpdatesReachDisk'
  <2>1. Calm /\ jl.pc \in JobBusy
    BY <1>11 DEF EndJob, Calm, JobBusy, tables, process
  <2> QED BY <1>11, <2>1, JobInHand, JobLoopEnd DEF EndJob
<1>12. ASSUME JobLoopStops PROVE UpdateOrder' /\ UpdatesReachDisk'
  <2>1. Calm /\ jl.pc \notin JobBusy /\ jl'.pc \notin JobBusy
    BY <1>12 DEF JobLoopStops, Calm, JobIdle, JobBusy, tables, process
  <2> QED BY <1>12, <2>1, JobLoopQuiet DEF JobLoopStops
<1> QED
  BY <1>1, <1>2, <1>3, <1>4, <1>5, <1>6, <1>7, <1>8, <1>9, <1>10, <1>11, <1>12 DEF JobLoop

\* The same shapes for tweetLoop.
LEMMA TweetInHand ==
    ASSUME DiskInv, tl.pc \in TweetBusy
    PROVE  /\ tl.item \in Items /\ tl.item.job \in Job /\ upload[tl.item.job] = "over"
           /\ \A k \in Job \ {tl.item.job} : jobs[k].at # "tweet"
           /\ Live("tweet") \in Ref /\ Live("tweet").at = "tweet"
<1>1. tl.item \in Items /\ tl.item.job \in Job
  BY ItemTypes DEF DiskInv, TypeOK, TweetLoopOK
<1> QED
  BY <1>1, RefTypes DEF DiskInv, UpdateOrder, OnlySentJobs, CacheOwned, Live, Loop

\* Steps of tweetLoop that change no reference, object or row.
LEMMA TweetLoopQuiet ==
    ASSUME DiskInv, Calm, UNCHANGED <<refs, obj, upload, jl, queues>>,
           tl.pc \in TweetBusy <=> tl'.pc \in TweetBusy,
           tl'.pc \in TweetBusy => tl'.item = tl.item
    PROVE  UpdateOrder' /\ UpdatesReachDisk'
<1> USE DEF DiskInv, UpdateOrder
<1>1. OnlySentJobs'
  BY DEF OnlySentJobs, refs, queues
<1>2. CacheOwned'
  BY DEF CacheOwned, refs
<1> QED BY <1>1, <1>2, QuietKeeps DEF TypeOK

\* Steps of tweetLoop that end in an updateJob.
LEMMA TweetLoopUpdate ==
    ASSUME DiskInv, Calm, tl.pc \in TweetBusy, updateJob(tl.item.job, Live("tweet")),
           obj'["job"] = obj["job"], UNCHANGED <<upload, jl, queues>>,
           tl'.pc \in TweetBusy, tl'.item = tl.item
    PROVE  UpdateOrder' /\ UpdatesReachDisk'
<1> DEFINE j == tl.item.job
<1>1. /\ j \in Job /\ upload[j] = "over"
      /\ \A k \in Job \ {j} : jobs[k].at # "tweet"
      /\ Live("tweet") \in Ref /\ Live("tweet").at = "tweet"
  BY TweetInHand
<1>2. jobs' = [jobs EXCEPT ![j] = Live("tweet")] /\ tl'.item.job = j
  BY DEF updateJob
<1>3. updateJob(j, Live("tweet"))
  OBVIOUS
<1> USE DEF DiskInv, UpdateOrder
<1>4. OnlySentJobs'
  BY <1>1, <1>2 DEF OnlySentJobs, queues, TypeOK, RefsOK
<1>5. CacheOwned'
  BY <1>1, <1>2 DEF CacheOwned, TypeOK, RefsOK
<1>6. \A w \in Loop : obj'[w] = obj[w] \/ \A k \in Job \ {j} : jobs[k].at # w
  BY <1>1 DEF Loop
<1>7. RefsOK /\ NewestPending /\ UpdatesReachDisk
  BY DEF TypeOK
<1> HIDE DEF j
<1> QED BY <1>1, <1>3, <1>4, <1>5, <1>6, <1>7, UpdateKeeps

\* Steps of tweetLoop that let go of the tweet in hand.
LEMMA TweetLoopEnd ==
    ASSUME DiskInv, Calm, tl.pc \in TweetBusy, Return("tweet", obj["tweet"]), tl' = TweetIdle,
           UNCHANGED <<upload, jl, jobQueue>>,
           \A k \in DOMAIN tweetQueue' : upload[tweetQueue'[k].job] = "over"
    PROVE  UpdateOrder' /\ UpdatesReachDisk'
<1>1. jobs' = Released(jobs, "tweet", obj["tweet"])
  BY DEF Return
<1>2. tl'.pc \notin TweetBusy
  BY DEF TweetIdle, TweetBusy
<1> USE DEF DiskInv, UpdateOrder
<1>3. /\ \A k \in Job : jobs'[k].at = "nil" <=> jobs[k].at = "nil"
      /\ \A k \in Job : jobs'[k].at # "tweet"
      /\ \A k \in Job : jobs'[k].at = "job" => jobs[k].at = "job"
  BY <1>1 DEF Released, Held
<1>4. OnlySentJobs'
  BY <1>2, <1>3 DEF OnlySentJobs
<1>5. CacheOwned'
  BY <1>3 DEF CacheOwned
<1> QED BY <1>4, <1>5, ReturnKeeps DEF TypeOK

\* tweetLoop.
LEMMA TweetLoopDisk ==
    ASSUME DiskInv, TweetLoop
    PROVE  UpdateOrder' /\ UpdatesReachDisk'
<1>1. ASSUME PauseForQuota PROVE UpdateOrder' /\ UpdatesReachDisk'
  <2> DEFINE j == Head(tweetQueue).job
             r == [jobRow[j] EXCEPT !.status = "paused_quota"]
  <2>0. /\ tweetQueue \in Seq(Items) /\ tweetQueue # <<>>
        /\ \A k \in DOMAIN tweetQueue : upload[tweetQueue[k].job] = "over"
    BY <1>1 DEF PauseForQuota, DiskInv, UpdateOrder, OnlySentJobs, TypeOK, QueuesOK
  <2>1. /\ j \in Job /\ upload[j] = "over"
        /\ \A k \in DOMAIN Tail(tweetQueue) : upload[Tail(tweetQueue)[k].job] = "over"
    BY <2>0, HeadTail, ItemTypes
  <2>2. r \in Row
    BY <2>1, RowTypes DEF DiskInv, TypeOK, TablesOK, Status
  <2>3. /\ updateJob(j, Held(r)) /\ tweetQueue' = Tail(tweetQueue)
        /\ UNCHANGED <<obj, jobQueue, upload, jl, tl>>
    BY <1>1 DEF PauseForQuota
  <2>4. Calm
    BY <1>1 DEF PauseForQuota, Calm, tables, process
  <2>5. Held(r) \in Ref /\ Held(r).at = "held"
    BY <2>2, RefTypes DEF Held
  <2> HIDE DEF j, r
  <2>6. jobs' = [jobs EXCEPT ![j] = Held(r)]
    BY <2>3 DEF updateJob
  <2> USE DEF DiskInv, UpdateOrder
  <2>7. OnlySentJobs'
    BY <2>1, <2>3, <2>6 DEF OnlySentJobs, TypeOK, RefsOK
  <2>8. CacheOwned'
    BY <2>1, <2>3, <2>5, <2>6 DEF CacheOwned, TypeOK, RefsOK
  <2>9. RefsOK /\ NewestPending /\ UpdatesReachDisk
    BY DEF TypeOK
  <2> QED BY <2>1, <2>3, <2>4, <2>5, <2>7, <2>8, <2>9, UpdateKeeps
<1>2. ASSUME NEW ok \in BOOLEAN, DropTweet(ok) PROVE UpdateOrder' /\ UpdatesReachDisk'
  <2>1. Calm
    BY <1>2 DEF DropTweet, Calm, tables, process
  <2>2. /\ tweetQueue # <<>> /\ tweetQueue' = Tail(tweetQueue)
        /\ UNCHANGED <<refs, obj, jobQueue, upload, jl, tl>>
    BY <1>2 DEF DropTweet
  <2> USE DEF DiskInv, UpdateOrder
  <2>3. \A k \in DOMAIN tweetQueue' : upload[tweetQueue'[k].job] = "over"
    BY <2>2, HeadTail DEF OnlySentJobs, TypeOK, QueuesOK
  <2>4. OnlySentJobs' /\ CacheOwned'
    BY <2>2, <2>3 DEF OnlySentJobs, CacheOwned, refs
  <2> QED BY <2>1, <2>2, <2>4, QuietKeeps DEF TypeOK
<1>3. ASSUME NEW ok \in BOOLEAN, StartScore(ok) PROVE UpdateOrder' /\ UpdatesReachDisk'
  <2>1. Calm
    BY <1>3 DEF StartScore, Calm, tables, process
  <2>2. /\ tweetQueue # <<>> /\ tweetQueue' = Tail(tweetQueue)
        /\ tl.pc \notin TweetBusy /\ tl'.item = Head(tweetQueue) /\ tl'.pc \in TweetBusy
        /\ obj'["job"] = obj["job"]
        /\ UNCHANGED <<refs, jobQueue, upload, jl>>
    BY <1>3 DEF StartScore, TweetBusy, DiskInv, TypeOK, RefsOK, Loop
  <2> USE DEF DiskInv, UpdateOrder
  <2>3. \A k \in DOMAIN tweetQueue' : upload[tweetQueue'[k].job] = "over"
    BY <2>2, HeadTail DEF OnlySentJobs, TypeOK, QueuesOK
  <2>4. upload[tl'.item.job] = "over"
    BY <2>2, HeadTail DEF OnlySentJobs, TypeOK, QueuesOK
  <2>5. OnlySentJobs'
    BY <2>2, <2>3, <2>4 DEF OnlySentJobs, refs
  <2>6. CacheOwned' /\ \A j \in Job : jobs[j].at # "tweet"
    BY <2>2 DEF CacheOwned, refs
  <2> QED BY <2>1, <2>2, <2>5, <2>6, QuietKeeps DEF TypeOK, Loop
<1>4. ASSUME NEW hit \in BOOLEAN, NEW ok \in BOOLEAN, ScoreSucceeds(hit, ok)
      PROVE  UpdateOrder' /\ UpdatesReachDisk'
  <2>1. Calm
    BY <1>4 DEF ScoreSucceeds, Calm, process
  <2>2. tl.pc \in TweetBusy /\ tl'.pc \in TweetBusy /\ tl'.item = tl.item
    BY <1>4 DEF ScoreSucceeds, TweetBusy
  <2> QED BY <1>4, <2>1, <2>2, TweetLoopQuiet DEF ScoreSucceeds
<1>5. ASSUME NEW ok \in BOOLEAN, RecordScore(ok) PROVE UpdateOrder' /\ UpdatesReachDisk'
  <2>1. Calm
    BY <1>5 DEF RecordScore, Calm, process
  <2>2. tl.pc \in TweetBusy /\ tl'.pc \in TweetBusy /\ tl'.item = tl.item
    BY <1>5 DEF RecordScore, TweetBusy
  <2>3. obj'["job"] = obj["job"]
    BY <1>5 DEF RecordScore, DiskInv, TypeOK, RefsOK, Loop
  <2> QED BY <1>5, <2>1, <2>2, <2>3, TweetLoopUpdate DEF RecordScore
<1>6. ASSUME CheckDone PROVE UpdateOrder' /\ UpdatesReachDisk'
  <2>1. Calm
    BY <1>6 DEF CheckDone, Calm, tables, process
  <2>2. tl.pc \in TweetBusy /\ tl'.pc \in TweetBusy /\ tl'.item = tl.item
    BY <1>6 DEF CheckDone, TweetBusy, DiskInv, TypeOK, TweetLoopOK
  <2>3. CASE obj["tweet"].processed >= obj["tweet"].total
    <3>1. obj'["job"] = obj["job"] /\ updateJob(tl.item.job, Live("tweet"))
      BY <1>6, <2>3 DEF CheckDone, DiskInv, TypeOK, RefsOK, Loop
    <3> QED BY <1>6, <2>1, <2>2, <3>1, TweetLoopUpdate DEF CheckDone
  <2>4. CASE ~(obj["tweet"].processed >= obj["tweet"].total)
    BY <1>6, <2>1, <2>2, <2>4, TweetLoopQuiet DEF CheckDone
  <2> QED BY <2>3, <2>4
<1>7. ASSUME ScoreFails PROVE UpdateOrder' /\ UpdatesReachDisk'
  <2>1. Calm
    BY <1>7 DEF ScoreFails, Calm, tables, process
  <2>2. tl.pc \in TweetBusy /\ tl'.pc \in TweetBusy /\ tl'.item = tl.item
    BY <1>7 DEF ScoreFails, MarkAnyway, TweetBusy, DiskInv, TypeOK, TweetLoopOK
  <2> QED BY <1>7, <2>1, <2>2, TweetLoopQuiet DEF ScoreFails
<1>8. ASSUME NEW ok \in BOOLEAN, MarkProcessed(ok) PROVE UpdateOrder' /\ UpdatesReachDisk'
  <2>1. Calm /\ tl.pc \in TweetBusy
    BY <1>8 DEF MarkProcessed, Calm, TweetBusy, process
  <2>2. \A k \in DOMAIN tweetQueue' : upload[tweetQueue'[k].job] = "over"
    BY <1>8 DEF MarkProcessed, queues, DiskInv, UpdateOrder, OnlySentJobs
  <2> QED BY <1>8, <2>1, <2>2, TweetLoopEnd DEF MarkProcessed, queues
<1>9. ASSUME QuotaExceeded PROVE UpdateOrder' /\ UpdatesReachDisk'
  <2>1. Calm
    BY <1>9 DEF QuotaExceeded, Calm, tables, process
  <2>2. tl.pc \in TweetBusy /\ tl'.pc \in TweetBusy /\ tl'.item = tl.item
    BY <1>9 DEF QuotaExceeded, TweetBusy, DiskInv, TypeOK, TweetLoopOK
  <2>3. obj'["job"] = obj["job"]
    BY <1>9 DEF QuotaExceeded, DiskInv, TypeOK, RefsOK, Loop
  <2> QED BY <1>9, <2>1, <2>2, <2>3, TweetLoopUpdate DEF QuotaExceeded
<1>10. ASSUME WakeUp PROVE UpdateOrder' /\ UpdatesReachDisk'
  <2>1. Calm
    BY <1>10 DEF WakeUp, Calm, tables, process
  <2>2. tl.pc \in TweetBusy /\ tl'.pc \in TweetBusy /\ tl'.item = tl.item
    BY <1>10 DEF WakeUp, TweetBusy, DiskInv, TypeOK, TweetLoopOK
  <2>3. obj'["job"] = obj["job"]
    BY <1>10 DEF WakeUp, DiskInv, TypeOK, RefsOK, Loop
  <2> QED BY <1>10, <2>1, <2>2, <2>3, TweetLoopUpdate DEF WakeUp
<1>11. ASSUME Requeue PROVE UpdateOrder' /\ UpdatesReachDisk'
  <2>1. Calm /\ tl.pc \in TweetBusy /\ tweetQueue' = Append(tweetQueue, tl.item)
    BY <1>11 DEF Requeue, Send, Calm, TweetBusy, tables, process
  <2>2. \A k \in DOMAIN tweetQueue' : upload[tweetQueue'[k].job] = "over"
    BY <2>1, AppendAt, TweetInHand DEF DiskInv, UpdateOrder, OnlySentJobs, TypeOK, QueuesOK
  <2> QED BY <1>11, <2>1, <2>2, TweetLoopEnd DEF Requeue
<1>12. ASSUME TweetLoopStops PROVE UpdateOrder' /\ UpdatesReachDisk'
  <2>1. Calm /\ tl.pc \notin TweetBusy /\ tl'.pc \notin TweetBusy
    BY <1>12 DEF TweetLoopStops, Calm, TweetIdle, TweetBusy, tables, process
  <2> QED BY <1>12, <2>1, TweetLoopQuiet DEF TweetLoopStops
<1> QED
  BY <1>1, <1>2, <1>3, <1>4, <1>5, <1>6, <1>7, <1>8, <1>9, <1>10, <1>11, <1>12 DEF TweetLoop

\* A flusher writes one update: the ticker the newest, if nothing newer is
\* queued, and Shutdown only after its flush has begun.
LEMMA SaveJobDisk ==
    ASSUME DiskInv, NEW f \in Flusher, NEW j \in Job, NEW ok \in BOOLEAN, SaveJob(f, j, ok)
    PROVE  UpdateOrder' /\ UpdatesReachDisk'
<1>1. /\ jobsToUpdate[f][j].at # "nil"
      /\ jobsToUpdate' = [jobsToUpdate EXCEPT ![f][j] = Nil]
      /\ SavedRow(j, Deref(jobsToUpdate[f][j]), ok)
      /\ UNCHANGED <<jobs, jobUpdateQueue, obj, jobQueue, tweetQueue, upload, jl, tl, ticker, main>>
  BY DEF SaveJob, Written, queues, process
<1>2. \A k \in Job \ unsaved' :
         /\ k # j => k \notin unsaved /\ jobRow'[k] = jobRow[k]
         /\ k = j => jobRow'[k] = Deref(jobsToUpdate[f][j])
  BY <1>1 DEF SavedRow, DiskInv, TypeOK, TablesOK
<1> USE DEF DiskInv, UpdateOrder
<1>3. OnlySentJobs' /\ CacheOwned'
  BY <1>1 DEF OnlySentJobs, CacheOwned
<1>4. \A g \in Flusher, k \in Job :
         jobsToUpdate'[g][k] = IF g = f /\ k = j THEN Nil ELSE jobsToUpdate[g][k]
  BY <1>1 DEF TypeOK, RefsOK
<1>5. NewestPending'
  BY <1>1, <1>4 DEF NewestPending, FinalFlush, Nil, Flusher
<1>6. UpdatesReachDisk'
  <2> SUFFICES ASSUME ~FinalFlush', NEW k \in Job \ unsaved', jobs'[k].at # "nil", ~Pending(k)'
               PROVE  IF jobs'[k].at = "job"
                      THEN /\ jobRow'[k].status = obj'["job"].status
                           /\ jobRow'[k].total = obj'["job"].total
                           /\ jobRow'[k].calls = obj'["job"].calls
                      ELSE jobRow'[k] = Deref(jobs[k])'
    BY DEF UpdatesReachDisk
  <2>1. ~FinalFlush /\ jobs[k].at # "nil" /\ jobUpdateQueue[k].at = "nil"
    BY <1>1 DEF FinalFlush, Pending
  <2>2. f = "ticker"
    BY <1>1, <2>1 DEF NewestPending, Flusher
  <2>3. Deref(jobs[k])' = Deref(jobs[k])
    BY <1>1 DEF Deref
  <2>4. CASE k = j
    <3>1. jobsToUpdate["ticker"][j] = jobs[j]
      BY <1>1, <2>1, <2>2, <2>4 DEF NewestPending
    <3>2. jobRow'[j] = Deref(jobs[j])
      BY <1>2, <2>2, <2>4, <3>1
    <3> QED BY <1>1, <2>3, <2>4, <3>2 DEF Deref, Loop
  <2>5. CASE k # j
    <3>1. jobRow'[k] = jobRow[k] /\ k \notin unsaved
      BY <1>2, <2>5
    <3>2. ~Pending(k)
      BY <1>4, <2>1, <2>5 DEF Pending, Flusher
    <3> QED BY <1>1, <2>1, <2>3, <3>1, <3>2 DEF UpdatesReachDisk
  <2> QED BY <2>4, <2>5
<1> QED BY <1>3, <1>5, <1>6

\* A tick takes the whole queue, when the ticker has nothing left to write.
LEMMA TakeDisk ==
    ASSUME DiskInv, ticker = "waiting", TakeUpdates("ticker"), ticker' # "waiting",
           UNCHANGED <<jobRow, unsaved, obj, queues, upload, jl, tl, main>>
    PROVE  UpdateOrder' /\ UpdatesReachDisk'
<1> USE DEF DiskInv, UpdateOrder
<1>1. /\ \A j \in Job : jobUpdateQueue'[j] = Nil
      /\ \A j \in Job : jobsToUpdate'["ticker"][j] = jobUpdateQueue[j]
      /\ \A j \in Job : jobsToUpdate'["shutdown"][j] = jobsToUpdate["shutdown"][j]
      /\ UNCHANGED jobs
  BY DEF TakeUpdates, Empty, TypeOK, RefsOK, Flusher
<1>2. OnlySentJobs' /\ CacheOwned'
  BY <1>1 DEF OnlySentJobs, CacheOwned, queues
<1>3. NewestPending'
  BY <1>1 DEF NewestPending, FinalFlush, Nil
<1>4. \A j \in Job : Pending(j) <=> Pending(j)'
  BY <1>1 DEF Pending, NewestPending, Nil
<1>5. UpdatesReachDisk'
  BY <1>1, <1>4 DEF UpdatesReachDisk, FinalFlush, Deref
<1> QED BY <1>2, <1>3, <1>5

\* Steps of the ticker or of main that leave every update alone.
LEMMA ProcessQuiet ==
    ASSUME DiskInv, UNCHANGED <<jobRow, unsaved, refs, obj, queues, upload, jl, tl>>,
           FinalFlush => FinalFlush',
           ticker' = "waiting" => ticker = "waiting" \/ jobsToUpdate["ticker"] = Empty
    PROVE  UpdateOrder' /\ UpdatesReachDisk'
<1> USE DEF DiskInv, UpdateOrder
<1>1. OnlySentJobs' /\ CacheOwned'
  BY DEF OnlySentJobs, CacheOwned, queues, refs
<1>2. NewestPending'
  BY DEF NewestPending, refs, Empty, Nil
<1>3. UpdatesReachDisk'
  BY DEF UpdatesReachDisk, Pending, Deref, refs
<1> QED BY <1>1, <1>2, <1>3

\* The ticker and main.
LEMMA ProcessDisk ==
    ASSUME DiskInv, Ticker \/ Main
    PROVE  UpdateOrder' /\ UpdatesReachDisk'
<1>1. ASSUME Tick PROVE UpdateOrder' /\ UpdatesReachDisk'
  BY <1>1, TakeDisk DEF Tick, tables, spent
<1>2. ASSUME LastTick PROVE UpdateOrder' /\ UpdatesReachDisk'
  BY <1>2, TakeDisk DEF LastTick, tables, spent
<1>3. ASSUME TickDone PROVE UpdateOrder' /\ UpdatesReachDisk'
  BY <1>3, ProcessQuiet DEF TickDone, FinalFlush, tables, spent
<1>4. ASSUME Signal \/ HttpDrained \/ HttpTimeout \/ Exit \/ ShutdownTimeout
      PROVE  UpdateOrder' /\ UpdatesReachDisk'
  <2>1. UNCHANGED <<jobRow, unsaved, refs, obj, queues, upload, jl, tl, ticker>>
    BY <1>4 DEF Signal, HttpDrained, HttpTimeout, Exit, ShutdownTimeout, MainOnly, tables, spent
  <2>2. FinalFlush => FinalFlush'
    BY <1>4 DEF Signal, HttpDrained, HttpTimeout, Exit, ShutdownTimeout, FinalFlush
  <2> QED BY <2>1, <2>2, ProcessQuiet
<1>5. ASSUME WorkersDone PROVE UpdateOrder' /\ UpdatesReachDisk'
  <2>1. /\ UNCHANGED <<jobs, jobQueue, tweetQueue, upload, jl, tl, ticker>>
        /\ main' = "flushing" /\ TakeUpdates("shutdown")
    BY <1>5 DEF WorkersDone, MainOnly, TakeUpdates, queues
  <2> USE DEF DiskInv, UpdateOrder
  <2>2. OnlySentJobs' /\ CacheOwned'
    BY <2>1 DEF OnlySentJobs, CacheOwned
  <2>3. jobsToUpdate'["ticker"] = jobsToUpdate["ticker"] /\ FinalFlush'
    BY <2>1 DEF TakeUpdates, FinalFlush, TypeOK, RefsOK, Flusher
  <2>4. NewestPending' /\ UpdatesReachDisk'
    BY <2>1, <2>3 DEF NewestPending, UpdatesReachDisk
  <2> QED BY <2>2, <2>4
<1> QED
  BY <1>1, <1>2, <1>3, <1>4, <1>5, SaveJobDisk DEF Ticker, Main, Flusher

\* A midnight, a restart and the initial state.
LEMMA EnvironmentDisk ==
    ASSUME DiskInv, NewDay \/ Restart
    PROVE  UpdateOrder' /\ UpdatesReachDisk'
<1>1. ASSUME NewDay PROVE UpdateOrder' /\ UpdatesReachDisk'
  BY <1>1, ProcessQuiet DEF NewDay, FinalFlush, process
<1>2. ASSUME Restart PROVE UpdateOrder' /\ UpdatesReachDisk'
  <2>1. /\ \A j \in Job : /\ jobs'[j] = Nil /\ jobUpdateQueue'[j] = Nil
                          /\ \A f \in Flusher : jobsToUpdate'[f][j] = Nil
        /\ jobQueue' = <<>> /\ tweetQueue' = <<>>
        /\ jl'.pc \notin JobBusy /\ tl'.pc \notin TweetBusy
    BY <1>2 DEF Restart, Empty, resumePendingJobs, JobIdle, TweetIdle, JobBusy, TweetBusy
  <2>2. OnlySentJobs' /\ CacheOwned'
    BY <2>1 DEF OnlySentJobs, CacheOwned, Nil
  <2>3. NewestPending'
    BY <2>1 DEF NewestPending, Nil, Flusher
  <2>4. UpdatesReachDisk'
    BY <2>1 DEF UpdatesReachDisk, Nil
  <2> QED BY <2>2, <2>3, <2>4 DEF UpdateOrder
<1> QED BY <1>1, <1>2

\* The first state has nothing cached or pending.
LEMMA InitDisk == Init => DiskInv
<1> SUFFICES ASSUME Init PROVE DiskInv
  OBVIOUS
<1>1. /\ \A j \in Job : /\ jobs[j] = Nil /\ jobUpdateQueue[j] = Nil
                        /\ \A f \in Flusher : jobsToUpdate[f][j] = Nil
      /\ jobQueue = <<>> /\ tweetQueue = <<>>
      /\ jl.pc \notin JobBusy /\ tl.pc \notin TweetBusy
  BY DEF Init, MemoryInit, Empty, resumePendingJobs, JobIdle, TweetIdle, JobBusy, TweetBusy
<1>2. OnlySentJobs /\ CacheOwned
  BY <1>1 DEF OnlySentJobs, CacheOwned, Nil
<1>3. NewestPending
  BY <1>1 DEF NewestPending, Nil, Flusher
<1>4. UpdatesReachDisk
  BY <1>1 DEF UpdatesReachDisk, Nil
<1> QED BY <1>2, <1>3, <1>4, InitType DEF DiskInv, UpdateOrder

\* Every step keeps the order of the updates and the rows' lag.
LEMMA StepDisk == DiskInv /\ [Next]_vars => DiskInv'
<1> SUFFICES ASSUME DiskInv, [Next]_vars PROVE UpdateOrder' /\ UpdatesReachDisk'
  BY StepType DEF DiskInv
<1>1. CASE UNCHANGED vars
  BY <1>1, ProcessQuiet DEF vars, tables, process, spent, FinalFlush
<1> QED
  BY <1>1, HandlersDisk, JobLoopDisk, TweetLoopDisk, ProcessDisk, EnvironmentDisk DEF Next

-----------------------------------------------------------------------------
(* Theorems *)

\* In every execution updateJob's two stores and the copies the flushers take
\* stay in order: no flush can write an older state of a job after a newer one
\* before Shutdown's own flush begins.
THEOREM UpdatesOrdered == Spec => []UpdateOrder
<1>1. DiskInv => UpdateOrder
  BY DEF DiskInv
<1> QED BY <1>1, InitDisk, StepDisk, PTL DEF Spec

\* In every execution a job's row is what the cache shows as soon as none of
\* its updates is pending, unless its last SaveJob failed, until Shutdown's
\* flush.
THEOREM RowsCatchUp == Spec => []UpdatesReachDisk
<1>1. DiskInv => UpdatesReachDisk
  BY DEF DiskInv
<1> QED BY <1>1, InitDisk, StepDisk, PTL DEF Spec
=============================================================================
