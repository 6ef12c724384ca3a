----------------------------- MODULE WorkerLife -----------------------------
(***************************************************************************)
(* The worker implements the life of a tweet (TweetLife): no tweet is in   *)
(* two places of the pipeline, taken up again once it is gone, or flagged  *)
(* twice, whatever the constants and whatever fails.                       *)
(***************************************************************************)
EXTENDS WorkerProofs

-----------------------------------------------------------------------------
(* The inductive invariant *)

Elems(q) == {q[k] : k \in DOMAIN q}
Once(q)  == \A k, l \in DOMAIN q : q[k] = q[l] => k = l

\* The tweets that wait for their score, and those still to be queued for it.
Waiting == Queued \cup InHand
Coming  == {i \in Items : \/ i \in Ahead
                          \/ upload[i.job] \in {"none", "sending"}
                          \/ i.job \in Elems(jobQueue)}

\* A job is queued once, and before jobLoop or tweetLoop have any of it.
JobQueuedOnce ==
    /\ Once(jobQueue)
    /\ \A j \in Elems(jobQueue) :
          /\ ~(jl.pc \in JobBusy /\ jl.job = j)
          /\ \A i \in Waiting : i.job # j

\* InFlightOnce alone is not inductive: a job queued twice would be parsed
\* twice.
PipeInv == TypeOK /\ OnlySentJobs /\ InFlightOnce /\ JobQueuedOnce

-----------------------------------------------------------------------------
(* Queues as sets *)

\* What is left when a queue's first entry is taken.
LEMMA TailElems ==
    ASSUME NEW S, NEW q \in Seq(S), q # <<>>
    PROVE  /\ Head(q) \in Elems(q)
           /\ Elems(q) = Elems(Tail(q)) \cup {Head(q)}
           /\ Once(q) => Once(Tail(q)) /\ Head(q) \notin Elems(Tail(q))
<1>1. /\ 1 \in DOMAIN q /\ Head(q) = q[1]
      /\ \A k \in DOMAIN Tail(q) : k \in Nat \ {0} /\ k + 1 \in DOMAIN q /\ Tail(q)[k] = q[k + 1]
      /\ \A k \in DOMAIN q : k = 1 \/ (k - 1 \in DOMAIN Tail(q) /\ q[k] = Tail(q)[k - 1])
  OBVIOUS
<1>2. Head(q) \in Elems(q)
  BY <1>1 DEF Elems
<1>3. ASSUME NEW x \in Elems(q) PROVE x \in Elems(Tail(q)) \cup {Head(q)}
  <2>1. PICK k \in DOMAIN q : x = q[k]
    BY DEF Elems
  <2> QED BY <1>1, <2>1 DEF Elems
<1>4. ASSUME NEW x \in Elems(Tail(q)) PROVE x \in Elems(q)
  <2>1. PICK k \in DOMAIN Tail(q) : x = Tail(q)[k]
    BY DEF Elems
  <2> QED BY <1>1, <2>1 DEF Elems
<1>5. ASSUME Once(q) PROVE Once(Tail(q)) /\ Head(q) \notin Elems(Tail(q))
  <2>1. \A k, l \in DOMAIN Tail(q) : Tail(q)[k] = Tail(q)[l] => k = l
    BY <1>1, <1>5 DEF Once
  <2>2. \A k \in DOMAIN Tail(q) : Tail(q)[k] # Head(q)
    BY <1>1, <1>5 DEF Once
  <2> QED BY <2>1, <2>2 DEF Once, Elems
<1> QED BY <1>2, <1>3, <1>4, <1>5

\* What a queue holds when an entry is added.
LEMMA AppendElems ==
    ASSUME NEW S, NEW q \in Seq(S), NEW x \in S
    PROVE  /\ Elems(Append(q, x)) = Elems(q) \cup {x}
           /\ Once(q) /\ x \notin Elems(q) => Once(Append(q, x))
<1>1. /\ \A k \in DOMAIN q : k \in DOMAIN Append(q, x) /\ Append(q, x)[k] = q[k]
      /\ Len(q) + 1 \in DOMAIN Append(q, x) /\ Append(q, x)[Len(q) + 1] = x
      /\ \A k \in DOMAIN Append(q, x) : k \in DOMAIN q \/ k = Len(q) + 1
  OBVIOUS
<1>2. Elems(Append(q, x)) = Elems(q) \cup {x}
  <2>1. ASSUME NEW y \in Elems(Append(q, x)) PROVE y \in Elems(q) \cup {x}
    BY <1>1 DEF Elems
  <2>2. ASSUME NEW y \in Elems(q) PROVE y \in Elems(Append(q, x))
    BY <1>1 DEF Elems
  <2>3. x \in Elems(Append(q, x))
    BY <1>1 DEF Elems
  <2> QED BY <2>1, <2>2, <2>3
<1>3. ASSUME Once(q), x \notin Elems(q), NEW k \in DOMAIN Append(q, x), NEW l \in DOMAIN Append(q, x),
             Append(q, x)[k] = Append(q, x)[l]
      PROVE  k = l
  BY <1>1, <1>3 DEF Once, Elems
<1> QED BY <1>2, <1>3 DEF Once

-----------------------------------------------------------------------------
(* What jobLoop has still to handle *)

\* An item is a job and a position.
LEMMA ItemShape == \A i \in Items : i = [job |-> i.job, pos |-> i.pos]
<1>1. ASSUME NEW i \in Items PROVE i = [job |-> i.job, pos |-> i.pos]
  <2>1. PICK j \in Job : i \in {[job |-> j, pos |-> p] : p \in DOMAIN Archive[j]}
    BY DEF Items
  <2>2. PICK p \in DOMAIN Archive[j] : i = [job |-> j, pos |-> p]
    BY <2>1
  <2> QED BY <2>2
<1> QED BY <1>1

\* processJob's share of a job changes only with its own state.
LEMMA AheadSame ==
    ASSUME TypeOK, jl.pc \in JobBusy, jl'.job = jl.job,
           \/ /\ jl.pc \in {"parse", "save"}
              /\ jl'.pc = "save" \/ (jl'.pc = "filter" /\ jl'.next = 1)
           \/ /\ jl.pc \in {"filter", "mark", "send"} /\ jl'.pc \in {"filter", "mark", "send"}
              /\ jl'.next = jl.next
    PROVE  Ahead' = Ahead
<1>1. \A i \in Items : i.pos >= 1
  BY ItemTypes
<1>2. jl'.pc \in JobBusy
  BY DEF JobBusy
<1>3. CASE jl.pc \in {"parse", "save"}
  BY <1>1, <1>2, <1>3 DEF Ahead
<1>4. CASE jl.pc \in {"filter", "mark", "send"}
  BY <1>2, <1>4 DEF Ahead
<1> QED BY <1>3, <1>4

\* The tweet at hand is the first of those ahead; the loop goes on without it.
LEMMA AheadNext ==
    ASSUME TypeOK, jl.pc \in {"filter", "mark", "send"}, AtTweet
    PROVE  /\ HandItem \in Items /\ HandItem.job = jl.job /\ HandItem \in Ahead
           /\ \A i \in Ahead : i.job = jl.job /\ i.pos >= HandItem.pos
           /\ NextTweet => Ahead' = Ahead \ {HandItem}
<1>1. jl.job \in Job /\ jl.next \in Nat \ {0} /\ jl.pc \in JobBusy
  BY DEF TypeOK, JobLoopOK, JobBusy
<1>2. HandItem \in Items /\ HandItem.job = jl.job /\ HandItem.pos = jl.next
  BY <1>1, ItemTypes DEF HandItem, AtTweet
<1>3. Ahead = {i \in Items : i.job = jl.job /\ i.pos >= jl.next}
  BY <1>1 DEF Ahead
<1>4. ASSUME NextTweet PROVE Ahead' = Ahead \ {HandItem}
  <2>1. Ahead' = {i \in Items : i.job = jl.job /\ i.pos >= jl.next + 1}
    BY <1>4 DEF NextTweet, Ahead, JobBusy
  <2>2. \A i \in Items : i.job = jl.job /\ i.pos = jl.next <=> i = HandItem
    BY ItemShape DEF HandItem
  <2>3. \A i \in Items : i.pos >= jl.next + 1 <=> i.pos >= jl.next /\ i.pos # jl.next
    BY <1>1, ItemTypes
  <2> QED BY <1>3, <2>1, <2>2, <2>3
<1>5. \A i \in Items : i.pos >= i.pos
  BY ItemTypes
<1> QED BY <1>2, <1>3, <1>4, <1>5

\* Nothing is ahead of a job that is not being enqueued.
LEMMA AheadNone == jl.pc \notin JobBusy => Ahead = {}
BY DEF Ahead

-----------------------------------------------------------------------------
(* The shapes of a step: what it does to the two sets *)

PipeOK == InFlightOnce /\ JobQueuedOnce
Kept   == Waiting' = Waiting /\ Coming' = Coming
Given  == Waiting' \subseteq Waiting /\ Coming' \subseteq Coming

\* An item is in one place at most.
LEMMA Apart ==
    ASSUME PipeInv
    PROVE  /\ Waiting \subseteq Items /\ Coming \subseteq Items /\ Ahead \subseteq Coming
           /\ \A i \in Waiting : upload[i.job] = "over" /\ i.job \in Job
           /\ Waiting \cap Coming = {}
           /\ jl.pc \in JobBusy => jl.job \notin Elems(jobQueue) /\ upload[jl.job] = "over"
<1>1. \A k \in DOMAIN tweetQueue : tweetQueue[k] \in Items
  BY DEF PipeInv, TypeOK, QueuesOK
<1>2. Waiting \subseteq Items
  BY <1>1 DEF Waiting, Queued, InHand, PipeInv, TypeOK, TweetLoopOK
<1>3. \A i \in Waiting : upload[i.job] = "over" /\ i.job \in Job
  BY <1>2, ItemTypes DEF Waiting, Queued, InHand, PipeInv, OnlySentJobs
<1>4. \A i \in Waiting : i \notin Ahead /\ i.job \notin Elems(jobQueue)
  BY DEF Waiting, PipeInv, InFlightOnce, JobQueuedOnce
<1>5. Coming \subseteq Items /\ Ahead \subseteq Coming
  BY DEF Coming, Ahead
<1>6. Waiting \cap Coming = {}
  BY <1>3, <1>4 DEF Coming
<1> QED BY <1>2, <1>3, <1>5, <1>6 DEF PipeInv, JobQueuedOnce, OnlySentJobs

\* Steps of jobLoop within one job.
LEMMA JobLoopWithin ==
    ASSUME PipeInv, UNCHANGED <<tweetQueue, tl, jobQueue, upload>>,
           Ahead' \subseteq Ahead,
           jl'.pc \in JobBusy => jl.pc \in JobBusy /\ jl'.job = jl.job
    PROVE  PipeOK' /\ Waiting' = Waiting /\ Coming' \subseteq Coming
<1>1. Queued' = Queued /\ InHand' = InHand /\ Waiting' = Waiting
  BY DEF Queued, InHand, Waiting
<1>2. InFlightOnce'
  BY <1>1 DEF PipeInv, InFlightOnce
<1>3. JobQueuedOnce'
  BY <1>1 DEF PipeInv, JobQueuedOnce
<1> QED BY <1>1, <1>2, <1>3 DEF PipeOK, Coming

\* ... that keep the tweets ahead, or have handled the one at hand.
LEMMA JobLoopHandles ==
    ASSUME PipeInv, UNCHANGED <<jobQueue, upload>>, jl.pc \in JobBusy
    PROVE  /\ Ahead' = Ahead => Coming' = Coming
           /\ \A x \in Items : x.job = jl.job /\ Ahead' = Ahead \ {x} => Coming' = Coming \ {x}
<1>1. jl.job \notin Elems(jobQueue) /\ upload[jl.job] = "over"
  BY Apart
<1>2. Ahead' = Ahead => Coming' = Coming
  BY DEF Coming
<1>3. ASSUME NEW x \in Items, x.job = jl.job, Ahead' = Ahead \ {x} PROVE Coming' = Coming \ {x}
  <2>1. x.job \notin Elems(jobQueue) /\ upload[x.job] = "over"
    BY <1>1, <1>3
  <2>2. ASSUME NEW i \in Items PROVE i \in Coming' <=> i \in Coming \ {x}
    BY <1>3, <2>1 DEF Coming
  <2> QED BY <2>2 DEF Coming
<1> QED BY <1>2, <1>3

\* Steps of tweetLoop: the queue only gets shorter, or takes back the tweet in hand.
LEMMA TweetLoopTakes ==
    ASSUME PipeInv, UNCHANGED <<jl, jobQueue, upload>>,
           Once(tweetQueue'), (Queued \cap InHand = {})', Waiting' \subseteq Waiting
    PROVE  PipeOK' /\ Coming' = Coming
<1>1. Ahead' = Ahead
  BY DEF Ahead
<1>2. InFlightOnce'
  BY <1>1 DEF PipeInv, InFlightOnce, Once, Waiting
<1>3. JobQueuedOnce'
  BY DEF PipeInv, JobQueuedOnce
<1> QED BY <1>1, <1>2, <1>3 DEF PipeOK, Coming

\* Steps that leave the pipeline alone.
LEMMA PipeUntouched ==
    ASSUME PipeInv, UNCHANGED <<tweetQueue, tl, jl, jobQueue, upload>>
    PROVE  PipeOK' /\ Kept
<1>1. Queued' = Queued /\ InHand' = InHand /\ Ahead' = Ahead /\ Waiting' = Waiting
  BY DEF Queued, InHand, Ahead, Waiting
<1>2. InFlightOnce'
  BY <1>1 DEF PipeInv, InFlightOnce
<1>3. JobQueuedOnce' /\ Coming' = Coming
  BY <1>1 DEF PipeInv, JobQueuedOnce, Coming
<1> QED BY <1>1, <1>2, <1>3 DEF PipeOK, Kept

-----------------------------------------------------------------------------
(* The life of a tweet *)

\* A flagged tweet is gone, unless the loop that flagged it still has it.
JustFlagged(i) == \/ tl.pc \in {"checking", "marking"} /\ tl.item = i
                  \/ jl.pc = "mark" /\ i = HandItem
FlaggedOnce ==
    \A i \in Items : flagged[i] # 0 => i \notin Waiting \cup Coming \/ JustFlagged(i)

LifeInv == PipeInv /\ FlaggedOnce

\* What a step may do to the two sets and the tables, as TweetLife sees it.
Queues(i) ==
    /\ i \in Coming
    /\ \A k \in Items : k.job = i.job /\ k.pos < i.pos => k \notin Coming
    /\ Waiting' = Waiting \cup {i} /\ Coming' = Coming \ {i}
    /\ UNCHANGED <<flagged, processed>>
Flags(i) ==
    /\ i \in Waiting \cup Coming
    /\ flagged[i] = 0 /\ flagged' = [flagged EXCEPT ![i] = 1]
    /\ Kept /\ UNCHANGED processed
Finishes(i) ==
    /\ i \in Waiting \cup Coming
    /\ Waiting' = Waiting \ {i} /\ Coming' = Coming \ {i}
    /\ processed' = processed \cup {Key(i)} /\ UNCHANGED flagged
LifeMove ==
    \/ Given /\ UNCHANGED <<flagged, processed>>
    \/ \E i \in Items : Queues(i) \/ Flags(i) \/ Finishes(i)

\* The two sets are the stages of TweetLife.
stage == [i \in Items |-> Stage(i)]
StagesRight ==
    /\ Waiting \cap Coming = {}
    /\ \A i \in Items : /\ i \in Waiting => stage[i] = "waiting"
                        /\ i \in Coming => stage[i] = "coming"
                        /\ i \notin Waiting \cup Coming => stage[i] = "gone"

\* The stages of TweetLife are told by where an item is.
LEMMA StageIs == PipeInv => StagesRight
<1> SUFFICES ASSUME PipeInv PROVE StagesRight
  OBVIOUS
<1>1. Waiting \cap Coming = {}
  BY Apart
<1>2. ASSUME NEW i \in Items
      PROVE  /\ i \in Waiting => Stage(i) = "waiting"
             /\ i \in Coming => Stage(i) = "coming"
             /\ i \notin Waiting \cup Coming => Stage(i) = "gone"
  <2>1. i \in Coming <=> \/ i \in Ahead
                         \/ upload[i.job] \in {"none", "sending"}
                         \/ \E k \in DOMAIN jobQueue : jobQueue[k] = i.job
    BY DEF Coming, Elems
  <2>2. i \in Waiting <=> i \in Queued \cup InHand
    BY DEF Waiting
  <2>3. CASE i \in Waiting
    BY <1>1, <2>1, <2>2, <2>3 DEF Stage
  <2>4. CASE i \in Coming
    BY <1>1, <2>1, <2>2, <2>4 DEF Stage
  <2>5. CASE i \notin Waiting \cup Coming
    BY <2>1, <2>2, <2>5 DEF Stage
  <2> QED BY <1>1, <2>3, <2>4, <2>5
<1>3. \A i \in Items : stage[i] = Stage(i)
  BY DEF stage
<1> QED BY <1>1, <1>2, <1>3 DEF StagesRight

\* A move of one item is a step of TweetLife.
LEMMA MoveIsLife ==
    ASSUME StagesRight, StagesRight', flagged \in [Items -> Nat], LifeMove
    PROVE  Life!LifeNext
<1>1. /\ stage' \in [Items -> {"coming", "waiting", "gone"}] /\ DOMAIN stage = Items
      /\ DOMAIN stage' = Items
  <2>1. DOMAIN stage = Items /\ DOMAIN stage' = Items /\ stage' = [i \in Items |-> stage'[i]]
    BY DEF stage
  <2>2. \A i \in Items : stage'[i] \in {"coming", "waiting", "gone"}
    BY DEF StagesRight
  <2> QED BY <2>1, <2>2
<1>2. CASE Given /\ UNCHANGED <<flagged, processed>>
  <2>1. \A i \in Items : stage'[i] \in {stage[i], "gone"}
    BY <1>2 DEF Given, StagesRight
  <2>2. Life!Lose
    BY <1>1, <1>2, <2>1 DEF Life!Lose, Life!Stages, stage
  <2> QED BY <2>2 DEF Life!LifeNext
<1>3. ASSUME NEW i \in Items, Queues(i) PROVE Life!QueueForGemini(i)
  <2>1. stage[i] = "coming" /\ stage'[i] = "waiting"
    BY <1>3 DEF Queues, StagesRight
  <2>2. \A k \in Items : k # i => stage'[k] = stage[k]
    BY <1>3 DEF Queues, StagesRight
  <2>3. stage' = [stage EXCEPT ![i] = "waiting"]
    BY <1>1, <2>1, <2>2 DEF stage
  <2>4. \A k \in Life!Before(i) : stage[k] # "coming"
    BY <1>3 DEF Queues, StagesRight, Life!Before
  <2> QED BY <1>3, <2>1, <2>3, <2>4 DEF Life!QueueForGemini, Queues, stage
<1>4. ASSUME NEW i \in Items, Flags(i) PROVE Life!Flag(i)
  <2>1. \A k \in Items : stage'[k] = stage[k]
    BY <1>4 DEF Flags, Kept, StagesRight
  <2>2. stage' = stage
    BY <1>1, <2>1 DEF stage
  <2>3. stage[i] # "gone"
    BY <1>4 DEF Flags, StagesRight
  <2> QED BY <1>4, <2>2, <2>3 DEF Life!Flag, Flags, stage
<1>5. ASSUME NEW i \in Items, Finishes(i) PROVE Life!Finish(i)
  <2>1. stage[i] # "gone" /\ stage'[i] = "gone"
    BY <1>5 DEF Finishes, StagesRight
  <2>2. \A k \in Items : k # i => stage'[k] = stage[k]
    BY <1>5 DEF Finishes, StagesRight
  <2>3. stage' = [stage EXCEPT ![i] = "gone"]
    BY <1>1, <2>1, <2>2 DEF stage
  <2> QED BY <1>5, <2>1, <2>3 DEF Life!Finish, Finishes, stage
<1> QED BY <1>2, <1>3, <1>4, <1>5 DEF LifeMove, Life!LifeNext

-----------------------------------------------------------------------------
(* Flagged at most once *)

\* A flagged tweet stays flagged, gone or in the hands of its loop.
LEMMA FlaggedKept ==
    ASSUME FlaggedOnce, UNCHANGED flagged, (Waiting \cup Coming)' \subseteq Waiting \cup Coming,
           \A i \in Items : JustFlagged(i) => JustFlagged(i)' \/ i \notin (Waiting \cup Coming)'
    PROVE  FlaggedOnce'
BY DEF FlaggedOnce

\* The loop that has a tweet in its hands flags it.
LEMMA FlagsOnce ==
    ASSUME TypeOK, FlaggedOnce, NEW x \in Items, Kept, UNCHANGED processed,
           x \in Waiting \cup Coming, ~JustFlagged(x), JustFlagged(x)',
           flagged' = [flagged EXCEPT ![x] = @ + 1],
           \A i \in Items : JustFlagged(i) => JustFlagged(i)'
    PROVE  FlaggedOnce' /\ LifeMove
<1>0. flagged[x] = 0
  BY DEF FlaggedOnce
<1>1. flagged[x] = 0 /\ flagged' = [flagged EXCEPT ![x] = 1]
  BY <1>0
<1>2. LifeMove
  BY <1>1 DEF LifeMove, Flags
<1>3. FlaggedOnce'
  BY <1>1 DEF FlaggedOnce, Kept, TypeOK, TablesOK
<1> QED BY <1>2, <1>3

-----------------------------------------------------------------------------
(* The steps, one lemma for each goroutine *)

LifeStep == PipeOK' /\ LifeMove /\ FlaggedOnce'

\* Steps that change no table and give up at most some tweets.
LEMMA GivesUp ==
    ASSUME LifeInv, PipeOK', Given, UNCHANGED <<flagged, processed>>,
           tl' = tl \/ tl.pc \notin {"checking", "marking"},
           jl' = jl \/ jl.pc # "mark"
    PROVE  LifeStep
<1>1. LifeMove
  BY DEF LifeMove
<1>2. FlaggedOnce'
  BY FlaggedKept DEF LifeInv, Given, JustFlagged, HandItem
<1> QED BY <1>1, <1>2 DEF LifeStep

\* Steps that leave the pipeline alone.
LEMMA LifeUntouched ==
    ASSUME LifeInv, UNCHANGED <<tweetQueue, tl, jl, jobQueue, upload, flagged, processed>>
    PROVE  LifeStep
BY PipeUntouched, GivesUp DEF LifeInv, Kept, Given

\* Upload and status handlers.
LEMMA HandlersLife ==
    ASSUME LifeInv, Handlers
    PROVE  LifeStep
<1>1. ASSUME NEW j \in Job, NEW ok \in BOOLEAN, EnqueueParse(j, ok) PROVE LifeStep
  <2>1. /\ upload[j] = "none" /\ upload' = [upload EXCEPT ![j] = "sending"]
        /\ UNCHANGED <<jobQueue, tweetQueue, jl, tl, flagged, processed>>
    BY <1>1 DEF EnqueueParse, queues
  <2>2. Queued' = Queued /\ InHand' = InHand /\ Ahead' = Ahead /\ Waiting' = Waiting
    BY <2>1 DEF Queued, InHand, Ahead, Waiting
  <2>3. PipeOK'
    BY <2>1, <2>2 DEF LifeInv, PipeInv, PipeOK, InFlightOnce, JobQueuedOnce
  <2>4. \A k \in Job : upload[k] \in {"none", "sending"} <=> upload'[k] \in {"none", "sending"}
    BY <2>1 DEF LifeInv, PipeInv, TypeOK, ProcessOK
  <2>5. Coming' = Coming
    BY <2>1, <2>2, <2>4, ItemTypes DEF Coming
  <2> QED BY <2>1, <2>2, <2>3, <2>5, GivesUp DEF Given
<1>2. ASSUME NEW j \in Job, SendJob(j) PROVE LifeStep
  <2>1. /\ upload[j] = "sending" /\ upload' = [upload EXCEPT ![j] = "over"]
        /\ jobQueue' = Append(jobQueue, j)
        /\ UNCHANGED <<tweetQueue, jl, tl, flagged, processed>>
    BY <1>2 DEF SendJob, Answer, tables
  <2>2. Queued' = Queued /\ InHand' = InHand /\ Ahead' = Ahead /\ Waiting' = Waiting
    BY <2>1 DEF Queued, InHand, Ahead, Waiting
  <2>3. InFlightOnce'
    BY <2>1, <2>2 DEF LifeInv, PipeInv, InFlightOnce
  <2>4. j \notin Elems(jobQueue)
    BY <2>1 DEF LifeInv, PipeInv, OnlySentJobs, Elems
  <2>5. Elems(jobQueue') = Elems(jobQueue) \cup {j} /\ Once(jobQueue')
    BY <2>1, <2>4, AppendElems DEF LifeInv, PipeInv, TypeOK, QueuesOK, JobQueuedOnce
  <2>6. ~(jl.pc \in JobBusy /\ jl.job = j) /\ \A i \in Waiting : i.job # j
    BY <2>1, Apart DEF LifeInv
  <2>7. JobQueuedOnce'
    BY <2>1, <2>2, <2>5, <2>6 DEF LifeInv, PipeInv, JobQueuedOnce
  <2>8. Coming' = Coming
    <3>1. \A k \in Job : upload'[k] \in {"none", "sending"} \/ k \in Elems(jobQueue')
                     <=> upload[k] \in {"none", "sending"} \/ k \in Elems(jobQueue)
      BY <2>1, <2>5 DEF LifeInv, PipeInv, TypeOK, ProcessOK
    <3> QED BY <2>2, <3>1, ItemTypes DEF Coming
  <2> QED BY <2>1, <2>2, <2>3, <2>7, <2>8, GivesUp DEF Given, PipeOK
<1>3. ASSUME NEW j \in Job, GetJob(j) PROVE LifeStep
  BY <1>3, LifeUntouched DEF GetJob, tables, queues
<1> QED BY <1>1, <1>2, <1>3 DEF Handlers

\* The ticker, main, a midnight.
LEMMA ProcessLife ==
    ASSUME LifeInv, Ticker \/ Main \/ NewDay
    PROVE  LifeStep
<1>1. UNCHANGED <<tweetQueue, tl, jl, jobQueue, upload, flagged, processed>>
  BY DEF Ticker, Main, NewDay, SaveJob, Tick, LastTick, TickDone, Signal, HttpDrained, HttpTimeout,
         WorkersDone, Exit, ShutdownTimeout, MainOnly, tables, queues
<1> QED BY <1>1, LifeUntouched

\* A restart empties the pipeline; only uploads yet to come are still to come.
LEMMA RestartLife ==
    ASSUME LifeInv, Restart
    PROVE  LifeStep
<1>1. /\ jobQueue' = <<>> /\ tweetQueue' = <<>>
      /\ jl'.pc \notin JobBusy /\ tl'.pc \notin TweetBusy
      /\ upload' = [j \in Job |-> IF upload[j] = "sending" THEN "over" ELSE upload[j]]
      /\ UNCHANGED <<flagged, processed>>
  BY DEF Restart, resumePendingJobs, JobIdle, TweetIdle, JobBusy, TweetBusy, tables
<1>2. Queued' = {} /\ InHand' = {} /\ Ahead' = {} /\ Waiting' = {} /\ Elems(jobQueue') = {}
  BY <1>1 DEF Queued, InHand, Ahead, Waiting, Elems
<1>3. PipeOK'
  BY <1>1, <1>2 DEF PipeOK, InFlightOnce, JobQueuedOnce, Once
<1>4. \A i \in Coming' : i \in Items /\ i.job \in Job /\ upload[i.job] = "none"
  BY <1>1, <1>2, ItemTypes DEF Coming, LifeInv, PipeInv, TypeOK, ProcessOK
<1>5. Given
  BY <1>2, <1>4 DEF Given, Coming
<1>6. \A i \in Items : JustFlagged(i) => upload[i.job] = "over"
  BY DEF JustFlagged, HandItem, LifeInv, PipeInv, OnlySentJobs, JobBusy, TweetBusy
<1>7. FlaggedOnce'
  BY <1>1, <1>2, <1>4, <1>5, <1>6, FlaggedKept DEF LifeInv, Given
<1> QED BY <1>1, <1>3, <1>5, <1>7 DEF LifeStep, LifeMove

\* Steps of jobLoop within one job that give up at most the rest of it.
LEMMA WithinLife ==
    ASSUME LifeInv, UNCHANGED <<tweetQueue, tl, jobQueue, upload, flagged, processed>>,
           Ahead' \subseteq Ahead, jl.pc # "mark",
           jl'.pc \in JobBusy => jl.pc \in JobBusy /\ jl'.job = jl.job
    PROVE  LifeStep
BY JobLoopWithin, GivesUp DEF LifeInv, Given

\* jobLoop.
LEMMA JobLoopLife ==
    ASSUME LifeInv, JobLoop
    PROVE  LifeStep
<1> USE DEF LifeInv, PipeInv
<1>1. ASSUME NEW ok \in BOOLEAN, JobNotFound(ok) PROVE LifeStep
  <2>1. /\ jobQueue # <<>> /\ jobQueue' = Tail(jobQueue) /\ jobQueue \in Seq(Job)
        /\ UNCHANGED <<tweetQueue, jl, tl, upload, flagged, processed>>
    BY <1>1 DEF JobNotFound, tables, TypeOK, QueuesOK
  <2>2. Queued' = Queued /\ InHand' = InHand /\ Ahead' = Ahead /\ Waiting' = Waiting
    BY <2>1 DEF Queued, InHand, Ahead, Waiting
  <2>3. Elems(jobQueue') \subseteq Elems(jobQueue) /\ Once(jobQueue')
    BY <2>1, TailElems DEF JobQueuedOnce
  <2>4. PipeOK'
    BY <2>1, <2>2, <2>3 DEF PipeOK, InFlightOnce, JobQueuedOnce
  <2>5. Coming' \subseteq Coming
    BY <2>1, <2>2, <2>3 DEF Coming
  <2> QED BY <2>1, <2>2, <2>4, <2>5, GivesUp DEF Given
<1>2. ASSUME StartJob PROVE LifeStep
  <2> DEFINE j == Head(jobQueue)
  <2>1. /\ jobQueue # <<>> /\ jobQueue' = Tail(jobQueue) /\ jobQueue \in Seq(Job)
        /\ jl.pc = "idle" /\ jl'.pc = "parse" /\ jl'.job = j
        /\ UNCHANGED <<tweetQueue, tl, upload, flagged, processed>>
    BY <1>2 DEF StartJob, tables, TypeOK, QueuesOK
  <2>2. Queued' = Queued /\ InHand' = InHand /\ Waiting' = Waiting
    BY <2>1 DEF Queued, InHand, Waiting
  <2>3. /\ Elems(jobQueue) = Elems(jobQueue') \cup {j}
        /\ Once(jobQueue') /\ j \notin Elems(jobQueue')
    BY <2>1, TailElems DEF JobQueuedOnce
  <2> HIDE DEF j
  <2>4. Ahead' = {i \in Items : i.job = j} /\ Ahead = {}
    BY <2>1 DEF Ahead, JobBusy
  <2>5. \A i \in Waiting : i.job # j
    BY <2>3 DEF JobQueuedOnce
  <2>6. InFlightOnce'
    BY <2>1, <2>2, <2>4, <2>5 DEF InFlightOnce, Waiting
  <2>7. JobQueuedOnce'
    BY <2>1, <2>2, <2>3 DEF JobQueuedOnce
  <2>8. Coming' = Coming
    BY <2>1, <2>3, <2>4 DEF Coming
  <2> QED BY <2>1, <2>2, <2>6, <2>7, <2>8, GivesUp DEF Given, PipeOK
<1>3. ASSUME ParseFails \/ EndJob PROVE LifeStep
  <2>1. jl'.pc \notin JobBusy /\ jl.pc # "mark"
    BY <1>3 DEF ParseFails, EndJob, AfterFailure, JobIdle, JobBusy
  <2>2. Ahead' = {}
    BY <2>1 DEF Ahead
  <2>3. UNCHANGED <<tweetQueue, tl, jobQueue, upload, flagged, processed>>
    BY <1>3 DEF ParseFails, EndJob, tables, queues
  <2> QED BY <2>1, <2>2, <2>3, WithinLife
<1>4. ASSUME ParseArchive PROVE LifeStep
  <2>1. jl.pc = "parse" /\ jl'.pc = "save" /\ jl'.job = jl.job
    BY <1>4 DEF ParseArchive, TypeOK, JobLoopOK
  <2>2. UNCHANGED <<tweetQueue, tl, jobQueue, upload, flagged, processed>>
    BY <1>4 DEF ParseArchive, tables, queues
  <2>3. jl.pc \in JobBusy /\ Ahead' = Ahead
    BY <2>1, AheadSame DEF JobBusy
  <2> QED BY <2>1, <2>2, <2>3, WithinLife
<1>5. ASSUME NEW ok \in BOOLEAN, SaveTweet(ok) PROVE LifeStep
  <2>1. jl.pc = "save" /\ jl'.pc = "save" /\ jl'.job = jl.job
    BY <1>5 DEF SaveTweet, TypeOK, JobLoopOK
  <2>2. UNCHANGED <<tweetQueue, tl, jobQueue, upload, flagged, processed>>
    BY <1>5 DEF SaveTweet, queues
  <2>3. jl.pc \in JobBusy /\ Ahead' = Ahead
    BY <2>1, AheadSame DEF JobBusy
  <2> QED BY <2>1, <2>2, <2>3, WithinLife
<1>6. ASSUME TweetsSaved PROVE LifeStep
  <2>1. jl.pc = "save" /\ jl'.pc = "filter" /\ jl'.job = jl.job /\ jl'.next = 1
    BY <1>6 DEF TweetsSaved
  <2>2. UNCHANGED <<tweetQueue, tl, jobQueue, upload, flagged, processed>>
    BY <1>6 DEF TweetsSaved, tables, queues
  <2>3. jl.pc \in JobBusy /\ Ahead' = Ahead
    BY <2>1, AheadSame DEF JobBusy
  <2> QED BY <2>1, <2>2, <2>3, WithinLife
<1>7. ASSUME NEW ok \in BOOLEAN, FlagTweet(ok) PROVE LifeStep
  <2>1. /\ jl.pc = "filter" /\ jl'.pc = "mark" /\ jl'.job = jl.job /\ jl'.next = jl.next
        /\ AtTweet
        /\ UNCHANGED <<tweetQueue, tl, jobQueue, upload, processed>>
        /\ flagged' = IF ok THEN [flagged EXCEPT ![HandItem] = @ + 1] ELSE flagged
    BY <1>7 DEF FlagTweet, Filtering, queues, TypeOK, JobLoopOK
  <2>2. jl.pc \in JobBusy /\ jl'.pc \in JobBusy /\ Ahead' = Ahead
    BY <2>1, AheadSame DEF JobBusy
  <2>3. CASE flagged' = flagged
    BY <2>1, <2>2, <2>3, WithinLife
  <2>4. CASE flagged' = [flagged EXCEPT ![HandItem] = @ + 1]
    <3>1. HandItem \in Items /\ HandItem \in Coming /\ HandItem' = HandItem
      BY <2>1, AheadNext, Apart DEF HandItem
    <3>2. PipeOK' /\ Kept
      BY <2>1, <2>2, JobLoopWithin, JobLoopHandles DEF Kept
    <3>3. ~JustFlagged(HandItem)
      BY <2>1, <3>1, Apart DEF JustFlagged, InHand, Waiting, TweetBusy
    <3>4. JustFlagged(HandItem)' /\ \A i \in Items : JustFlagged(i) => JustFlagged(i)'
      BY <2>1, <3>1 DEF JustFlagged
    <3> QED BY <2>1, <2>4, <3>1, <3>2, <3>3, <3>4, FlagsOnce DEF LifeStep
  <2> QED BY <2>1, <2>3, <2>4
<1>8. ASSUME NEW ok \in BOOLEAN, MarkFlagged(ok) PROVE LifeStep
  <2>1. /\ jl.pc = "mark" /\ NextTweet /\ AtTweet
        /\ jl'.pc = "filter" /\ jl'.job = jl.job
        /\ UNCHANGED <<tweetQueue, tl, jobQueue, upload, flagged>>
        /\ processed' = IF ok THEN Marked(processed, HandItem) ELSE processed
    BY <1>8 DEF MarkFlagged, NextTweet, AtTweet, queues, TypeOK, JobLoopOK
  <2>2. /\ HandItem \in Items /\ HandItem.job = jl.job /\ HandItem \in Coming
        /\ Ahead' = Ahead \ {HandItem}
    BY <2>1, AheadNext, Apart
  <2>3. PipeOK' /\ Waiting' = Waiting /\ Coming' = Coming \ {HandItem}
    BY <2>1, <2>2, JobLoopWithin, JobLoopHandles DEF JobBusy
  <2>4. HandItem \notin Waiting
    BY <2>2, Apart
  <2>5. LifeMove
    <3>1. processed' = processed \/ processed' = processed \cup {Key(HandItem)}
      BY <2>1 DEF Marked
    <3>2. CASE processed' = processed
      BY <2>1, <2>3, <3>2 DEF LifeMove, Given
    <3>3. CASE processed' = processed \cup {Key(HandItem)}
      BY <2>1, <2>2, <2>3, <2>4, <3>3 DEF LifeMove, Finishes
    <3> QED BY <3>1, <3>2, <3>3
  <2>6. \A i \in Items : JustFlagged(i) => JustFlagged(i)' \/ i \notin (Waiting \cup Coming)'
    BY <2>1, <2>3, <2>4 DEF JustFlagged
  <2>7. FlaggedOnce'
    BY <2>1, <2>3, <2>6, FlaggedKept
  <2> QED BY <2>3, <2>5, <2>7 DEF LifeStep
<1>9. ASSUME NEW ok \in BOOLEAN, MarkTweet(ok) PROVE LifeStep
  <2>1. /\ jl.pc = "filter" /\ AtTweet /\ jl'.job = jl.job
        /\ NextTweet \/ (jl'.pc = "send" /\ jl'.next = jl.next)
        /\ UNCHANGED <<tweetQueue, tl, jobQueue, upload, flagged, processed>>
    BY <1>9 DEF MarkTweet, Filtering, NextTweet, queues, TypeOK, JobLoopOK
  <2>2. jl.pc \in JobBusy /\ Ahead' \subseteq Ahead
    BY <2>1, AheadSame, AheadNext DEF JobBusy
  <2> QED BY <2>1, <2>2, WithinLife
<1>10. ASSUME QueueTweet PROVE LifeStep
  <2>1. /\ jl.pc = "send" /\ NextTweet /\ AtTweet
        /\ jl'.pc = "filter" /\ jl'.job = jl.job
        /\ tweetQueue' = Append(tweetQueue, HandItem) /\ tweetQueue \in Seq(Items)
        /\ UNCHANGED <<tl, jobQueue, upload, flagged, processed>>
    BY <1>10 DEF QueueTweet, Send, NextTweet, AtTweet, tables, TypeOK, JobLoopOK, QueuesOK
  <2>2. /\ HandItem \in Items /\ HandItem.job = jl.job /\ HandItem \in Ahead
        /\ HandItem \in Coming /\ Ahead' = Ahead \ {HandItem}
        /\ \A i \in Ahead : i.job = jl.job /\ i.pos >= HandItem.pos
    BY <2>1, AheadNext, Apart
  <2>3. HandItem \notin Waiting
    BY <2>2, Apart
  <2>4. Queued' = Queued \cup {HandItem} /\ Once(tweetQueue')
    BY <2>1, <2>2, <2>3, AppendElems DEF Queued, Waiting, Elems, InFlightOnce, Once
  <2>5. InHand' = InHand /\ Waiting' = Waiting \cup {HandItem}
    BY <2>1, <2>4 DEF InHand, Waiting
  <2>6. InFlightOnce'
    BY <2>2, <2>3, <2>4, <2>5 DEF InFlightOnce, Once, Waiting
  <2>7. jl.pc \in JobBusy /\ jl'.pc \in JobBusy
    BY <2>1 DEF JobBusy
  <2>8. JobQueuedOnce'
    BY <2>1, <2>2, <2>5, <2>7 DEF JobQueuedOnce
  <2>9. Coming' = Coming \ {HandItem}
    BY <2>1, <2>2, <2>7, JobLoopHandles
  <2>10. \A k \in Items : k.job = HandItem.job /\ k.pos < HandItem.pos => k \notin Coming
    <3>1. jl.job \notin Elems(jobQueue) /\ upload[jl.job] = "over"
      BY <2>7, Apart
    <3>2. \A k \in Items : k.pos < HandItem.pos => k \notin Ahead
      BY <2>2, ItemTypes
    <3> QED BY <2>2, <3>1, <3>2 DEF Coming
  <2>11. LifeMove
    BY <2>1, <2>2, <2>5, <2>9, <2>10 DEF LifeMove, Queues
  <2>12. FlaggedOnce'
    BY <2>1, <2>2, <2>5, <2>9, FlaggedKept DEF JustFlagged
  <2> QED BY <2>6, <2>8, <2>11, <2>12 DEF LifeStep, PipeOK
<1>11. ASSUME JobLoopStops PROVE LifeStep
  <2>1. jl'.pc \notin JobBusy /\ jl.pc \notin JobBusy
    BY <1>11 DEF JobLoopStops, JobIdle, JobBusy
  <2>2. Ahead' = {} /\ jl.pc # "mark"
    BY <2>1 DEF Ahead, JobBusy
  <2>3. UNCHANGED <<tweetQueue, tl, jobQueue, upload, flagged, processed>>
    BY <1>11 DEF JobLoopStops, tables, queues
  <2> QED BY <2>1, <2>2, <2>3, WithinLife
<1> QED
  BY <1>1, <1>2, <1>3, <1>4, <1>5, <1>6, <1>7, <1>8, <1>9, <1>10, <1>11 DEF JobLoop

\* Taking a tweet from the queue leaves every other where it is.
LEMMA TakeTweet ==
    ASSUME LifeInv, tweetQueue # <<>>, tweetQueue' = Tail(tweetQueue),
           UNCHANGED <<jl, jobQueue, upload>>, tl.pc = "idle",
           tl' = tl \/ tl'.item = Head(tweetQueue)
    PROVE  /\ PipeOK' /\ Given
           /\ (tl' # tl /\ tl'.pc \in TweetBusy) => Kept
<1> USE DEF LifeInv, PipeInv
<1>1. tweetQueue \in Seq(Items)
  BY DEF TypeOK, QueuesOK
<1>2. /\ Queued = Queued' \cup {Head(tweetQueue)} /\ Head(tweetQueue) \notin Queued'
      /\ Once(tweetQueue')
  BY <1>1, TailElems DEF Queued, Elems, InFlightOnce, Once
<1>3. InHand = {} /\ InHand' \subseteq {Head(tweetQueue)}
  BY DEF InHand, TweetBusy
<1>4. Waiting' \subseteq Waiting
  BY <1>2, <1>3 DEF Waiting
<1>5. (Queued \cap InHand = {})'
  BY <1>2, <1>3
<1>6. PipeOK' /\ Coming' = Coming
  BY <1>2, <1>4, <1>5, TweetLoopTakes
<1>7. ASSUME tl' # tl, tl'.pc \in TweetBusy PROVE Waiting' = Waiting
  BY <1>2, <1>3, <1>7 DEF Waiting, InHand
<1> QED BY <1>4, <1>6, <1>7 DEF Given, Kept

\* Steps of tweetLoop with a tweet in hand that is not flagged yet.
LEMMA InHandLife ==
    ASSUME LifeInv, UNCHANGED <<jl, jobQueue, upload, tweetQueue, flagged, processed>>,
           tl.pc \in TweetBusy, tl'.pc \in TweetBusy, tl'.item = tl.item,
           tl.pc \in {"checking", "marking"} => tl'.pc \in {"checking", "marking"}
    PROVE  LifeStep
<1> USE DEF LifeInv, PipeInv
<1>1. Queued' = Queued /\ InHand' = InHand /\ Waiting' = Waiting
  BY DEF Queued, InHand, Waiting
<1>2. PipeOK' /\ Coming' = Coming
  BY <1>1, TweetLoopTakes DEF InFlightOnce, Once
<1>3. LifeMove
  BY <1>1, <1>2 DEF LifeMove, Given
<1>4. FlaggedOnce'
  BY <1>1, <1>2, FlaggedKept DEF JustFlagged, HandItem
<1> QED BY <1>2, <1>3, <1>4 DEF LifeStep

\* tweetLoop.
LEMMA TweetLoopLife ==
    ASSUME LifeInv, TweetLoop
    PROVE  LifeStep
<1> USE DEF LifeInv, PipeInv
<1>1. ASSUME PauseForQuota \/ \E ok \in BOOLEAN : DropTweet(ok) PROVE LifeStep
  <2>1. /\ tweetQueue # <<>> /\ tweetQueue' = Tail(tweetQueue) /\ tl.pc = "idle"
        /\ UNCHANGED <<jl, jobQueue, upload, tl, flagged, processed>>
    BY <1>1 DEF PauseForQuota, DropTweet, tables
  <2> QED BY <2>1, TakeTweet, GivesUp
<1>2. ASSUME NEW ok \in BOOLEAN, StartScore(ok) PROVE LifeStep
  <2>1. /\ tweetQueue # <<>> /\ tweetQueue' = Tail(tweetQueue) /\ tl.pc = "idle"
        /\ tl'.item = Head(tweetQueue)
        /\ UNCHANGED <<jl, jobQueue, upload, flagged, processed>>
    BY <1>2 DEF StartScore, tables
  <2> QED BY <2>1, TakeTweet, GivesUp
<1>3. ASSUME NEW hit \in BOOLEAN, NEW ok \in BOOLEAN, ScoreSucceeds(hit, ok) PROVE LifeStep
  <2>1. /\ tl.pc = "scoring" /\ tl'.pc = "recording" /\ tl'.item = tl.item
        /\ UNCHANGED <<jl, jobQueue, upload, tweetQueue, flagged, processed>>
    BY <1>3 DEF ScoreSucceeds, queues
  <2> QED BY <2>1, InHandLife DEF TweetBusy
<1>4. ASSUME NEW ok \in BOOLEAN, RecordScore(ok) PROVE LifeStep
  <2>1. /\ tl.pc = "recording" /\ tl'.pc = "checking" /\ tl'.item = tl.item
        /\ UNCHANGED <<jl, jobQueue, upload, tweetQueue, processed>>
        /\ flagged' = flagged \/ flagged' = [flagged EXCEPT ![tl.item] = @ + 1]
    BY <1>4 DEF RecordScore, queues
  <2>2. CASE flagged' = flagged
    BY <2>1, <2>2, InHandLife DEF TweetBusy
  <2>3. CASE flagged' = [flagged EXCEPT ![tl.item] = @ + 1]
    <3>1. Queued' = Queued /\ InHand' = InHand /\ InHand = {tl.item} /\ Waiting' = Waiting
      BY <2>1 DEF Queued, InHand, Waiting, TweetBusy
    <3>2. PipeOK' /\ Kept
      BY <2>1, <3>1, TweetLoopTakes DEF InFlightOnce, Once, Kept
    <3>3. tl.item \in Items /\ tl.item \in Waiting /\ tl.item \notin Ahead
      BY <2>1, <3>1, Apart DEF Waiting
    <3>4. ~JustFlagged(tl.item)
      <4>1. jl.pc = "mark" => HandItem \in Ahead
        BY AheadNext DEF TypeOK, JobLoopOK, AtTweet
      <4> QED BY <2>1, <3>3, <4>1 DEF JustFlagged
    <3>5. JustFlagged(tl.item)' /\ \A i \in Items : JustFlagged(i) => JustFlagged(i)'
      BY <2>1 DEF JustFlagged, HandItem
    <3> QED BY <2>1, <2>3, <3>2, <3>3, <3>4, <3>5, FlagsOnce DEF LifeStep
  <2> QED BY <2>1, <2>2, <2>3
<1>5. ASSUME CheckDone \/ ScoreFails \/ QuotaExceeded \/ WakeUp PROVE LifeStep
  <2>1. UNCHANGED <<jl, jobQueue, upload, tweetQueue, flagged, processed>>
    BY <1>5 DEF CheckDone, ScoreFails, QuotaExceeded, WakeUp, queues, tables
  <2>2. tl.pc \in TweetBusy /\ tl'.pc \in TweetBusy /\ tl'.item = tl.item
    BY <1>5 DEF CheckDone, ScoreFails, MarkAnyway, QuotaExceeded, WakeUp, TweetBusy, TypeOK, TweetLoopOK
  <2>3. tl.pc \in {"checking", "marking"} => tl'.pc \in {"checking", "marking"}
    BY <1>5 DEF CheckDone, ScoreFails, MarkAnyway, QuotaExceeded, WakeUp, TypeOK, TweetLoopOK
  <2> QED BY <2>1, <2>2, <2>3, InHandLife
<1>6. ASSUME NEW ok \in BOOLEAN, MarkProcessed(ok) PROVE LifeStep
  <2>1. /\ tl.pc = "marking" /\ tl'.pc = "idle" /\ tl.item \in Items
        /\ UNCHANGED <<jl, jobQueue, upload, tweetQueue, flagged>>
        /\ processed' = IF ok THEN Marked(processed, tl.item) ELSE processed
    BY <1>6 DEF MarkProcessed, TweetIdle, queues, TypeOK, TweetLoopOK, TweetBusy
  <2>2. Queued' = Queued /\ InHand' = {} /\ InHand = {tl.item}
    BY <2>1 DEF Queued, InHand, TweetBusy
  <2>3. Waiting' = Waiting \ {tl.item} /\ tl.item \in Waiting
    BY <2>2 DEF Waiting, InFlightOnce
  <2>4. PipeOK' /\ Coming' = Coming /\ tl.item \notin Coming
    BY <2>1, <2>2, <2>3, TweetLoopTakes, Apart DEF InFlightOnce, Once
  <2>5. processed' = processed \/ processed' = processed \cup {Key(tl.item)}
    BY <2>1 DEF Marked
  <2>6. LifeMove
    BY <2>1, <2>3, <2>4, <2>5 DEF LifeMove, Given, Finishes
  <2>7. FlaggedOnce'
    BY <2>1, <2>3, <2>4, FlaggedKept DEF JustFlagged, HandItem
  <2> QED BY <2>4, <2>6, <2>7 DEF LifeStep
<1>7. ASSUME Requeue PROVE LifeStep
  <2>1. /\ tl.pc = "requeueing" /\ tl'.pc = "idle" /\ tl.item \in Items
        /\ tweetQueue' = Append(tweetQueue, tl.item) /\ tweetQueue \in Seq(Items)
        /\ UNCHANGED <<jl, jobQueue, upload, flagged, processed>>
    BY <1>7 DEF Requeue, Send, TweetIdle, tables, TypeOK, TweetLoopOK, TweetBusy, QueuesOK
  <2>2. InHand' = {} /\ InHand = {tl.item} /\ tl.item \notin Queued
    BY <2>1 DEF InHand, TweetBusy, InFlightOnce
  <2>3. Queued' = Queued \cup {tl.item} /\ Once(tweetQueue')
    BY <2>1, <2>2, AppendElems DEF Queued, Elems, InFlightOnce, Once
  <2>4. Waiting' = Waiting
    BY <2>2, <2>3 DEF Waiting
  <2>5. PipeOK' /\ Coming' = Coming
    BY <2>1, <2>2, <2>3, <2>4, TweetLoopTakes
  <2> QED BY <2>1, <2>4, <2>5, GivesUp DEF Given
<1>8. ASSUME TweetLoopStops PROVE LifeStep
  <2>1. /\ tl.pc = "idle" /\ tl'.pc = "gone"
        /\ UNCHANGED <<jl, jobQueue, upload, tweetQueue, flagged, processed>>
    BY <1>8 DEF TweetLoopStops, TweetIdle, queues, tables
  <2>2. Queued' = Queued /\ InHand' = InHand /\ Waiting' = Waiting
    BY <2>1 DEF Queued, InHand, Waiting, TweetBusy
  <2>3. PipeOK' /\ Coming' = Coming
    BY <2>1, <2>2, TweetLoopTakes DEF InFlightOnce, Once
  <2> QED BY <2>1, <2>2, <2>3, GivesUp DEF Given
<1> QED BY <1>1, <1>2, <1>3, <1>4, <1>5, <1>6, <1>7, <1>8 DEF TweetLoop

\* Both specifications begin alike.
LEMMA InitLife == Init => LifeInv /\ Life!LifeInit
<1> SUFFICES ASSUME Init PROVE LifeInv /\ Life!LifeInit
  OBVIOUS
<1>1. TypeOK /\ OnlySentJobs
  BY InitDisk DEF DiskInv, UpdateOrder
<1>2. /\ jobQueue = <<>> /\ tweetQueue = <<>> /\ jl.pc \notin JobBusy /\ tl.pc \notin TweetBusy
      /\ \A i \in Items : upload[i.job] = "none" /\ flagged[i] = 0
      /\ flagged = [i \in Items |-> 0] /\ processed = {}
  BY ItemTypes DEF Init, MemoryInit, resumePendingJobs, JobIdle, TweetIdle, JobBusy, TweetBusy
<1>3. Queued = {} /\ InHand = {} /\ Ahead = {} /\ Waiting = {} /\ Elems(jobQueue) = {}
  BY <1>2 DEF Queued, InHand, Ahead, Waiting, Elems
<1>4. PipeInv
  BY <1>1, <1>2, <1>3 DEF PipeInv, InFlightOnce, JobQueuedOnce, Once
<1>5. FlaggedOnce
  BY <1>2 DEF FlaggedOnce
<1>6. \A i \in Items : stage[i] = "coming"
  BY <1>2, <1>3, <1>4, StageIs DEF StagesRight, Coming
<1>7. Life!LifeInit
  BY <1>2, <1>6 DEF Life!LifeInit, stage
<1> QED BY <1>4, <1>5, <1>7 DEF LifeInv

\* Every step keeps the invariant and moves at most one item.
LEMMA StepLife == DiskInv /\ LifeInv /\ [Next]_vars => LifeInv' /\ LifeMove
<1> SUFFICES ASSUME DiskInv, LifeInv, [Next]_vars PROVE LifeInv' /\ LifeMove
  OBVIOUS
<1>1. LifeStep
  <2>1. CASE UNCHANGED vars
    BY <2>1, LifeUntouched DEF vars, tables, queues
  <2> QED
    BY <2>1, HandlersLife, JobLoopLife, TweetLoopLife, ProcessLife, RestartLife DEF Next
<1>2. TypeOK' /\ OnlySentJobs'
  BY StepDisk DEF DiskInv, UpdateOrder
<1> QED BY <1>1, <1>2 DEF LifeStep, PipeOK, LifeInv, PipeInv

-----------------------------------------------------------------------------
(* Theorems *)

\* The invariant holds in every state.
LEMMA LifeInvariant == Spec => []LifeInv
<1>1. DiskInv /\ LifeInv /\ [Next]_vars => DiskInv' /\ LifeInv'
  BY StepDisk, StepLife
<1> QED BY <1>1, InitDisk, InitLife, PTL DEF Spec

\* In every execution a QueuedTweet is in one place of the pipeline: once in
\* the queue, in tweetLoop's hands, or still to come from jobLoop.
THEOREM NeverInTwoPlaces == Spec => []InFlightOnce
<1>1. LifeInv => InFlightOnce
  BY DEF LifeInv, PipeInv
<1> QED BY <1>1, LifeInvariant, PTL

\* The worker implements TweetLife: every step of Worker is a step of the
\* abstract life of the tweets or leaves it as it is.  So no tweet comes back
\* once it is gone, none is flagged twice, and those of a job are queued in
\* the order of its archive, across failures, crashes and restarts.
THEOREM LifeImplemented == Spec => KeepsLifecycle
<1>1. Init => Life!LifeInit
  BY InitLife
<1>2. DiskInv /\ LifeInv /\ LifeInv' /\ [Next]_vars => [Life!LifeNext]_Life!lifeVars
  <2> SUFFICES ASSUME DiskInv, LifeInv, LifeInv', [Next]_vars PROVE Life!LifeNext
    OBVIOUS
  <2>1. LifeMove /\ flagged \in [Items -> Nat]
    BY StepLife DEF LifeInv, PipeInv, TypeOK, TablesOK
  <2>2. StagesRight
    BY StageIs DEF LifeInv
  <2>3. PipeInv' => StagesRight'
    BY StageIs, PTL
  <2>4. StagesRight'
    BY <2>3 DEF LifeInv
  <2> QED BY <2>1, <2>2, <2>4, MoveIsLife
<1>3. Spec => []DiskInv
  BY InitDisk, StepDisk, PTL DEF Spec
<1> QED BY <1>1, <1>2, <1>3, LifeInvariant, PTL DEF Spec, KeepsLifecycle, Life!LifeSpec
=============================================================================
