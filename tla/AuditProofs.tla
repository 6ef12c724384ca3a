---------------------------- MODULE AuditProofs ----------------------------
(***************************************************************************)
(* The worker with the scorer that main gives it, whatever the constants:  *)
(* it takes only steps that Worker allows, so what is proved of Worker     *)
(* holds of it, and the two fit each other.                                *)
(***************************************************************************)
EXTENDS Audit, WorkerProofs, Integers

-----------------------------------------------------------------------------
(* What the worker and the scorer see of a step *)

\* Steps of tweetLoop that neither start a call of Score nor end one.
LEMMA OtherSteps ==
    ASSUME TypeOK, OtherTweetLoop
    PROVE  /\ UNCHANGED <<quotaUsed, pc, sent, requests, outcome, maxRetries, state, attempt>>
           /\ tl'.pc \in {"recording", "checking"} => tl.pc \in {"recording", "checking"}
           /\ tl'.pc = "marking" => tl.pc = "checking"
<1>0. UNCHANGED <<pc, sent, requests, outcome, maxRetries, state, attempt>>
  BY DEF OtherTweetLoop, scorerVars
<1>1. /\ tl.pc # "scoring" /\ tl'.pc # "scoring"
      /\ TweetLoop
  BY DEF OtherTweetLoop
<1>2. CASE PauseForQuota \/ \E ok \in BOOLEAN : DropTweet(ok)
  BY <1>0, <1>1, <1>2 DEF PauseForQuota, DropTweet, tables
<1>3. CASE \E ok \in BOOLEAN : RecordScore(ok) \/ MarkProcessed(ok)
  BY <1>0, <1>3 DEF RecordScore, MarkProcessed, TweetIdle
<1>4. CASE CheckDone
  BY <1>0, <1>4 DEF CheckDone, tables, TypeOK, TweetLoopOK
<1>5. CASE WakeUp
  BY <1>0, <1>5 DEF WakeUp, tables, TypeOK, TweetLoopOK
<1>6. CASE Requeue \/ TweetLoopStops
  BY <1>0, <1>6 DEF Requeue, TweetLoopStops, TweetIdle, tables
<1>7. CASE ScoreFails \/ QuotaExceeded
  BY <1>1, <1>7 DEF ScoreFails, QuotaExceeded
<1>8. CASE \E ok \in BOOLEAN : StartScore(ok)
  BY <1>1, <1>8 DEF StartScore
<1>9. CASE \E hit, ok \in BOOLEAN : ScoreSucceeds(hit, ok)
  BY <1>1, <1>9 DEF ScoreSucceeds
<1> QED BY <1>1, <1>2, <1>3, <1>4, <1>5, <1>6, <1>7, <1>8, <1>9 DEF TweetLoop

\* The other goroutines leave tweetLoop and the scorer alone; a new day sets
\* the quota back.
LEMMA OthersSteps ==
    ASSUME Others
    PROVE  /\ UNCHANGED <<tl, pc, sent, requests, outcome, maxRetries, state, attempt>>
           /\ UNCHANGED quotaUsed \/ quotaUsed' = 0
<1>0. UNCHANGED <<pc, sent, requests, outcome, maxRetries, state, attempt>>
  BY DEF Others, scorerVars
<1>1. CASE Handlers
  BY <1>0, <1>1 DEF Handlers, SendJob, GetJob, EnqueueParse, tables
<1>2. CASE JobLoop
  BY <1>0, <1>2 DEF JobLoop, JobNotFound, StartJob, ParseFails, ParseArchive, SaveTweet, TweetsSaved,
                FlagTweet, MarkFlagged, MarkTweet, QueueTweet, EndJob, JobLoopStops, tables
<1>3. CASE Ticker \/ Main
  BY <1>0, <1>3 DEF Ticker, Main, SaveJob, Tick, LastTick, TickDone, Signal, HttpDrained,
                    HttpTimeout, WorkersDone, Exit, ShutdownTimeout, MainOnly, tables
<1>4. CASE NewDay
  BY <1>0, <1>4 DEF NewDay
<1> QED BY <1>1, <1>2, <1>3, <1>4 DEF Others

-----------------------------------------------------------------------------
(* The worker's half and the scorer's *)

\* A step of the composition is one of Worker, or none.
LEMMA WorkerHalf == AuditNext => [Next]_vars
<1> SUFFICES ASSUME AuditNext PROVE [Next]_vars
  OBVIOUS
<1>1. CASE StartAudit
  BY <1>1 DEF StartAudit, Next, TweetLoop
<1>2. CASE FinishAudit
  BY <1>2 DEF FinishAudit, Next, TweetLoop
<1>3. CASE OtherTweetLoop
  BY <1>3 DEF OtherTweetLoop, Next
<1>4. CASE Ask \/ Time
  BY <1>4 DEF Ask, Time
<1>5. CASE Others
  BY <1>5 DEF Others, Next
<1> QED BY <1>1, <1>2, <1>3, <1>4, <1>5 DEF AuditNext, AuditTweetLoop

\* And one of GeminiScorer, or none.
LEMMA ScorerHalf == AuditNext => [GS!Next]_(GS!vars)
<1> SUFFICES ASSUME AuditNext PROVE [GS!Next]_(GS!vars)
  OBVIOUS
<1>1. CASE StartAudit
  BY <1>1 DEF StartAudit, GS!Next
<1>2. CASE Ask
  BY <1>2 DEF Ask, GS!Next
<1>3. CASE Time
  BY <1>3 DEF Time, GS!Next
<1>4. CASE FinishAudit \/ OtherTweetLoop \/ Others
  BY <1>4 DEF FinishAudit, OtherTweetLoop, Others, scorerVars,
              GS!vars, GS!rlVars, GS!cbVars, GS!loopVars
<1> QED BY <1>1, <1>2, <1>3, <1>4 DEF AuditNext, AuditTweetLoop

\* KeepsWorker without its fairness: with the real scorer, the breaker and the
\* limiter in place of Verdict, the worker takes only steps of Worker.  So
\* every theorem Spec => []P is one about AuditSpec too.
THEOREM AuditIsWorker == AuditSpec => Spec
<1>1. AuditInit => Init
  BY DEF AuditInit
<1>2. [AuditNext]_<<vars, scorerVars>> => [Next]_vars
  BY WorkerHalf
<1> QED BY <1>1, <1>2, PTL DEF AuditSpec, Spec

\* The scorer's half of the same: the worker uses it as GeminiScorer says.
ScorerSteps == GS!Init /\ [][GS!Next]_(GS!vars)

\* tweetLoop calls Score only when the last call has returned, and takes no step
\* of it but through Ask.
THEOREM AuditIsScorer == AuditSpec => ScorerSteps
<1>1. AuditInit => GS!Init
  BY DEF AuditInit
<1>2. [AuditNext]_<<vars, scorerVars>> => [GS!Next]_(GS!vars)
  <2>1. UNCHANGED <<vars, scorerVars>> => UNCHANGED GS!vars
    BY DEF scorerVars, GS!vars, GS!rlVars, GS!cbVars, GS!loopVars
  <2> QED BY <2>1, ScorerHalf
<1> QED BY <1>1, <1>2, PTL DEF AuditSpec, ScorerSteps

-----------------------------------------------------------------------------
(* No unit of the quota without a request, no tweet given up untried *)

\* Each attempt of a call of Score makes one request.
CountOK ==
    /\ requests \in Nat /\ attempt \in Nat /\ maxRetries \in Int
    /\ pc \in {"attempt", "limiter", "api"} => requests = attempt
    /\ pc \in {"answered", "delay"} => requests = attempt + 1

Tried == requests > 0 \/ maxRetries < 0 \/ state = "open"

\* What a call of Score that has returned says: a result comes from a request,
\* and an error without one from the open breaker.
ReportOK ==
    pc = "idle" => /\ outcome = "result" => requests > 0
                   /\ outcome \in {"error", "circuitOpen"} => Tried

\* The two move in turn: Score runs only while tweetLoop waits for it, and what
\* it returned stands until tweetLoop is done with the tweet.
TurnsOK ==
    /\ tl.pc # "scoring" => pc = "idle"
    /\ tl.pc \in {"recording", "checking"} => requests > 0
    /\ tl.pc = "marking" => Tried

\* CallsWereMade with the unit that the tweet in hand will be counted as.
CoveredOK ==
    /\ sent \in Nat
    /\ quotaUsed <= sent
    /\ tl.pc = "scoring" /\ requests > 0 => quotaUsed < sent

AuditInv == TypeOK /\ CountOK /\ ReportOK /\ TurnsOK /\ CoveredOK

\* The quota table holds a number.
LEMMA QuotaIsNat == TypeOK => quotaUsed \in Nat
BY DEF TypeOK, TablesOK

\* The invariant holds when both are new.
LEMMA AuditInvInit == AuditInit => AuditInv
<1> SUFFICES ASSUME AuditInit PROVE AuditInv
  OBVIOUS
<1>1. TypeOK /\ quotaUsed = 0 /\ tl.pc = "idle"
  BY InitType DEF AuditInit, Init, MemoryInit, TweetIdle
<1> QED BY <1>1, ScorerAssumptions
        DEF AuditInit, GS!Init, GS!RetryAssumption, AuditInv, CountOK, ReportOK, TurnsOK, CoveredOK

\* A call of Score begins with nothing asked.
LEMMA StartKeeps == ASSUME AuditInv, StartAudit PROVE CountOK' /\ ReportOK' /\ TurnsOK' /\ CoveredOK'
<1>1. tl'.pc = "scoring" /\ UNCHANGED <<quotaUsed, sent>>
  BY DEF StartAudit, StartScore, tables
<1>2. /\ pc' = "attempt" /\ attempt' = 0 /\ requests' = 0 /\ UNCHANGED maxRetries
  BY DEF StartAudit, GS!Score, GS!FirstAttempt
<1> QED BY <1>1, <1>2 DEF AuditInv, CountOK, ReportOK, TurnsOK, CoveredOK

\* tweetLoop takes the outcome: a result is counted, once.
LEMMA FinishKeeps == ASSUME AuditInv, FinishAudit PROVE CountOK' /\ ReportOK' /\ TurnsOK' /\ CoveredOK'
<1>0. /\ UNCHANGED <<pc, sent, requests, outcome, maxRetries, state, attempt>>
      /\ pc = "idle"
  BY DEF FinishAudit, Returned, scorerVars
<1>1. quotaUsed \in Nat /\ sent \in Nat /\ requests \in Nat
  BY QuotaIsNat DEF AuditInv, CoveredOK, CountOK
<1>2. CountOK' /\ ReportOK'
  BY <1>0 DEF AuditInv, CountOK, ReportOK, Tried
<1>3. CASE Returned("result") /\ \E hit, ok \in BOOLEAN : ScoreSucceeds(hit, ok)
  <2>1. /\ tl.pc = "scoring" /\ tl'.pc = "recording"
        /\ quotaUsed' = quotaUsed \/ quotaUsed' = quotaUsed + 1
    BY <1>3 DEF ScoreSucceeds
  <2>2. requests > 0
    BY <1>3 DEF AuditInv, ReportOK, Returned
  <2>3. quotaUsed < sent
    BY <2>1, <2>2 DEF AuditInv, CoveredOK
  <2> QED BY <1>0, <1>1, <1>2, <2>1, <2>2, <2>3 DEF TurnsOK, CoveredOK
<1>4. CASE Returned("quota") /\ QuotaExceeded
  <2>1. tl'.pc = "sleeping" /\ UNCHANGED quotaUsed
    BY <1>4 DEF QuotaExceeded, tables, AuditInv, TypeOK, TweetLoopOK
  <2> QED BY <1>0, <1>2, <2>1 DEF AuditInv, TurnsOK, CoveredOK
<1>5. CASE (Returned("error") \/ Returned("circuitOpen")) /\ ScoreFails
  <2>1. tl'.pc = "marking" /\ UNCHANGED quotaUsed
    BY <1>5 DEF ScoreFails, MarkAnyway, tables, AuditInv, TypeOK, TweetLoopOK
  <2>2. Tried
    BY <1>0, <1>5 DEF AuditInv, ReportOK, Returned
  <2> QED BY <1>0, <1>2, <2>1, <2>2 DEF AuditInv, TurnsOK, CoveredOK, Tried
<1> QED BY <1>3, <1>4, <1>5 DEF FinishAudit

\* Score asks, waits or returns.
LEMMA AskKeeps == ASSUME AuditInv, Ask PROVE CountOK' /\ ReportOK' /\ TurnsOK' /\ CoveredOK'
<1>0. /\ tl.pc = "scoring" /\ pc # "idle" /\ UNCHANGED <<tl, quotaUsed, maxRetries>>
      /\ quotaUsed \in Nat /\ sent \in Nat /\ requests \in Nat /\ attempt \in Nat
      /\ maxRetries \in Int
  BY QuotaIsNat DEF Ask, GS!Scoring, vars, tables, AuditInv, CoveredOK, CountOK
<1>1. sent' \in Nat /\ sent <= sent' /\ (pc = "api" => quotaUsed < sent')
  BY <1>0 DEF Ask, AuditInv, CoveredOK
<1>2. ASSUME UNCHANGED requests PROVE TurnsOK' /\ CoveredOK'
  BY <1>0, <1>1, <1>2 DEF AuditInv, TurnsOK, CoveredOK
<1>3. CASE GS!EnterBreaker
  <2>1. pc = "attempt" /\ pc' = "limiter" /\ UNCHANGED <<attempt, requests, outcome>>
    BY <1>3 DEF GS!EnterBreaker, GS!loopVars
  <2> QED BY <1>0, <1>2, <2>1 DEF AuditInv, CountOK, ReportOK
<1>4. CASE GS!CircuitOpen
  <2>1. /\ pc = "attempt" /\ pc' = "idle" /\ UNCHANGED <<attempt, requests>>
        /\ outcome' = "circuitOpen"
    BY <1>4 DEF GS!CircuitOpen, GS!loopVars, GS!ReturnWith
  <2>2. state' = "open"
    BY <1>4 DEF GS!CircuitOpen, GS!CB!Reject, GS!CB!LeaveAsIs, GS!CB!cbVars
  <2> QED BY <1>0, <1>2, <2>1, <2>2 DEF AuditInv, CountOK, ReportOK, Tried
<1>5. CASE GS!NoAttempt
  <2>1. /\ pc = "attempt" /\ pc' = "idle" /\ UNCHANGED <<attempt, requests>>
        /\ outcome' = "error" /\ attempt > maxRetries
    BY <1>5 DEF GS!NoAttempt, GS!loopVars, GS!ReturnWith, GS!NoAttemptError
  <2>2. requests = attempt
    BY <2>1 DEF AuditInv, CountOK
  <2>3. Tried'
    BY <1>0, <2>1, <2>2 DEF Tried
  <2> QED BY <1>0, <1>2, <2>1, <2>3 DEF AuditInv, CountOK, ReportOK
<1>6. CASE GS!WaitForToken
  <2>1. /\ pc = "limiter" /\ pc' \in {"limiter", "api"} /\ UNCHANGED <<attempt, requests, outcome>>
    BY <1>6 DEF GS!WaitForToken, GS!loopVars
  <2> QED BY <1>0, <1>2, <2>1 DEF AuditInv, CountOK, ReportOK
<1>7. CASE \E r \in GS!Reply : GS!Answered(r)
  <2>1. /\ pc = "api" /\ pc' = "answered" /\ requests' = requests + 1 /\ UNCHANGED attempt
    BY <1>7 DEF GS!Answered, GS!loopVars
  <2> QED BY <1>0, <1>1, <2>1 DEF AuditInv, CountOK, ReportOK, TurnsOK, CoveredOK
<1>8. CASE GS!ReturnResult \/ GS!ReturnPermanent \/ GS!ReturnQuota \/ GS!ReturnLast
  <2>1. pc = "answered" /\ pc' = "idle" /\ UNCHANGED <<attempt, requests>>
    BY <1>8 DEF GS!ReturnResult, GS!ReturnPermanent, GS!ReturnQuota, GS!ReturnLast,
                GS!ReturnWith, GS!loopVars
  <2>2. requests > 0
    BY <1>0, <2>1 DEF AuditInv, CountOK
  <2> QED BY <1>0, <1>2, <2>1, <2>2 DEF AuditInv, CountOK, ReportOK, Tried
<1>9. CASE GS!BackOff
  <2>1. pc = "answered" /\ pc' = "delay" /\ UNCHANGED <<attempt, requests>>
    BY <1>9 DEF GS!BackOff
  <2> QED BY <1>0, <1>2, <2>1 DEF AuditInv, CountOK, ReportOK
<1>10. CASE GS!Retry
  <2>1. pc = "delay" /\ pc' = "attempt" /\ attempt' = attempt + 1 /\ UNCHANGED requests
    BY <1>10 DEF GS!Retry, GS!NextAttempt
  <2> QED BY <1>0, <1>2, <2>1 DEF AuditInv, CountOK, ReportOK
<1> QED BY <1>3, <1>4, <1>5, <1>6, <1>7, <1>8, <1>9, <1>10 DEF Ask, GS!Scoring

\* Time passes: the breaker changes its state only when it is asked.
LEMMA TimeKeeps == ASSUME AuditInv, Time PROVE CountOK' /\ ReportOK' /\ TurnsOK' /\ CoveredOK'
<1>1. UNCHANGED <<tl, quotaUsed, sent, pc, attempt, requests, outcome, maxRetries>>
  BY DEF Time, GS!Tick, vars, tables
<1>2. UNCHANGED state
  BY DEF Time, GS!Tick, GS!CB!CBTick, GS!cbVars
<1> QED BY <1>1, <1>2 DEF AuditInv, CountOK, ReportOK, TurnsOK, CoveredOK, Tried

\* Everything else leaves the scorer alone.
LEMMA RestKeeps ==
    ASSUME AuditInv, OtherTweetLoop \/ Others PROVE CountOK' /\ ReportOK' /\ TurnsOK' /\ CoveredOK'
<1>0. UNCHANGED <<pc, sent, requests, outcome, maxRetries, state, attempt>>
  BY OtherSteps, OthersSteps DEF AuditInv
<1>1. CountOK' /\ ReportOK'
  BY <1>0 DEF AuditInv, CountOK, ReportOK, Tried
<1>2. CASE OtherTweetLoop
  <2>1. tl.pc # "scoring" /\ tl'.pc # "scoring"
    BY <1>2 DEF OtherTweetLoop
  <2>2. TurnsOK'
    BY <1>0, <1>2, <2>1, OtherSteps DEF AuditInv, TurnsOK, Tried
  <2>3. CoveredOK'
    BY <1>0, <1>2, <2>1, OtherSteps DEF AuditInv, CoveredOK
  <2> QED BY <1>1, <2>2, <2>3
<1>3. CASE Others
  <2>1. UNCHANGED tl /\ (UNCHANGED quotaUsed \/ quotaUsed' = 0)
    BY <1>3, OthersSteps
  <2>2. quotaUsed \in Nat
    BY QuotaIsNat DEF AuditInv
  <2> QED BY <1>0, <1>1, <2>1, <2>2 DEF AuditInv, TurnsOK, CoveredOK, Tried
<1> QED BY <1>2, <1>3

\* The invariant holds of the composition.
LEMMA AuditInvariant == AuditSpec => []AuditInv
<1>1. AuditInv /\ [AuditNext]_<<vars, scorerVars>> => AuditInv'
  <2> SUFFICES ASSUME AuditInv, [AuditNext]_<<vars, scorerVars>> PROVE AuditInv'
    OBVIOUS
  <2>1. TypeOK'
    BY StepType, WorkerHalf DEF AuditInv
  <2>2. CASE AuditNext
    BY <2>1, <2>2, StartKeeps, FinishKeeps, AskKeeps, TimeKeeps, RestKeeps
       DEF AuditNext, AuditTweetLoop, AuditInv
  <2>3. CASE UNCHANGED <<vars, scorerVars>>
    BY <2>1, <2>3 DEF vars, tables, scorerVars, AuditInv, CountOK, ReportOK, TurnsOK,
                      CoveredOK, Tried
  <2> QED BY <2>2, <2>3
<1> QED BY AuditInvInit, <1>1, PTL DEF AuditSpec

\* IncrementQuotaUsage: the quota table never counts more calls than requests
\* were answered.
THEOREM QuotaIsForCalls == AuditSpec => []CallsWereMade
<1>1. AuditInv => CallsWereMade
  BY DEF AuditInv, CoveredOK, CallsWereMade
<1> QED BY AuditInvariant, <1>1, PTL

\* "failed, but we tried" (worker.go:528): a tweet is given up without a request
\* only while the breaker is open, for any number of retries but a negative one.
THEOREM TriedBeforeGivenUp == AuditSpec => []GivenUpAfterTrying
<1>1. AuditInv => GivenUpAfterTrying
  BY DEF AuditInv, TurnsOK, Tried, CountOK, GivenUpAfterTrying
<1> QED BY AuditInvariant, <1>1, PTL
=============================================================================
