------------------------------- MODULE Audit -------------------------------
(***************************************************************************)
(* The worker with the scorer main gives it: what Worker leaves to chance  *)
(* as Verdict is here the outcome of GeminiScorer's retry loop, breaker    *)
(* and limiter, and Worker's assumption that a call of Score returns is    *)
(* checked instead of made.                                                *)
(***************************************************************************)
EXTENDS Worker

CONSTANTS
    Caller, me,        \* tweetLoop, as the scorer's caller
    Retries, retryBackoff, rateLimitBackoff, maxBackoff,
    maxTokens, refillRate,
    failureThreshold, successThreshold, openTimeout

\* A restart builds a new scorer: it is left to Worker.
ASSUME OneProcess == MaxRestarts = 0

VARIABLES
    tokens, elapsed, asleep, timer, granted,
    state, failures, successes, sinceFailure, inCall, streak, probes,
    attempt, backoff, limited, delay,
    maxRetries, pc, reply, requests, outcome,
    sent  \* history: requests answered, counted while no more than the quota table's

GS == INSTANCE GeminiScorer

ASSUME ScorerAssumptions ==
    GS!CallerAssumption /\ GS!RateAssumption /\ GS!RetryAssumption /\ GS!ThresholdAssumption

scorerVars == <<tokens, elapsed, asleep, timer, granted, state, failures, successes,
                sinceFailure, inCall, streak, probes, attempt, backoff, limited, delay,
                maxRetries, pc, reply, requests, outcome, sent>>

AuditInit == Init /\ GS!Init /\ sent = 0

\* The loop hands its tweet to Score, and resumes when Score has returned o.
Returned(o) == pc = "idle" /\ outcome = o

StartAudit ==
    /\ \E ok \in BOOLEAN : StartScore(ok)
    /\ GS!Score
    /\ UNCHANGED sent

\* errors.Is(err, ErrDailyQuotaExceeded), err # nil, or a result.
\* ErrCircuitOpen is an error like any other.
FinishAudit ==
    /\ \/ Returned("result") /\ \E hit, ok \in BOOLEAN : ScoreSucceeds(hit, ok)
       \/ Returned("quota") /\ QuotaExceeded
       \/ (Returned("error") \/ Returned("circuitOpen")) /\ ScoreFails
    /\ UNCHANGED scorerVars

\* Steps of tweetLoop outside Score.
OtherTweetLoop ==
    /\ tl.pc # "scoring"
    /\ TweetLoop
    /\ tl'.pc # "scoring"
    /\ UNCHANGED scorerVars

\* Score runs in tweetLoop's goroutine, and dies with the process.
Ask ==
    /\ alive /\ tl.pc = "scoring" /\ pc # "idle"
    /\ GS!Scoring
    /\ sent' = IF pc = "api" /\ sent <= quotaUsed THEN sent + 1 ELSE sent
    /\ UNCHANGED vars

Time == GS!Tick /\ UNCHANGED <<vars, sent>>

AuditTweetLoop == StartAudit \/ FinishAudit \/ OtherTweetLoop \/ Ask

Others == (Handlers \/ JobLoop \/ Ticker \/ Main \/ NewDay) /\ UNCHANGED scorerVars

AuditNext == AuditTweetLoop \/ Time \/ Others

AuditSpec ==
    /\ AuditInit /\ [][AuditNext]_<<vars, scorerVars>>
    /\ \A j \in Job : WF_vars(SendJob(j) /\ UNCHANGED scorerVars)
    /\ WF_vars(JobLoop /\ UNCHANGED scorerVars)
    /\ WF_vars(Ticker /\ UNCHANGED scorerVars)
    /\ WF_<<vars, scorerVars>>(AuditTweetLoop)
    /\ WF_scorerVars(Time)

-----------------------------------------------------------------------------
\* With the real scorer the worker does what Worker says, fairness included:
\* however requests are answered, tweetLoop never hangs in a call of Score.
KeepsWorker == FairSpec

\* The quota table never counts a call that was not made: each unit of it
\* stands for a tweet for which some request was answered.
CallsWereMade == quotaUsed <= sent

\* worker.go:528 gives a tweet up as "failed, but we tried".  It was tried: a
\* request was answered, unless the breaker is open (or GEMINI_MAX_RETRIES is
\* negative), when tweets are given up one after the other untried.
GivenUpAfterTrying ==
    tl.pc = "marking" /\ maxRetries >= 0 /\ requests = 0 => state = "open"
=============================================================================
