---------------------------- MODULE GeminiScorer ----------------------------
(***************************************************************************)
(* GeminiScorer.Score: the retry loop of internal/tweets/scorer/gemini.go  *)
(* around the circuit breaker, the rate limiter and the Gemini API.  The   *)
(* program calls it from one goroutine, so its semaphore of ten never      *)
(* blocks and is left out; contexts are context.Background() and are never *)
(* cancelled.                                                              *)
(***************************************************************************)
EXTENDS RateLimiter

CONSTANTS
    Retries,           \* values of GEMINI_MAX_RETRIES; it may be negative
    retryBackoff,      \* first delay after a server error, in ticks
    rateLimitBackoff,  \* first delay after a 429 (60 s)
    maxBackoff,        \* where that delay stops doubling (5 min)
    me,                \* tweetLoop, the one caller
    failureThreshold, successThreshold, openTimeout

ASSUME CallerAssumption == Caller = {me}
ASSUME RetryAssumption ==
    /\ Retries \subseteq Int
    /\ retryBackoff \in Nat /\ rateLimitBackoff \in Nat /\ maxBackoff \in Nat
ASSUME ThresholdAssumption ==
    failureThreshold \in Nat /\ successThreshold \in Nat /\ openTimeout \in Nat

VARIABLES
    state, failures, successes, sinceFailure, inCall,     \* the circuit breaker
    streak, probes,
    maxRetries, \* g.maxRetries, fixed when the scorer is built
    pc,        \* where Score is
    attempt,   \* its loop variable
    backoff,   \* its delay after the next server error
    limited,   \* rateLimitBackoff, its delay after the next 429
    delay,     \* ticks left of the delay it is in
    reply,     \* what the last request was answered
    requests,  \* history: requests of this Score
    outcome    \* what the last Score returned

cbVars == <<state, failures, successes, sinceFailure, inCall, streak, probes>>
loopVars == <<attempt, backoff, limited, delay>>
vars == <<rlVars, cbVars, loopVars, maxRetries, pc, reply, requests, outcome>>

CB == INSTANCE CircuitBreaker

\* critical: 401, 403, 404.  permanent: any other 4xx but 429.  quota: a 429
\* whose body speaks of a daily quota.  throttle: any other 429.  server: 5xx,
\* a network error or an answer that parseResponse rejects.
Reply == {"ok", "critical", "permanent", "quota", "throttle", "server"}
NothingCritical(r) == FALSE
isCriticalError(r) == r = "critical"
Permanent(r) == r \in {"critical", "permanent"}

Init ==
    /\ RLInit /\ CB!CBInit
    /\ maxRetries \in Retries
    /\ pc = "idle"
    /\ attempt = 0 /\ backoff = retryBackoff /\ limited = rateLimitBackoff /\ delay = 0
    /\ reply = "none" /\ requests = 0 /\ outcome = "none"

SecondAttempt == 1
FirstAttempt == 0

Score ==
    /\ pc = "idle"
    /\ pc' = "attempt"
    /\ attempt' = FirstAttempt /\ backoff' = retryBackoff /\ limited' = rateLimitBackoff /\ delay' = 0
    /\ reply' = "none" /\ requests' = 0 /\ outcome' = "none"
    /\ UNCHANGED <<rlVars, cbVars, maxRetries>>

ReturnWith(o) == pc' = "idle" /\ outcome' = o

\* beforeCall: then the function that holds the rate limiter runs.
EnterBreaker ==
    /\ pc = "attempt" /\ attempt <= maxRetries
    /\ CB!Admit(me)
    /\ pc' = "limiter"
    /\ UNCHANGED <<rlVars, loopVars, reply, requests, outcome>>

\* ErrCircuitOpen ends the loop at once.
CircuitOpen ==
    /\ pc = "attempt" /\ attempt <= maxRetries
    /\ CB!Reject(me)
    /\ ReturnWith("circuitOpen")
    /\ UNCHANGED <<rlVars, loopVars, reply, requests>>

\* With a negative maxRetries the loop has no iteration; lastErr is nil.
NoAttemptResult == "result"
NoAttemptError == "error"

NoAttempt ==
    /\ pc = "attempt" /\ attempt > maxRetries
    /\ ReturnWith(NoAttemptError)
    /\ UNCHANGED <<rlVars, cbVars, loopVars, reply, requests>>

WaitForToken ==
    /\ pc = "limiter"
    /\ \/ /\ TakeToken(me) \/ Wake(me)
          /\ pc' = "api"
       \/ /\ Sleep(me)
          /\ UNCHANGED pc
    /\ UNCHANGED <<cbVars, loopVars, reply, requests, outcome>>

\* makeAPICall is answered and afterCall is told.
Answered(r) ==
    /\ pc = "api"
    /\ IF r = "ok" THEN CB!Success(me) ELSE CB!Failure(me, isCriticalError(r))
    /\ pc' = "answered"
    /\ reply' = r
    /\ requests' = requests + 1
    /\ UNCHANGED <<rlVars, loopVars, outcome>>

ReturnResult ==
    /\ pc = "answered" /\ reply = "ok"
    /\ ReturnWith("result")
    /\ UNCHANGED <<rlVars, cbVars, loopVars, reply, requests>>

ReturnPermanent ==
    /\ pc = "answered" /\ Permanent(reply)
    /\ ReturnWith("error")
    /\ UNCHANGED <<rlVars, cbVars, loopVars, reply, requests>>

LastAttempt == attempt >= maxRetries

DailyQuota == reply = "quota"

\* The body of a 429 is looked at only when another attempt is left.
ReturnQuota ==
    /\ pc = "answered" /\ DailyQuota /\ ~LastAttempt
    /\ ReturnWith("quota")
    /\ UNCHANGED <<rlVars, cbVars, loopVars, reply, requests>>

ReturnLast ==
    /\ pc = "answered" /\ reply \in {"quota", "throttle", "server"} /\ LastAttempt
    /\ ReturnWith("error")
    /\ UNCHANGED <<rlVars, cbVars, loopVars, reply, requests>>

Doubled(d) == IF 2 * d > maxBackoff THEN maxBackoff ELSE 2 * d

BackOff ==
    /\ pc = "answered" /\ reply \in {"throttle", "server"} /\ ~LastAttempt
    /\ pc' = "delay"
    /\ IF reply = "throttle"
       THEN delay' = limited /\ limited' = Doubled(limited) /\ UNCHANGED backoff
       ELSE delay' = backoff /\ backoff' = 2 * backoff /\ UNCHANGED limited
    /\ UNCHANGED <<rlVars, cbVars, attempt, reply, requests, outcome>>

SameAttempt == attempt
NextAttempt == attempt + 1

Retry ==
    /\ pc = "delay" /\ delay = 0
    /\ pc' = "attempt"
    /\ attempt' = NextAttempt
    /\ UNCHANGED <<rlVars, cbVars, backoff, limited, delay, reply, requests, outcome>>

Tick ==
    /\ RLTick
    /\ \/ CB!CBTick
       \/ sinceFailure >= openTimeout /\ UNCHANGED cbVars
    /\ delay' = IF delay > 0 THEN delay - 1 ELSE 0
    /\ UNCHANGED <<attempt, backoff, limited, maxRetries, pc, reply, requests, outcome>>

Scoring ==
    /\ \/ EnterBreaker \/ CircuitOpen \/ NoAttempt \/ WaitForToken
       \/ \E r \in Reply : Answered(r)
       \/ ReturnResult \/ ReturnPermanent \/ ReturnQuota \/ ReturnLast \/ BackOff \/ Retry
    /\ UNCHANGED maxRetries

Next == Score \/ Scoring \/ Tick

\* The goroutine runs on, and the HTTP client's timeout ends every request.
Spec == Init /\ [][Next]_vars /\ WF_vars(Scoring) /\ WF_vars(Tick)

-----------------------------------------------------------------------------
GSTypeOK ==
    /\ RLTypeOK /\ CB!CBTypeOK
    /\ pc \in {"idle", "attempt", "limiter", "api", "answered", "delay"}
    /\ maxRetries \in Retries
    /\ attempt \in Nat /\ backoff \in Nat /\ limited \in Nat /\ delay \in Nat
    /\ reply \in Reply \cup {"none"}
    /\ requests \in Nat
    /\ outcome \in {"none", "result", "quota", "error", "circuitOpen"}

\* Score keeps the promise the worker relies on, and returns.
ScorerPromise == INSTANCE Scorer WITH
    maxRequests <- IF maxRetries < 0 THEN 0 ELSE maxRetries + 1,
    scoring <- pc # "idle",
    final <- reply \in {"ok", "critical", "permanent"}
KeepsPromise == ScorerPromise!ScorerSpec

\* A request is on its way, or waits for its token, only while the breaker is
\* not open: a failure opens it between two requests, never during one.
OpenMeansQuiet == state = "open" => pc \notin {"limiter", "api"}

\* After a critical error the breaker is open when Score returns, and no
\* request was made since.
CriticalOpens == pc = "answered" /\ reply = "critical" => state = "open"
=============================================================================
