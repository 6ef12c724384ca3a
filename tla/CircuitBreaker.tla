--------------------------- MODULE CircuitBreaker ---------------------------
(***************************************************************************)
(* internal/tweets/scorer/circuit_breaker.go.                              *)
(*                                                                         *)
(* lastFailure is kept as the ticks since it, which matter only up to the  *)
(* open timeout.  halfOpenTimeout is stored by the code and never read.    *)
(***************************************************************************)
EXTENDS Naturals

CONSTANTS
    Caller,           \* goroutines that call; the program has one, tweetLoop
    failureThreshold,
    successThreshold,
    openTimeout       \* cb.timeout, in ticks

ASSUME BreakerAssumption ==
    failureThreshold \in Nat /\ successThreshold \in Nat /\ openTimeout \in Nat

VARIABLES
    state,            \* cb.state
    failures,         \* cb.failures
    successes,        \* cb.successes
    sinceFailure,     \* ticks since cb.lastFailure, at most openTimeout
    inCall,           \* callers that beforeCall let through
    streak,           \* history: failures in a row that afterCall was told of
    probes            \* history: successes reported since the circuit last opened

cbVars == <<state, failures, successes, sinceFailure, inCall, streak, probes>>

CBInit ==
    /\ state = "closed"
    /\ failures = 0 /\ successes = 0
    /\ sinceFailure = openTimeout
    /\ inCall = {}
    /\ streak = 0 /\ probes = 0

CooledDown == sinceFailure >= openTimeout

StayOpen == successes' = 0 /\ UNCHANGED state
ToHalfOpen == successes' = 0 /\ state' = "halfOpen"

\* beforeCall lets the call through, half-open from now on if it was open.
Admit(c) ==
    /\ c \notin inCall
    /\ state = "open" => CooledDown
    /\ inCall' = inCall \cup {c}
    /\ IF state = "open" THEN ToHalfOpen ELSE UNCHANGED <<state, successes>>
    /\ UNCHANGED <<failures, sinceFailure, streak, probes>>

\* beforeCall returns ErrCircuitOpen; afterCall is not told of it.
RestartTimeout == /\ sinceFailure' = 0
                  /\ UNCHANGED <<state, failures, successes, inCall, streak, probes>>
LeaveAsIs == UNCHANGED cbVars

Reject(c) ==
    /\ c \notin inCall
    /\ state = "open" /\ ~CooledDown
    /\ LeaveAsIs

Open == state' = "open" /\ sinceFailure' = 0 /\ probes' = 0

\* onFailure, in each state.
FailureClosed(critical) ==
    /\ state = "closed"
    /\ failures' = IF critical THEN failureThreshold ELSE failures + 1
    /\ IF critical \/ failures + 1 >= failureThreshold
       THEN Open ELSE UNCHANGED <<state, sinceFailure, probes>>
    /\ UNCHANGED successes

FailureHalfOpen ==
    /\ state = "halfOpen"
    /\ Open
    /\ failures' = failureThreshold
    /\ successes' = 0

\* A call let through earlier fails after another has opened the circuit.
CountWhileOpen ==
    /\ state = "open"
    /\ failures' = failures + 1
    /\ UNCHANGED <<state, successes, sinceFailure, probes>>
FailureOpen ==
    /\ state = "open"
    /\ UNCHANGED <<state, failures, successes, sinceFailure, probes>>

\* onSuccess, in each state.
KeepFailures == state = "closed" /\ UNCHANGED <<state, failures, successes>>
SuccessClosed ==
    /\ state = "closed"
    /\ failures' = 0
    /\ UNCHANGED <<state, successes>>

OneSuccess == TRUE
EnoughSuccesses == successes + 1 >= successThreshold
SuccessHalfOpen ==
    /\ state = "halfOpen"
    /\ IF EnoughSuccesses
       THEN state' = "closed" /\ failures' = 0 /\ successes' = 0
       ELSE successes' = successes + 1 /\ UNCHANGED <<state, failures>>

SuccessOpen ==
    /\ state = "open"
    /\ UNCHANGED <<state, failures, successes>>

\* afterCall: every call that was let through reports once.
Failure(c, critical) ==
    /\ c \in inCall
    /\ inCall' = inCall \ {c}
    /\ FailureClosed(critical) \/ FailureHalfOpen \/ FailureOpen
    /\ streak' = IF streak < failureThreshold THEN streak + 1 ELSE streak

Success(c) ==
    /\ c \in inCall
    /\ inCall' = inCall \ {c}
    /\ SuccessClosed \/ SuccessHalfOpen \/ SuccessOpen
    /\ streak' = 0
    /\ probes' = IF probes < successThreshold THEN probes + 1 ELSE probes
    /\ UNCHANGED sinceFailure

CBTick ==
    /\ sinceFailure < openTimeout
    /\ sinceFailure' = sinceFailure + 1
    /\ UNCHANGED <<state, failures, successes, inCall, streak, probes>>

CBNext ==
    \/ CBTick
    \/ \E c \in Caller :
          \/ Admit(c) \/ Reject(c) \/ Success(c)
          \/ \E critical \in BOOLEAN : Failure(c, critical)

CBSpec == CBInit /\ [][CBNext]_cbVars

\* Calls end, time passes, and a caller that may call keeps calling.
CBFairSpec ==
    /\ CBSpec
    /\ WF_cbVars(CBTick)
    /\ \A c \in Caller : WF_cbVars(Admit(c)) /\ WF_cbVars(Success(c) \/ Failure(c, FALSE))

-----------------------------------------------------------------------------
CBTypeOK ==
    /\ state \in {"closed", "open", "halfOpen"}
    /\ failures \in Nat /\ successes \in Nat
    /\ failures <= failureThreshold \/ failures = 1
    /\ sinceFailure \in 0 .. openTimeout
    /\ inCall \subseteq Caller
    /\ streak \in Nat /\ probes \in Nat

\* A closed circuit has seen fewer failures in a row than the threshold, and
\* counts exactly those: a success anywhere in between starts the count anew.
\* The bound fails to hold only for a threshold of 0.
StreakCounted ==
    state = "closed" /\ failureThreshold > 0 =>
       failures < failureThreshold /\ failures <= streak

\* An open circuit closes only after successThreshold successes have been
\* reported since it last opened.
ClosedByProbes ==
    [][state # "closed" /\ state' = "closed" => probes' >= successThreshold]_cbVars

\* An open circuit is tried again in the end.
Retried == state = "open" ~> state # "open"
=============================================================================
