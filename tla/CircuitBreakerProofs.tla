------------------------ MODULE CircuitBreakerProofs ------------------------
(***************************************************************************)
(* The circuit breaker for any number of callers and any thresholds and    *)
(* timeout, zero included.                                                 *)
(***************************************************************************)
EXTENDS CircuitBreaker, TLAPS

\* What the counters say in each state: a closed circuit's failures are in a
\* row and fewer than the threshold, a half-open one's successes are probes.
CountsMatch ==
    /\ state = "closed" =>
          (failures < failureThreshold \/ failures = 0) /\ failures <= streak
    /\ state = "halfOpen" => successes <= probes

BreakerInv ==
    /\ CBTypeOK
    /\ CountsMatch

\* The invariant holds of a new breaker.
LEMMA BreakerInit == CBInit => BreakerInv
BY BreakerAssumption DEF CBInit, BreakerInv, CBTypeOK, CountsMatch

\* Letting a call through resets the successes when the circuit was open.
LEMMA AdmitStep ==
    ASSUME BreakerInv, NEW c \in Caller, Admit(c) PROVE BreakerInv'
BY BreakerAssumption DEF BreakerInv, CBTypeOK, CountsMatch, Admit, ToHalfOpen

\* A failure counts, or opens the circuit.
LEMMA FailureStep ==
    ASSUME BreakerInv, NEW c \in Caller, NEW critical \in BOOLEAN, Failure(c, critical)
    PROVE  BreakerInv'
<1> USE BreakerAssumption DEF BreakerInv, CBTypeOK, CountsMatch, Failure, Open
<1>1. CASE FailureClosed(critical)
  BY <1>1 DEF FailureClosed
<1>2. CASE FailureHalfOpen
  BY <1>2 DEF FailureHalfOpen
<1>3. CASE FailureOpen
  BY <1>3 DEF FailureOpen
<1> QED BY <1>1, <1>2, <1>3

\* A success ends a row of failures, or is one more probe.
LEMMA SuccessStep ==
    ASSUME BreakerInv, NEW c \in Caller, Success(c) PROVE BreakerInv'
<1> USE BreakerAssumption DEF BreakerInv, CBTypeOK, CountsMatch, Success
<1>1. CASE SuccessClosed
  BY <1>1 DEF SuccessClosed
<1>2. CASE SuccessHalfOpen
  BY <1>2 DEF SuccessHalfOpen, EnoughSuccesses
<1>3. CASE SuccessOpen
  BY <1>3 DEF SuccessOpen
<1> QED BY <1>1, <1>2, <1>3

\* Every step keeps the invariant.
LEMMA BreakerStep == BreakerInv /\ [CBNext]_cbVars => BreakerInv'
<1> SUFFICES ASSUME BreakerInv, [CBNext]_cbVars PROVE BreakerInv'
  OBVIOUS
<1>1. CASE CBTick
  BY <1>1, BreakerAssumption DEF CBTick, BreakerInv, CBTypeOK, CountsMatch
<1>2. ASSUME NEW c \in Caller, Admit(c) PROVE BreakerInv'
  BY <1>2, AdmitStep
<1>3. ASSUME NEW c \in Caller, Reject(c) PROVE BreakerInv'
  BY <1>3 DEF Reject, LeaveAsIs, cbVars, BreakerInv, CBTypeOK, CountsMatch
<1>4. ASSUME NEW c \in Caller, Success(c) PROVE BreakerInv'
  BY <1>4, SuccessStep
<1>5. ASSUME NEW c \in Caller, NEW critical \in BOOLEAN, Failure(c, critical)
      PROVE  BreakerInv'
  BY <1>5, FailureStep
<1>6. CASE UNCHANGED cbVars
  BY <1>6 DEF cbVars, BreakerInv, CBTypeOK, CountsMatch
<1> QED BY <1>1, <1>2, <1>3, <1>4, <1>5, <1>6 DEF CBNext

\* beforeCall, onSuccess and onFailure: the counters stay in their ranges.
THEOREM BreakerTypes == CBSpec => []CBTypeOK
<1>1. BreakerInv => CBTypeOK
  BY DEF BreakerInv
<1> QED BY BreakerInit, BreakerStep, <1>1, PTL DEF CBSpec

\* onFailure and onSuccess: a closed circuit has seen fewer failures in a row
\* than the threshold and counts no failure from before the last success.
THEOREM FailuresCounted == CBSpec => []StreakCounted
<1>1. BreakerInv => StreakCounted
  BY BreakerAssumption DEF BreakerInv, CBTypeOK, CountsMatch, StreakCounted
<1> QED BY BreakerInit, BreakerStep, <1>1, PTL DEF CBSpec

\* onSuccess: the circuit closes only after successThreshold successes since
\* it last opened, also when calls let through earlier report late.
THEOREM ProbedBeforeClosed == CBSpec => ClosedByProbes
<1>1. BreakerInv /\ [CBNext]_cbVars =>
         [state # "closed" /\ state' = "closed" => probes' >= successThreshold]_cbVars
  <2> SUFFICES ASSUME BreakerInv, CBNext, state # "closed", state' = "closed"
               PROVE  probes' >= successThreshold
    OBVIOUS
  <2>1. PICK c \in Caller : Success(c)
    BY DEF CBNext, CBTick, Admit, ToHalfOpen, Reject, LeaveAsIs, cbVars, Failure,
           FailureClosed, FailureHalfOpen, FailureOpen, Open
  <2>2. SuccessHalfOpen
    BY <2>1 DEF Success, SuccessClosed, SuccessOpen
  <2>3. successes + 1 >= successThreshold /\ successes <= probes
    BY <2>2 DEF SuccessHalfOpen, EnoughSuccesses, BreakerInv, CountsMatch
  <2> QED BY <2>1, <2>3, BreakerAssumption DEF Success, BreakerInv, CBTypeOK
<1> QED BY BreakerInit, BreakerStep, <1>1, PTL DEF CBSpec, ClosedByProbes
=============================================================================
