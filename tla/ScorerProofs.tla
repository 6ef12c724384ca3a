---------------------------- MODULE ScorerProofs ----------------------------
(***************************************************************************)
(* GeminiScorer, for any thresholds, delays, bucket and number of retries: *)
(* the ranges of its state, what it does with the breaker and the limiter, *)
(* and that each of its steps is one that Scorer allows.                   *)
(***************************************************************************)
EXTENDS GeminiScorer, FiniteSetTheorems, TLAPS

Breaker == INSTANCE CircuitBreakerProofs

-----------------------------------------------------------------------------
(* The rate limiter, for any number of callers *)

LimiterInv == RLTypeOK /\ DueByRefill

\* Dividing by the interval: a whole number, and none before it has passed.
LEMMA WholeIntervals ==
    ASSUME NEW n \in Nat, NEW d \in Nat \ {0}
    PROVE  n \div d \in Nat /\ (n \div d = 0 => n < d)
OBVIOUS

\* What the first part of Wait finds: an empty bucket means that the refill is
\* still to come.
LEMMA RefillRange ==
    ASSUME RLTypeOK
    PROVE  /\ Refilled \in 0 .. maxTokens
           /\ ElapsedAfterRefill \in 0 .. Saturated
           /\ Refilled = 0 => elapsed < refillRate /\ waitTime \in 0 .. refillRate
<1>1. elapsed \in Nat /\ tokens \in 0 .. maxTokens /\ elapsed \in 0 .. Saturated
  BY RateAssumption DEF RLTypeOK, Saturated
<1>2. Saturated \in Nat
  BY RateAssumption DEF Saturated
<1>3. tokensToAdd \in Nat /\ (tokensToAdd = 0 => elapsed < refillRate)
  BY <1>1, RateAssumption, WholeIntervals DEF tokensToAdd
<1>4. Refilled \in 0 .. maxTokens /\ (Refilled = 0 => tokensToAdd = 0)
  BY <1>1, <1>3, RateAssumption DEF Refilled, Smaller
<1>5. ElapsedAfterRefill \in 0 .. Saturated
  BY <1>1, <1>2, <1>3 DEF ElapsedAfterRefill
<1> QED BY <1>1, <1>3, <1>4, <1>5, RateAssumption DEF waitTime

\* Letting a call through counts it in the newest tick.
LEMMA GrantTyped ==
    ASSUME RLTypeOK, Grant PROVE granted' \in [Window -> Nat]
BY RateAssumption DEF RLTypeOK, Grant, Window

\* The limiter starts with a full bucket and nobody asleep.
LEMMA LimiterInit == RLInit => LimiterInv
<1>1. Saturated \in Nat
  BY RateAssumption DEF Saturated
<1> QED BY <1>1, RateAssumption DEF RLInit, LimiterInv, RLTypeOK, DueByRefill

\* Wait finds a token.
LEMMA TakeTokenStep ==
    ASSUME LimiterInv, NEW c \in Caller, TakeToken(c) PROVE LimiterInv'
<1>1. RLTypeOK'
  BY RefillRange, GrantTyped, RateAssumption DEF LimiterInv, TakeToken, RLTypeOK
<1>2. DueByRefill'
  BY RateAssumption DEF LimiterInv, TakeToken, RLTypeOK, DueByRefill, ElapsedAfterRefill
<1> QED BY <1>1, <1>2 DEF LimiterInv

\* Wait goes to sleep: until the refill, no longer.
LEMMA SleepStep ==
    ASSUME LimiterInv, NEW c \in Caller, Sleep(c) PROVE LimiterInv'
<1>1. elapsed < refillRate /\ waitTime \in 0 .. refillRate
  BY RefillRange DEF LimiterInv, Sleep
<1>2. RLTypeOK'
  BY <1>1 DEF LimiterInv, Sleep, RLTypeOK, Saturated, Window
<1>3. DueByRefill'
  <2> SUFFICES ASSUME NEW d \in asleep', elapsed < refillRate
               PROVE  timer'[d] + elapsed <= refillRate
    BY DEF DueByRefill, Sleep
  <2>1. elapsed \in Nat
    BY RateAssumption DEF LimiterInv, RLTypeOK, Saturated
  <2>2. CASE d = c
    BY <2>1, <2>2, <1>1, RateAssumption DEF Sleep, LimiterInv, RLTypeOK, waitTime
  <2>3. CASE d # c
    BY <2>3 DEF Sleep, LimiterInv, RLTypeOK, DueByRefill
  <2> QED BY <2>2, <2>3
<1> QED BY <1>2, <1>3 DEF LimiterInv

\* time.After fires.
LEMMA WakeStep ==
    ASSUME LimiterInv, NEW c \in Caller, Wake(c) PROVE LimiterInv'
<1>0. Saturated \in Nat
  BY RateAssumption DEF Saturated
<1>1. RLTypeOK'
  BY <1>0, GrantTyped, RateAssumption
     DEF LimiterInv, Wake, RLTypeOK, BucketAfterSleep, Window, Saturated
<1>2. DueByRefill'
  BY RateAssumption DEF LimiterInv, Wake, RLTypeOK, DueByRefill
<1> QED BY <1>1, <1>2 DEF LimiterInv

\* Timers and the time since the refill move together.
LEMMA RLTickStep ==
    ASSUME LimiterInv, RLTick PROVE LimiterInv'
<1>0. Saturated \in Nat /\ elapsed \in 0 .. Saturated /\ elapsed \in Nat
  BY RateAssumption DEF Saturated, LimiterInv, RLTypeOK
<1>1. elapsed' \in 0 .. Saturated /\ elapsed' >= elapsed /\ elapsed' <= elapsed + 1
  BY <1>0 DEF RLTick, Smaller
<1>2. ASSUME NEW c \in Caller
      PROVE  timer'[c] = TimerTick(timer[c]) /\ timer'[c] \in 0 .. refillRate
  BY RateAssumption DEF RLTick, TimerTick, LimiterInv, RLTypeOK
<1>3. timer' \in [Caller -> 0 .. refillRate]
  BY <1>2 DEF RLTick
<1>4. granted' \in [Window -> Nat]
  BY RateAssumption DEF RLTick, LimiterInv, RLTypeOK, Window
<1>5. RLTypeOK'
  BY <1>1, <1>3, <1>4 DEF RLTick, LimiterInv, RLTypeOK, Saturated, Window
<1>6. DueByRefill'
  <2> SUFFICES ASSUME NEW c \in asleep, elapsed' < refillRate
               PROVE  timer'[c] + elapsed' <= refillRate
    BY DEF DueByRefill, RLTick
  <2>1. c \in Caller /\ timer[c] \in 0 .. refillRate
    BY DEF LimiterInv, RLTypeOK
  <2>2. elapsed < refillRate
    BY <1>0, <1>1, RateAssumption
  <2>3. timer[c] + elapsed <= refillRate
    BY <2>2 DEF LimiterInv, DueByRefill
  <2> QED BY <1>0, <1>1, <1>2, <2>1, <2>3, RateAssumption DEF TimerTick
<1> QED BY <1>5, <1>6 DEF LimiterInv

\* Every step of the limiter keeps the invariant.
LEMMA LimiterStep == LimiterInv /\ [RLNext]_rlVars => LimiterInv'
<1> SUFFICES ASSUME LimiterInv, [RLNext]_rlVars PROVE LimiterInv'
  OBVIOUS
<1>1. CASE UNCHANGED rlVars
  BY <1>1 DEF rlVars, LimiterInv, RLTypeOK, DueByRefill, Saturated, Window
<1>2. CASE RLNext
  BY <1>2, RLTickStep, TakeTokenStep, SleepStep, WakeStep DEF RLNext
<1> QED BY <1>1, <1>2

\* Wait: whatever the callers do, a sleeper is due no later than the refill it
\* waits for.
THEOREM SleepEndsByRefill == RLSpec => []DueByRefill
<1>1. LimiterInv => DueByRefill
  BY DEF LimiterInv
<1> QED BY LimiterInit, LimiterStep, <1>1, PTL DEF RLSpec

-----------------------------------------------------------------------------
(* The rate limiter, for one caller: two buckets *)

\* The requests of the window that were let through since lastRefill.
Newer == {r \in Requests : r[1] < elapsed}

\* What is spent and what is left make two buckets, and one bucket counting
\* only what was spent since the refill.  A sleeper is not woken before the
\* refill is due, so it is only a whole window later that a bucket comes.
LimiterCount ==
    /\ IsFiniteSet(Requests)
    /\ Cardinality(Requests) + tokens <= 2 * maxTokens
    /\ Cardinality(Newer) + tokens <= maxTokens
    /\ \A c \in asleep : timer[c] + elapsed >= refillRate

\* Time is not cut off before a refill is due.
LEMMA SaturatedIsLate == Saturated \in Nat /\ Saturated >= refillRate
<1> DEFINE n == maxTokens - 1
<1>1. n \in Nat /\ maxTokens = n + 1 /\ refillRate * n \in Nat
  BY RateAssumption
<1>2. refillRate * (n + 1) = refillRate * n + refillRate
  BY <1>1, RateAssumption
<1> QED BY <1>1, <1>2, RateAssumption DEF Saturated

\* Which requests the window holds.
LEMMA RequestsAre ==
    ASSUME RLTypeOK, NEW r
    PROVE  r \in Requests <=>
             \E k \in Window : \E n \in 1 .. granted[k] : r = <<k, n>>
BY DEF Requests

\* The numbers LimiterCount speaks of are numbers.
LEMMA CountsAreNat ==
    ASSUME RLTypeOK, LimiterCount
    PROVE  /\ IsFiniteSet(Newer) /\ Newer \subseteq Requests
           /\ Cardinality(Requests) \in Nat /\ Cardinality(Newer) \in Nat
           /\ tokens \in Nat /\ elapsed \in Nat /\ maxTokens \in Nat
<1>1. Newer \subseteq Requests
  BY DEF Newer
<1>2. IsFiniteSet(Newer)
  BY <1>1, FS_Subset DEF LimiterCount
<1> QED BY <1>1, <1>2, FS_CardinalityType, RateAssumption, SaturatedIsLate
        DEF LimiterCount, RLTypeOK

\* Letting a call through adds one request to the window.
LEMMA GrantAddsOne ==
    ASSUME RLTypeOK, IsFiniteSet(Requests), Grant
    PROVE  \E r : /\ Requests' = Requests \cup {r} /\ r \notin Requests /\ r[1] = 0
<1> DEFINE r == <<0, granted[0] + 1>>
<1>0. 0 \in Window /\ granted[0] \in Nat /\ granted \in [Window -> Nat]
  BY RateAssumption DEF Window, RLTypeOK
<1>1. ASSUME NEW q PROVE q \in Requests' <=> q \in Requests \cup {r}
  <2>1. q \in Requests' <=>
          \E k \in Window : \E n \in 1 .. granted'[k] : q = <<k, n>>
    BY RateAssumption DEF Requests, Window
  <2>2. \A k \in Window : granted'[k] = IF k = 0 THEN granted[0] + 1 ELSE granted[k]
    BY <1>0 DEF Grant
  <2>3. q \in Requests' => q \in Requests \cup {r}
    <3> SUFFICES ASSUME q \in Requests' PROVE q \in Requests \cup {r}
      OBVIOUS
    <3>1. PICK k, n : k \in Window /\ n \in 1 .. granted'[k] /\ q = <<k, n>>
      BY <2>1
    <3>2. CASE n \in 1 .. granted[k]
      BY <3>1, <3>2, RequestsAre
    <3>3. CASE n \notin 1 .. granted[k]
      <4>1. k = 0 /\ n = granted[0] + 1
        BY <3>1, <3>3, <2>2, <1>0
      <4> QED BY <3>1, <4>1
    <3> QED BY <3>2, <3>3
  <2>4. q \in Requests => q \in Requests'
    <3> SUFFICES ASSUME q \in Requests PROVE q \in Requests'
      OBVIOUS
    <3>1. PICK k, n : k \in Window /\ n \in 1 .. granted[k] /\ q = <<k, n>>
      BY RequestsAre
    <3>2. n \in 1 .. granted'[k]
      BY <3>1, <2>2, <1>0
    <3> QED BY <2>1, <3>1, <3>2
  <2>5. r \in Requests'
    <3>1. granted[0] + 1 \in 1 .. granted'[0]
      BY <2>2, <1>0
    <3>2. r \in Requests' <=>
            \E k \in Window : \E n \in 1 .. granted'[k] : r = <<k, n>>
      BY RateAssumption DEF Requests, Window
    <3> QED BY <3>1, <3>2, <1>0
  <2> QED BY <2>3, <2>4, <2>5
<1>2. r \notin Requests
  <2> SUFFICES ASSUME r \in Requests PROVE FALSE
    OBVIOUS
  <2>1. PICK k, n : k \in Window /\ n \in 1 .. granted[k] /\ r = <<k, n>>
    BY RequestsAre
  <2>2. k = 0 /\ n = granted[0] + 1
    BY <2>1
  <2> QED BY <2>1, <2>2, <1>0
<1>3. r[1] = 0
  OBVIOUS
<1> HIDE DEF r
<1>4. Requests' = Requests \cup {r}
  BY <1>1
<1> QED BY <1>2, <1>3, <1>4

\* A refill finds only requests that were made since the one before it.
LEMMA RefillIsLate ==
    ASSUME RLTypeOK, elapsed >= refillRate PROVE Newer = Requests
<1>1. ASSUME NEW r \in Requests PROVE r[1] < elapsed
  <2>1. PICK k, n : k \in Window /\ n \in 1 .. granted[k] /\ r = <<k, n>>
    BY RequestsAre
  <2> QED BY <2>1, RateAssumption, SaturatedIsLate DEF Window, RLTypeOK
<1> QED BY <1>1 DEF Newer

\* The sums, for numbers.
LEMMA SpendAfterRefill ==
    ASSUME NEW c \in Nat, NEW t \in Nat, NEW u \in Int, NEW b \in Nat,
           c + t <= b, u <= b - 1
    PROVE  c + 1 + u <= 2 * b
OBVIOUS

\* Spending a token that was there changes no sum.
LEMMA SpendAnother ==
    ASSUME NEW c \in Nat, NEW t \in Nat, NEW b \in Nat, c + t <= b
    PROVE  c + 1 + (t - 1) <= b
OBVIOUS

\* A bucket comes with a refill that is due.
LEMMA CountAfterRefill ==
    ASSUME RLTypeOK, RLTypeOK', LimiterCount, Grant, elapsed >= refillRate,
           elapsed' = 0, tokens' <= maxTokens - 1, UNCHANGED timer, asleep' = {}
    PROVE  LimiterCount'
<1>0. PICK r : Requests' = Requests \cup {r} /\ r \notin Requests /\ r[1] = 0
  BY GrantAddsOne DEF LimiterCount
<1>1. /\ IsFiniteSet(Requests') /\ Cardinality(Requests') = Cardinality(Requests) + 1
  BY <1>0, FS_AddElement DEF LimiterCount
<1>2. Cardinality(Requests) + tokens <= maxTokens
  BY RefillIsLate DEF LimiterCount
<1>3. Cardinality(Requests) \in Nat /\ tokens \in Nat /\ maxTokens \in Nat /\ tokens' \in Nat
  BY CountsAreNat DEF RLTypeOK
<1>4. Cardinality(Requests') + tokens' <= 2 * maxTokens
  BY <1>1, <1>2, <1>3, SpendAfterRefill
<1>5. Newer' = {}
  <2>1. ASSUME NEW q \in Requests' PROVE ~ (q[1] < elapsed')
    <3>1. PICK k, n : k \in Window /\ n \in 1 .. granted'[k] /\ q = <<k, n>>
      BY <2>1 DEF Requests, Window
    <3> QED BY <3>1 DEF Window
  <2> QED BY <2>1 DEF Newer
<1>6. Cardinality(Newer') + tokens' <= maxTokens
  BY <1>5, <1>3, FS_EmptySet
<1> QED BY <1>1, <1>4, <1>5, <1>6 DEF LimiterCount

\* A token is spent that was there.
LEMMA CountAfterSpend ==
    ASSUME RLTypeOK, LimiterCount, Grant, elapsed' = elapsed, tokens' = tokens - 1,
           UNCHANGED <<timer, asleep>>
    PROVE  LimiterCount'
<1>0. PICK r : Requests' = Requests \cup {r} /\ r \notin Requests /\ r[1] = 0
  BY GrantAddsOne DEF LimiterCount
<1>1. /\ IsFiniteSet(Requests') /\ Cardinality(Requests') = Cardinality(Requests) + 1
  BY <1>0, FS_AddElement DEF LimiterCount
<1>2. /\ Cardinality(Requests) \in Nat /\ Cardinality(Newer) \in Nat
      /\ tokens \in Nat /\ maxTokens \in Nat /\ 2 * maxTokens \in Nat
      /\ IsFiniteSet(Newer) /\ Newer \subseteq Requests
  BY CountsAreNat
<1>3. Cardinality(Requests') + tokens' <= 2 * maxTokens
  BY <1>1, <1>2, SpendAnother DEF LimiterCount
<1>4. Newer' \subseteq Newer \cup {r}
  BY <1>0 DEF Newer
<1>5. r \notin Newer
  BY <1>0, <1>2
<1>6. /\ IsFiniteSet(Newer \cup {r}) /\ Cardinality(Newer \cup {r}) = Cardinality(Newer) + 1
  BY <1>2, <1>5, FS_AddElement
<1>7. Cardinality(Newer') \in Nat /\ Cardinality(Newer') <= Cardinality(Newer) + 1
  BY <1>4, <1>6, FS_Subset, FS_CardinalityType
<1>8. Cardinality(Newer) + 1 + (tokens - 1) <= maxTokens
  BY <1>2, SpendAnother DEF LimiterCount
<1>9. Cardinality(Newer') + tokens' <= maxTokens
  BY <1>2, <1>7, <1>8
<1> QED BY <1>1, <1>3, <1>9 DEF LimiterCount

\* A tick makes every request older and drops the oldest: the window's requests
\* are those of the tick before, one tick younger.
LEMMA TickShifts ==
    ASSUME RLTypeOK, RLTick, NEW q \in Requests'
    PROVE  /\ q = <<q[1], q[2]>> /\ q[1] \in Nat /\ q[1] > 0
           /\ <<q[1] - 1, q[2]>> \in Requests
<1>1. PICK k, n : k \in Window /\ n \in 1 .. granted'[k] /\ q = <<k, n>>
  BY DEF Requests, Window
<1>2. k # 0 /\ n \in 1 .. granted[k - 1]
  BY <1>1 DEF RLTick
<1>3. k \in Nat /\ k > 0 /\ k - 1 \in Window
  BY <1>1, <1>2, RateAssumption DEF Window
<1>4. <<k - 1, n>> \in Requests
  BY <1>2, <1>3, RequestsAre
<1> QED BY <1>1, <1>3, <1>4

\* So the window holds no more of them, and neither do those since lastRefill.
LEMMA TickDropsSome ==
    ASSUME RLTypeOK, RLTick, IsFiniteSet(Requests)
    PROVE  /\ IsFiniteSet(Requests')
           /\ Cardinality(Requests') <= Cardinality(Requests)
           /\ Cardinality(Newer') <= Cardinality(Newer)
<1>1. ASSUME NEW S \in SUBSET Requests', NEW T, IsFiniteSet(T),
             \A q \in S : <<q[1] - 1, q[2]>> \in T
      PROVE  IsFiniteSet(S) /\ Cardinality(S) <= Cardinality(T)
  <2> DEFINE f == [q \in S |-> <<q[1] - 1, q[2]>>]
  <2>1. f \in [S -> T]
    BY <1>1
  <2>2. ASSUME NEW a \in S, NEW b \in S, f[a] = f[b] PROVE a = b
    <3>1. /\ a = <<a[1], a[2]>> /\ a[1] \in Nat
          /\ b = <<b[1], b[2]>> /\ b[1] \in Nat
      BY TickShifts
    <3>2. a[1] - 1 = b[1] - 1 /\ a[2] = b[2]
      BY <2>2
    <3> QED BY <3>1, <3>2
  <2>3. f \in Injection(S, T)
    BY <2>1, <2>2 DEF Injection, IsInjective
  <2> HIDE DEF f
  <2> QED BY <2>3, <1>1, FS_Injection
<1>2. /\ IsFiniteSet(Requests') /\ Cardinality(Requests') <= Cardinality(Requests)
  BY <1>1, TickShifts
<1>3. Newer \subseteq Requests /\ IsFiniteSet(Newer) /\ Newer' \subseteq Requests'
  BY FS_Subset DEF Newer
<1>4. ASSUME NEW q \in Newer' PROVE <<q[1] - 1, q[2]>> \in Newer
  <2>1. q \in Requests' /\ q[1] < elapsed'
    BY <1>4 DEF Newer
  <2>2. q[1] \in Nat /\ <<q[1] - 1, q[2]>> \in Requests
    BY <2>1, TickShifts
  <2>3. elapsed \in Nat /\ elapsed' \in Nat /\ elapsed' <= elapsed + 1
    BY SaturatedIsLate DEF RLTypeOK, RLTick, Smaller
  <2>4. q[1] - 1 < elapsed
    BY <2>1, <2>2, <2>3
  <2> QED BY <2>2, <2>4 DEF Newer
<1> QED BY <1>1, <1>2, <1>3, <1>4

TwoBucketsInv == LimiterInv /\ LimiterCount

\* A limiter starts with one bucket and an empty window.
LEMMA CountInit == RLInit => TwoBucketsInv
<1> SUFFICES ASSUME RLInit PROVE LimiterCount
  BY LimiterInit DEF TwoBucketsInv
<1>1. RLTypeOK
  BY LimiterInit DEF LimiterInv
<1>2. Requests = {}
  <2>1. \A q : q \notin Requests
    BY <1>1, RequestsAre DEF RLInit
  <2> QED BY <2>1
<1>3. Newer = {}
  BY <1>2 DEF Newer
<1> QED BY <1>2, <1>3, FS_EmptySet, RateAssumption DEF RLInit, LimiterCount

\* Only its steps with a token let a request through.
LEMMA CountTake ==
    ASSUME TwoBucketsInv, TakeToken(me) PROVE LimiterCount'
<1>0. asleep' = {} /\ UNCHANGED <<timer, asleep>> /\ Grant
  BY CallerAssumption DEF TwoBucketsInv, LimiterInv, RLTypeOK, TakeToken
<1>1. RLTypeOK /\ LimiterCount /\ RLTypeOK'
  BY CallerAssumption, TakeTokenStep DEF TwoBucketsInv, LimiterInv
<1>2. /\ elapsed \in Nat /\ tokens \in Nat /\ tokens <= maxTokens /\ maxTokens \in Nat
      /\ refillRate \in Nat \ {0}
  BY <1>1, SaturatedIsLate, RateAssumption DEF RLTypeOK
<1>3. CASE tokensToAdd > 0
  <2>1. elapsed >= refillRate
    BY <1>2, <1>3 DEF tokensToAdd
  <2>2. elapsed' = 0
    BY <1>3 DEF TakeToken, ElapsedAfterRefill
  <2>3. Refilled \in 0 .. maxTokens /\ tokens' = Refilled - 1
    BY <1>1, RefillRange DEF TakeToken
  <2> QED BY <1>0, <1>1, <1>2, <2>1, <2>2, <2>3, CountAfterRefill
<1>4. CASE ~ (tokensToAdd > 0)
  <2>1. tokensToAdd \in Nat
    BY <1>2, WholeIntervals DEF tokensToAdd
  <2>2. Refilled = tokens
    BY <1>2, <1>4, <2>1 DEF Refilled, Smaller
  <2>3. elapsed' = elapsed /\ tokens' = tokens - 1
    BY <1>4, <2>2 DEF TakeToken, ElapsedAfterRefill
  <2> QED BY <1>0, <1>1, <2>3, CountAfterSpend
<1> QED BY <1>3, <1>4

\* A sleeper is woken when the refill is due, and takes it.
LEMMA CountWake ==
    ASSUME TwoBucketsInv, Wake(me) PROVE LimiterCount'
<1>1. RLTypeOK /\ LimiterCount /\ RLTypeOK'
  BY CallerAssumption, WakeStep DEF TwoBucketsInv, LimiterInv
<1>2. asleep' = {} /\ UNCHANGED timer /\ Grant /\ elapsed' = 0
  BY <1>1, CallerAssumption DEF RLTypeOK, Wake
<1>3. elapsed \in Nat /\ refillRate \in Nat /\ maxTokens \in Nat
  BY <1>1, SaturatedIsLate, RateAssumption DEF RLTypeOK
<1>4. elapsed >= refillRate
  BY <1>1, <1>3 DEF Wake, LimiterCount
<1>5. tokens' <= maxTokens - 1
  BY <1>3 DEF Wake, BucketAfterSleep
<1> QED BY <1>1, <1>2, <1>4, <1>5, CountAfterRefill

\* Going to sleep sets the timer to the refill, not before.
LEMMA CountSleep ==
    ASSUME TwoBucketsInv, Sleep(me) PROVE LimiterCount'
<1>1. RLTypeOK /\ LimiterCount
  BY DEF TwoBucketsInv, LimiterInv
<1>2. UNCHANGED <<Requests, Newer, tokens>>
  BY DEF Sleep, Requests, Newer
<1>3. asleep' = {me} /\ timer'[me] = refillRate - elapsed /\ UNCHANGED elapsed
  BY <1>1, CallerAssumption DEF Sleep, RLTypeOK, waitTime
<1>4. timer'[me] + elapsed' >= refillRate
  BY <1>1, <1>3, SaturatedIsLate, RateAssumption DEF RLTypeOK
<1> QED BY <1>1, <1>2, <1>3, <1>4 DEF LimiterCount

\* Time lets requests leave the window, and brings timer and refill together.
LEMMA CountTick ==
    ASSUME TwoBucketsInv, RLTick PROVE LimiterCount'
<1>1. RLTypeOK /\ LimiterCount
  BY DEF TwoBucketsInv, LimiterInv
<1>2. /\ IsFiniteSet(Requests')
      /\ Cardinality(Requests') <= Cardinality(Requests)
      /\ Cardinality(Newer') <= Cardinality(Newer)
  BY <1>1, TickDropsSome DEF LimiterCount
<1>3. /\ Cardinality(Requests) \in Nat /\ Cardinality(Newer) \in Nat
      /\ tokens \in Nat /\ maxTokens \in Nat /\ elapsed \in Nat
  BY <1>1, CountsAreNat
<1>4. Cardinality(Requests') \in Nat /\ Cardinality(Newer') \in Nat
  <2>1. IsFiniteSet(Newer')
    BY <1>2, FS_Subset DEF Newer
  <2> QED BY <1>2, <2>1, FS_CardinalityType
<1>5. tokens' = tokens /\ asleep' = asleep
  BY DEF RLTick
<1>6. Cardinality(Requests') + tokens' <= 2 * maxTokens
  BY <1>1, <1>2, <1>3, <1>4, <1>5 DEF LimiterCount
<1>7. Cardinality(Newer') + tokens' <= maxTokens
  BY <1>1, <1>2, <1>3, <1>4, <1>5 DEF LimiterCount
<1>8. ASSUME NEW c \in asleep PROVE timer'[c] + elapsed' >= refillRate
  <2>1. c \in Caller /\ timer[c] \in Nat /\ timer[c] + elapsed >= refillRate
    BY <1>1, RateAssumption DEF RLTypeOK, LimiterCount
  <2>2. timer'[c] = TimerTick(timer[c]) /\ elapsed' = Smaller(elapsed + 1, Saturated)
    BY <2>1 DEF RLTick
  <2> QED BY <1>3, <2>1, <2>2, SaturatedIsLate, RateAssumption DEF TimerTick, Smaller
<1> QED BY <1>2, <1>5, <1>6, <1>7, <1>8 DEF LimiterCount

\* Every step of the limiter keeps the invariant, for the one caller it has.
LEMMA CountStep == TwoBucketsInv /\ [RLNext]_rlVars => TwoBucketsInv'
<1> SUFFICES ASSUME TwoBucketsInv, [RLNext]_rlVars PROVE LimiterCount'
  BY LimiterStep DEF TwoBucketsInv
<1>1. CASE UNCHANGED rlVars
  BY <1>1 DEF rlVars, TwoBucketsInv, LimiterCount, Requests, Newer
<1>2. CASE RLNext
  BY <1>2, CallerAssumption, CountTake, CountWake, CountSleep, CountTick DEF RLNext
<1> QED BY <1>1, <1>2

-----------------------------------------------------------------------------
(* GeminiScorer is made of both *)

\* Each of its steps is a step of the limiter or leaves it alone, and likewise
\* of the breaker.
LEMMA PartsStep ==
    [Next]_vars => [RLNext]_rlVars /\ [Breaker!CBNext]_cbVars
<1> SUFFICES ASSUME [Next]_vars PROVE [RLNext]_rlVars /\ [Breaker!CBNext]_cbVars
  OBVIOUS
<1>0. me \in Caller
  BY CallerAssumption
<1>1. CASE Tick
  BY <1>1 DEF Tick, RLNext, Breaker!CBNext, CB!CBTick, Breaker!CBTick
<1>2. CASE Score
  BY <1>2 DEF Score
<1>3. CASE EnterBreaker
  BY <1>0, <1>3 DEF EnterBreaker, Breaker!CBNext, CB!Admit, CB!ToHalfOpen,
                    CB!CooledDown, Breaker!Admit, Breaker!ToHalfOpen, Breaker!CooledDown
<1>4. CASE CircuitOpen
  BY <1>4 DEF CircuitOpen, CB!Reject, CB!LeaveAsIs, CB!cbVars, cbVars
<1>5. CASE WaitForToken
  BY <1>0, <1>5 DEF WaitForToken, RLNext
<1>6. ASSUME NEW r \in Reply, Answered(r)
      PROVE  [RLNext]_rlVars /\ [Breaker!CBNext]_cbVars
  <2>1. UNCHANGED rlVars
    BY <1>6 DEF Answered
  <2>2. Breaker!Success(me) \/ \E critical \in BOOLEAN : Breaker!Failure(me, critical)
    BY <1>6 DEF Answered, isCriticalError,
       CB!Success, CB!SuccessClosed, CB!SuccessHalfOpen, CB!SuccessOpen, CB!EnoughSuccesses,
       Breaker!Success, Breaker!SuccessClosed, Breaker!SuccessHalfOpen, Breaker!SuccessOpen,
       Breaker!EnoughSuccesses,
       CB!Failure, CB!FailureClosed, CB!FailureHalfOpen, CB!FailureOpen, CB!Open,
       Breaker!Failure, Breaker!FailureClosed, Breaker!FailureHalfOpen, Breaker!FailureOpen,
       Breaker!Open
  <2> QED BY <1>0, <2>1, <2>2 DEF Breaker!CBNext
<1>7. CASE NoAttempt \/ ReturnResult \/ ReturnPermanent \/ ReturnQuota \/ ReturnLast
           \/ BackOff \/ Retry \/ UNCHANGED vars
  BY <1>7 DEF NoAttempt, ReturnResult, ReturnPermanent, ReturnQuota, ReturnLast,
              BackOff, Retry, vars
<1> QED BY <1>1, <1>2, <1>3, <1>4, <1>5, <1>6, <1>7 DEF Next, Scoring
-----------------------------------------------------------------------------
(* Score's loop *)

\* GSTypeOK without the parts of the limiter and the breaker.
LoopTypeOK ==
    /\ pc \in {"idle", "attempt", "limiter", "api", "answered", "delay"}
    /\ maxRetries \in Retries
    /\ attempt \in Nat /\ backoff \in Nat /\ limited \in Nat /\ delay \in Nat
    /\ reply \in Reply \cup {"none"}
    /\ requests \in Nat
    /\ outcome \in {"none", "result", "quota", "error", "circuitOpen"}

\* Each attempt makes one request, and only an answer that asking again can
\* change leads to the next one, while any is left.
OneRequestEach ==
    /\ pc \in {"attempt", "limiter", "api"} =>
          requests = attempt /\ ~Permanent(reply) /\ reply # "ok"
    /\ pc \in {"limiter", "api", "answered", "delay"} => attempt <= maxRetries
    /\ pc = "delay" =>
          attempt < maxRetries /\ ~Permanent(reply) /\ reply # "ok"
    /\ pc \in {"answered", "delay"} => requests = attempt + 1

ScoreInv ==
    /\ LimiterInv /\ Breaker!BreakerInv
    /\ LoopTypeOK /\ OneRequestEach
    /\ OpenMeansQuiet /\ CriticalOpens

\* Both delays stay numbers when they are doubled.
LEMMA DoubledTyped == ASSUME NEW d \in Nat PROVE Doubled(d) \in Nat /\ 2 * d \in Nat
BY RetryAssumption DEF Doubled

\* The invariant holds of a new scorer.
LEMMA ScoreInit == Init => ScoreInv
<1> SUFFICES ASSUME Init PROVE ScoreInv
  OBVIOUS
<1>1. LimiterInv
  BY LimiterInit DEF Init
<1>2. Breaker!BreakerInv
  BY Breaker!BreakerInit, ThresholdAssumption
     DEF Init, CB!CBInit, Breaker!CBInit, Breaker!BreakerAssumption
<1>3. LoopTypeOK /\ OneRequestEach /\ OpenMeansQuiet /\ CriticalOpens
  BY RetryAssumption
     DEF Init, LoopTypeOK, OneRequestEach, OpenMeansQuiet, CriticalOpens
<1> QED BY <1>1, <1>2, <1>3 DEF ScoreInv

\* The loop's own variables.
LEMMA LoopStep ==
    ASSUME LoopTypeOK, OneRequestEach, [Next]_vars
    PROVE  LoopTypeOK' /\ OneRequestEach'
<1> USE RetryAssumption DEF LoopTypeOK, OneRequestEach, Reply, Permanent
<1>1. CASE Tick
  BY <1>1 DEF Tick
<1>2. CASE Score
  BY <1>2 DEF Score, FirstAttempt
<1>3. CASE EnterBreaker /\ UNCHANGED maxRetries
  BY <1>3 DEF EnterBreaker, loopVars
<1>4. CASE CircuitOpen /\ UNCHANGED maxRetries
  BY <1>4 DEF CircuitOpen, loopVars, ReturnWith
<1>5. CASE WaitForToken /\ UNCHANGED maxRetries
  BY <1>5 DEF WaitForToken, loopVars
<1>6. ASSUME NEW r \in Reply, Answered(r), UNCHANGED maxRetries
      PROVE  LoopTypeOK' /\ OneRequestEach'
  BY <1>6 DEF Answered, loopVars
<1>7. CASE NoAttempt /\ UNCHANGED maxRetries
  BY <1>7 DEF NoAttempt, loopVars, ReturnWith, NoAttemptError
<1>8. CASE ReturnResult /\ UNCHANGED maxRetries
  BY <1>8 DEF ReturnResult, loopVars, ReturnWith
<1>9. CASE ReturnPermanent /\ UNCHANGED maxRetries
  BY <1>9 DEF ReturnPermanent, loopVars, ReturnWith
<1>10. CASE ReturnQuota /\ UNCHANGED maxRetries
  BY <1>10 DEF ReturnQuota, loopVars, ReturnWith
<1>11. CASE ReturnLast /\ UNCHANGED maxRetries
  BY <1>11 DEF ReturnLast, loopVars, ReturnWith
<1>12. CASE BackOff /\ UNCHANGED maxRetries
  <2>1. /\ backoff' \in Nat /\ limited' \in Nat /\ delay' \in Nat
        /\ UNCHANGED <<attempt, reply, requests, outcome>> /\ pc' = "delay"
        /\ reply \in {"throttle", "server"}
    BY <1>12, DoubledTyped DEF BackOff
  <2> QED BY <1>12, <2>1 DEF BackOff, LastAttempt
<1>13. CASE Retry /\ UNCHANGED maxRetries
  BY <1>13 DEF Retry, NextAttempt
<1>14. CASE UNCHANGED vars
  BY <1>14 DEF vars, loopVars
<1> QED BY <1>1, <1>2, <1>3, <1>4, <1>5, <1>6, <1>7, <1>8, <1>9, <1>10, <1>11,
           <1>12, <1>13, <1>14 DEF Next, Scoring

\* Where the breaker is: it opens on an answer, never before one.
LEMMA QuietStep ==
    ASSUME Breaker!BreakerInv, OpenMeansQuiet, CriticalOpens, [Next]_vars
    PROVE  OpenMeansQuiet' /\ CriticalOpens'
<1> USE DEF OpenMeansQuiet, CriticalOpens
<1>0. state \in {"closed", "open", "halfOpen"}
  BY DEF Breaker!BreakerInv, Breaker!CBTypeOK
<1>1. CASE Tick
  BY <1>1 DEF Tick, CB!CBTick, cbVars
<1>2. CASE Score
  BY <1>2 DEF Score, cbVars
<1>3. CASE EnterBreaker
  BY <1>3 DEF EnterBreaker, CB!Admit, CB!ToHalfOpen
<1>4. CASE CircuitOpen
  BY <1>4 DEF CircuitOpen, ReturnWith
<1>5. CASE WaitForToken
  BY <1>5 DEF WaitForToken, cbVars
<1>6. ASSUME NEW r \in Reply, Answered(r) PROVE OpenMeansQuiet' /\ CriticalOpens'
  <2>1. OpenMeansQuiet'
    BY <1>6 DEF Answered
  <2>2. CASE r = "critical"
    <3>1. CB!Failure(me, TRUE)
      BY <1>6, <2>2 DEF Answered, isCriticalError
    <3>2. state' = "open"
      BY <3>1, <1>0 DEF CB!Failure, CB!FailureClosed, CB!FailureHalfOpen, CB!FailureOpen,
                        CB!Open
    <3> QED BY <2>1, <3>2
  <2>3. CASE r # "critical"
    BY <1>6, <2>1, <2>3 DEF Answered
  <2> QED BY <2>2, <2>3
<1>7. CASE NoAttempt \/ ReturnResult \/ ReturnPermanent \/ ReturnQuota \/ ReturnLast
  BY <1>7 DEF NoAttempt, ReturnResult, ReturnPermanent, ReturnQuota, ReturnLast, ReturnWith
<1>8. CASE BackOff \/ Retry
  BY <1>8 DEF BackOff, Retry
<1>9. CASE UNCHANGED vars
  BY <1>9 DEF vars, cbVars
<1> QED BY <1>1, <1>2, <1>3, <1>4, <1>5, <1>6, <1>7, <1>8, <1>9 DEF Next, Scoring

\* Every step keeps the invariant.
LEMMA ScoreStep == ScoreInv /\ [Next]_vars => ScoreInv'
<1> SUFFICES ASSUME ScoreInv, [Next]_vars PROVE ScoreInv'
  OBVIOUS
<1>1. LimiterInv'
  BY LimiterStep, PartsStep DEF ScoreInv
<1>2. Breaker!BreakerInv'
  BY Breaker!BreakerStep, PartsStep, ThresholdAssumption
     DEF ScoreInv, Breaker!BreakerAssumption, Breaker!cbVars, cbVars
<1> QED BY <1>1, <1>2, LoopStep, QuietStep DEF ScoreInv

\* Steps may rely on the invariant.
LEMMA ScoreInvariant == Spec => []ScoreInv
BY ScoreInit, ScoreStep, PTL DEF Spec

\* Score, the breaker and the limiter: their variables stay in their ranges.
THEOREM ScorerTypes == Spec => []GSTypeOK
<1>1. ScoreInv => GSTypeOK
  BY DEF ScoreInv, GSTypeOK, LoopTypeOK, LimiterInv, Breaker!BreakerInv,
         Breaker!CBTypeOK, CB!CBTypeOK
<1> QED BY ScoreInvariant, <1>1, PTL

\* callWithCircuitBreaker: no request is under way, nor waits for its token,
\* while the breaker is open.
THEOREM NoRequestWhileOpen == Spec => []OpenMeansQuiet
<1>1. ScoreInv => OpenMeansQuiet
  BY DEF ScoreInv
<1> QED BY ScoreInvariant, <1>1, PTL

\* isCriticalError and onFailure: a critical answer leaves the breaker open.
THEOREM CriticalErrorOpens == Spec => []CriticalOpens
<1>1. ScoreInv => CriticalOpens
  BY DEF ScoreInv
<1> QED BY ScoreInvariant, <1>1, PTL

\* Wait, as Score uses it: the caller sleeps no longer than until the refill.
THEOREM ScoreSleepsToRefill == Spec => []DueByRefill
<1>1. ScoreInv => DueByRefill
  BY DEF ScoreInv, LimiterInv
<1> QED BY ScoreInvariant, <1>1, PTL

\* Wait, as Score uses it: no window of refillRate ticks sees more requests
\* than two buckets hold.
THEOREM AtMostTwoBuckets == Spec => []TwoBuckets
<1>1. Init => TwoBucketsInv
  BY CountInit DEF Init
<1>2. TwoBucketsInv /\ [Next]_vars => TwoBucketsInv'
  BY CountStep, PartsStep
<1>3. TwoBucketsInv => TwoBuckets
  <2> SUFFICES ASSUME TwoBucketsInv PROVE TwoBuckets
    OBVIOUS
  <2>1. /\ Cardinality(Requests) + tokens <= 2 * maxTokens
        /\ Cardinality(Requests) \in Nat /\ tokens \in Nat /\ maxTokens \in Nat
    BY CountsAreNat DEF TwoBucketsInv, LimiterInv, LimiterCount
  <2> QED BY <2>1 DEF TwoBuckets, InWindow
<1> QED BY <1>1, <1>2, <1>3, PTL DEF Spec

-----------------------------------------------------------------------------
(* Score keeps its promise to the worker *)

\* The safety half of KeepsPromise: it starts as Scorer does and makes its
\* steps or none.  That Score returns is liveness.
PromisedSteps ==
    ScorerPromise!ScorerInit /\ [][ScorerPromise!ScorerNext]_ScorerPromise!scorerVars

\* Score returns an outcome; the last answer stays.
LEMMA ReturnPromised ==
    ASSUME LoopTypeOK, pc # "idle",
           NEW o \in {"result", "quota", "error", "circuitOpen"}, ReturnWith(o),
           UNCHANGED <<maxRetries, reply, requests>>,
           o \in {"result", "quota"} => requests > 0,
           o = "quota" => requests <= maxRetries
    PROVE  ScorerPromise!ReturnScore
<1>1. requests \in Nat /\ maxRetries \in Int
  BY RetryAssumption DEF LoopTypeOK
<1> QED BY <1>1 DEF ReturnWith, ScorerPromise!ReturnScore, ScorerPromise!Outcomes

\* A step of GeminiScorer is one of Scorer, or changes nothing Scorer sees.
LEMMA StepPromised ==
    ScoreInv /\ [Next]_vars => [ScorerPromise!ScorerNext]_ScorerPromise!scorerVars
<1> SUFFICES ASSUME ScoreInv, [Next]_vars
             PROVE  [ScorerPromise!ScorerNext]_ScorerPromise!scorerVars
  OBVIOUS
<1>0. /\ LoopTypeOK /\ OneRequestEach
      /\ requests \in Nat /\ attempt \in Nat /\ maxRetries \in Int
  BY RetryAssumption DEF ScoreInv, LoopTypeOK
<1>1. CASE Tick \/ UNCHANGED vars
  BY <1>1 DEF Tick, vars, ScorerPromise!scorerVars
<1>2. CASE Score
  BY <1>2 DEF Score, ScorerPromise!ScorerNext, ScorerPromise!StartScoring
<1>3. CASE EnterBreaker /\ UNCHANGED maxRetries
  BY <1>3 DEF EnterBreaker, ScorerPromise!scorerVars
<1>4. CASE WaitForToken /\ UNCHANGED maxRetries
  BY <1>4 DEF WaitForToken, ScorerPromise!scorerVars
<1>5. ASSUME NEW r \in Reply, Answered(r), UNCHANGED maxRetries
      PROVE  ScorerPromise!Request
  <2>1. /\ pc = "api" /\ pc' = "answered" /\ requests' = requests + 1
        /\ UNCHANGED outcome
    BY <1>5 DEF Answered
  <2>2. requests <= maxRetries /\ reply \notin {"ok", "critical", "permanent"}
    BY <1>0, <2>1 DEF OneRequestEach, Permanent
  <2>3. requests < (IF maxRetries < 0 THEN 0 ELSE maxRetries + 1)
    BY <1>0, <2>2
  <2> QED BY <1>5, <2>1, <2>2, <2>3 DEF ScorerPromise!Request
<1>6. ASSUME CircuitOpen, UNCHANGED maxRetries PROVE ScorerPromise!ReturnScore
  BY <1>0, <1>6, ReturnPromised DEF CircuitOpen
<1>7. ASSUME NoAttempt, UNCHANGED maxRetries PROVE ScorerPromise!ReturnScore
  BY <1>0, <1>7, ReturnPromised DEF NoAttempt, NoAttemptError
<1>8. ASSUME ReturnResult, UNCHANGED maxRetries PROVE ScorerPromise!ReturnScore
  BY <1>0, <1>8, ReturnPromised DEF ReturnResult, OneRequestEach
<1>9. ASSUME ReturnPermanent, UNCHANGED maxRetries PROVE ScorerPromise!ReturnScore
  BY <1>0, <1>9, ReturnPromised DEF ReturnPermanent
<1>10. ASSUME ReturnQuota, UNCHANGED maxRetries PROVE ScorerPromise!ReturnScore
  BY <1>0, <1>10, ReturnPromised DEF ReturnQuota, OneRequestEach, LastAttempt
<1>11. ASSUME ReturnLast, UNCHANGED maxRetries PROVE ScorerPromise!ReturnScore
  BY <1>0, <1>11, ReturnPromised DEF ReturnLast
<1>12. CASE (BackOff \/ Retry) /\ UNCHANGED maxRetries
  BY <1>12 DEF BackOff, Retry, ScorerPromise!scorerVars
<1> QED BY <1>1, <1>2, <1>3, <1>4, <1>5, <1>6, <1>7, <1>8, <1>9, <1>10, <1>11, <1>12
        DEF Next, Scoring, ScorerPromise!ScorerNext

\* GeminiScorer.Score keeps the promise: at most GEMINI_MAX_RETRIES + 1
\* requests, none after an answer that asking again cannot change, and a
\* result, or news of the quota, only from a request.
THEOREM PromiseKept == Spec => PromisedSteps
<1>1. Init => ScorerPromise!ScorerInit
  BY RetryAssumption DEF Init, ScorerPromise!ScorerInit
<1> QED BY <1>1, StepPromised, ScoreInvariant, PTL DEF Spec, PromisedSteps
=============================================================================
