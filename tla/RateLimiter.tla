---------------------------- MODULE RateLimiter ----------------------------
(***************************************************************************)
(* The token bucket of internal/tweets/scorer/rate_limiter.go.             *)
(*                                                                         *)
(* Time is counted in ticks.  Only the time since lastRefill matters, and  *)
(* once it would fill the bucket a longer time makes no difference.        *)
(***************************************************************************)
EXTENDS Integers, FiniteSets

CONSTANTS
    Caller,     \* goroutines that call Wait; the program has one, tweetLoop
    maxTokens,  \* bucket size
    refillRate  \* ticks until a token is added

ASSUME RateAssumption == maxTokens \in Nat \ {0} /\ refillRate \in Nat \ {0}

VARIABLES
    tokens,   \* rl.tokens
    elapsed,  \* ticks since rl.lastRefill, at most Saturated
    asleep,   \* callers in time.After
    timer,    \* ticks until each of them is woken
    granted   \* history: requests let through in each of the last refillRate ticks

rlVars == <<tokens, elapsed, asleep, timer, granted>>

Saturated == refillRate * maxTokens
Window    == 0 .. refillRate - 1

Smaller(a, b) == IF a < b THEN a ELSE b

RLInit ==
    /\ tokens = maxTokens
    /\ elapsed = 0
    /\ asleep = {}
    /\ timer = [c \in Caller |-> 0]
    /\ granted = [k \in Window |-> 0]

\* The first part of Wait: a token for each refillRate since lastRefill.
tokensToAdd == elapsed \div refillRate
Unbounded == tokens + tokensToAdd
Refilled  == Smaller(tokens + tokensToAdd, maxTokens)
ElapsedAfterRefill == IF tokensToAdd > 0 THEN 0 ELSE elapsed

Grant == granted' = [granted EXCEPT ![0] = @ + 1]

\* Wait finds a token.
TakeToken(c) ==
    /\ c \notin asleep
    /\ Refilled > 0
    /\ tokens' = Refilled - 1
    /\ elapsed' = ElapsedAfterRefill
    /\ Grant
    /\ UNCHANGED <<asleep, timer>>

\* Wait finds none and sleeps until the refill is due.
WholeInterval == refillRate
waitTime == refillRate - elapsed
Sleep(c) ==
    /\ c \notin asleep
    /\ Refilled = 0
    /\ asleep' = asleep \cup {c}
    /\ timer' = [timer EXCEPT ![c] = waitTime]
    /\ UNCHANGED <<tokens, elapsed, granted>>

\* time.After fires: the bucket is full again, less the token of this caller.
FullBucket == maxTokens
BucketAfterSleep == maxTokens - 1
Wake(c) ==
    /\ c \in asleep /\ timer[c] = 0
    /\ asleep' = asleep \ {c}
    /\ tokens' = BucketAfterSleep
    /\ elapsed' = 0
    /\ Grant
    /\ UNCHANGED timer

\* A timer runs down to 0; the sleeper may wake up later than that.
StuckTimer(n) == n
TimerTick(n) == IF n > 0 THEN n - 1 ELSE 0

RLTick ==
    /\ elapsed' = Smaller(elapsed + 1, Saturated)
    /\ timer' = [c \in Caller |-> TimerTick(timer[c])]
    /\ granted' = [k \in Window |-> IF k = 0 THEN 0 ELSE granted[k - 1]]
    /\ UNCHANGED <<tokens, asleep>>

RLNext == RLTick \/ \E c \in Caller : TakeToken(c) \/ Sleep(c) \/ Wake(c)

RLSpec == RLInit /\ [][RLNext]_rlVars

\* time.After fires, and time passes.
RLFairSpec == RLSpec /\ WF_rlVars(RLTick) /\ \A c \in Caller : WF_rlVars(Wake(c))

-----------------------------------------------------------------------------
RLTypeOK ==
    /\ tokens \in 0 .. maxTokens
    /\ elapsed \in 0 .. Saturated
    /\ asleep \subseteq Caller
    /\ timer \in [Caller -> 0 .. refillRate]
    /\ granted \in [Window -> Nat]

\* The requests of the last refillRate ticks, each with its tick and its number
\* in that tick.
Requests == UNION {{k} \X (1 .. granted[k]) : k \in Window}
InWindow == Cardinality(Requests)

\* What the limiter does guarantee to one caller: no window of refillRate
\* ticks sees more than two buckets, one saved up before a refill and the one
\* that the refill brings.  (One bucket is not enough: a caller that empties
\* it just before the refill is due gets a full one right after it.)
TwoBuckets == InWindow <= 2 * maxTokens

\* A caller that sleeps is let through in the end.
SleeperWakes == \A c \in Caller : c \in asleep ~> c \notin asleep

\* A sleep never outlasts the refill it waits for: the caller is due no later
\* than refillRate ticks after lastRefill.
DueByRefill == \A c \in asleep : elapsed < refillRate => timer[c] + elapsed <= refillRate
=============================================================================
