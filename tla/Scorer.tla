------------------------------- MODULE Scorer -------------------------------
(***************************************************************************)
(* What the worker relies on when it calls model.Scorer: Score makes a     *)
(* bounded number of requests, none after a final answer, and returns.     *)
(***************************************************************************)
EXTENDS Integers

VARIABLES
    maxRequests, \* how many requests one call may make: fixed when it is built
    scoring,   \* a call of Score is running
    requests,  \* requests it has made
    final,     \* one of them had an answer that asking again cannot change
    outcome    \* what the last call returned: Worker's "flag" and "safe" are
               \* a "result", its "error" is "error" or "circuitOpen"

Outcomes == {"none", "result", "quota", "error", "circuitOpen"}

scorerVars == <<maxRequests, scoring, requests, final, outcome>>

ScorerInit ==
    /\ maxRequests \in Nat
    /\ scoring = FALSE /\ requests = 0 /\ final = FALSE /\ outcome = "none"

StartScoring ==
    /\ ~scoring
    /\ scoring' = TRUE /\ requests' = 0 /\ final' = FALSE /\ outcome' = "none"
    /\ UNCHANGED maxRequests

Request ==
    /\ scoring /\ ~final
    /\ requests < maxRequests
    /\ requests' = requests + 1
    /\ final' \in BOOLEAN
    /\ UNCHANGED <<maxRequests, scoring, outcome>>

\* A result or the news that the quota is used up come from a request, the
\* latter never from the last one.
ReturnScore ==
    /\ scoring
    /\ scoring' = FALSE
    /\ outcome' \in Outcomes \ {"none"}
    /\ outcome' \in {"result", "quota"} => requests > 0
    /\ outcome' = "quota" => requests < maxRequests
    /\ UNCHANGED <<maxRequests, requests, final>>

ScorerNext == StartScoring \/ Request \/ ReturnScore

ScorerSpec ==
    /\ ScorerInit /\ [][ScorerNext]_scorerVars
    /\ WF_scorerVars(Request \/ ReturnScore)
=============================================================================
