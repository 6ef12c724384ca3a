----------------------------- MODULE TweetLife -----------------------------
(***************************************************************************)
(* What the worker promises for a tweet of an uploaded archive, whichever  *)
(* goroutine has it and whatever fails: it is queued for Gemini at most    *)
(* once, after the tweets before it in its archive, flagged at most once,  *)
(* and when it is gone it does not come back.                              *)
(***************************************************************************)
EXTENDS Integers

CONSTANTS
    Item,   \* [job, pos]: the tweet at a position of a job's archive
    Key(_)  \* the row of the tweets table that an item stands for

VARIABLES
    stage,     \* [Item -> Stages]
    flagged,   \* [Item -> Nat]: rows in flagged_tweets
    processed  \* rows of the tweets table that are marked processed

lifeVars == <<stage, flagged, processed>>

\* "coming": uploaded or to be uploaded; "waiting": for its score.
Stages == {"coming", "waiting", "gone"}

LifeInit ==
    /\ stage = [i \in Item |-> "coming"]
    /\ flagged = [i \in Item |-> 0]
    /\ processed = {}

Before(i) == {k \in Item : k.job = i.job /\ k.pos < i.pos}

QueueForGemini(i) ==
    /\ stage[i] = "coming"
    /\ \A k \in Before(i) : stage[k] # "coming"
    /\ stage' = [stage EXCEPT ![i] = "waiting"]
    /\ UNCHANGED <<flagged, processed>>

\* By the filters or by Gemini.
Flag(i) ==
    /\ stage[i] # "gone"
    /\ flagged[i] = 0
    /\ flagged' = [flagged EXCEPT ![i] = 1]
    /\ UNCHANGED <<stage, processed>>

Finish(i) ==
    /\ stage[i] # "gone"
    /\ stage' = [stage EXCEPT ![i] = "gone"]
    /\ processed' = processed \cup {Key(i)}
    /\ UNCHANGED flagged

\* A failed call, a bad archive, a used-up quota or a crash: tweets are given
\* up without a trace in the tables.
Lose ==
    /\ stage' \in [Item -> Stages]
    /\ \A i \in Item : stage'[i] \in {stage[i], "gone"}
    /\ UNCHANGED <<flagged, processed>>

LifeNext == Lose \/ \E i \in Item : QueueForGemini(i) \/ Flag(i) \/ Finish(i)

LifeSpec == LifeInit /\ [][LifeNext]_lifeVars
=============================================================================
