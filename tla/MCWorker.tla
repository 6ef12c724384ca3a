------------------------------ MODULE MCWorker ------------------------------
(***************************************************************************)
(* Values of Worker's constants for TLC.                                   *)
(***************************************************************************)
EXTENDS WorkerClaims, TLC

CONSTANTS j1, j2, t1, t2, t3, strict, default, none

MCJob == {j1, j2}
MCTweet == {t1, t2, t3}

\* j1 has two tweets and criteria of its own, j2 one tweet and no criteria.
MCArchive == j1 :> <<t1, t2>> @@ j2 :> <<t3>>
MCJobCriteria == j1 :> strict @@ j2 :> none

\* One tweet in each.
SmallArchive == j1 :> <<t1>> @@ j2 :> <<t3>>

\* A longer j1, for the run in which the archive of j2 cannot be parsed.
LongArchive == j1 :> <<t1, t2, t3>> @@ j2 :> <<>>

\* One job only, for the runs whose question is about one job.
OneJob == {j1}
OneArchive == j1 :> <<t1, t2>>
OneJobCriteria == j1 :> strict

AllVerdicts == {"flag", "safe", "quota", "error"}
=============================================================================
