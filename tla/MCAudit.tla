------------------------------ MODULE MCAudit ------------------------------
(***************************************************************************)
(* Values of Audit's constants for TLC.                                    *)
(***************************************************************************)
EXTENDS Audit, Integers, TLC

CONSTANTS j1, t1, t2, default, none

OneJob == {j1}
OneArchive == j1 :> <<t1>>
OneJobCriteria == j1 :> none
EveryVerdict == {"safe", "quota", "error"}

\* No attempt at all, no retry, and one.
MCRetries == {-1, 0, 1}
=============================================================================
