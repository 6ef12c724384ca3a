---------------------------- MODULE WorkerClaims ----------------------------
(***************************************************************************)
(* What comments and documents of the repository say of the worker and the *)
(* code does not keep.  Each property quotes its source; a run of its own  *)
(* shows a behaviour that breaks it.                                       *)
(***************************************************************************)
EXTENDS Worker

\* worker.go:558 "Check if job is complete": a job is reported done only when
\* each of its tweets is processed, but for the one that completes it.
\* tweetLoop compares counts read from a row that may be older than the last
\* updates, and ProcessedCount counts a tweet when it is queued and again
\* when it is scored.
DoneMeansComplete ==
    \A j \in Job : Deref(jobs[j]).status = "done" =>
       \A i \in Items : i.job = j => i \in InHand \/ Key(i) \in processed

\* worker.go:509 "Re-queue this tweet and resume the job": the send that
\* requeues the tweet ends.  When jobLoop has filled the queue meanwhile,
\* tweetLoop waits for the receiver it is itself.
RequeueEnds == tl.pc = "requeueing" ~> tl.pc # "requeueing"

\* worker.go:602 "Final flush before shutdown": after a Shutdown without an
\* error the table holds the last state of every job.  Shutdown does not wait
\* for the flusher goroutine, which may still hold updates.
ShutdownFlushes ==
    faults = 0 /\ main = "exited" =>
       \A j \in Job : jobs[j].at # "nil" => jobRow[j] = Deref(jobs[j])
=============================================================================
