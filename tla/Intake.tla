------------------------------- MODULE Intake -------------------------------
(***************************************************************************)
(* The way of an upload from the request to the tweets of its job:         *)
(* handler.Upload, the local file store and the first phase of processJob  *)
(* (Worker models what the worker does with the tweets).                   *)
(*                                                                         *)
(* Every upload has a handler of its own, a temporary file, a final file   *)
(* and a job; the process may crash between any two of their steps.  What  *)
(* has been written to a file survives a crash of the process.             *)
(***************************************************************************)
EXTENDS ArchiveParser, FiniteSets

CONSTANTS
    Upload,        \* requests to POST /tweets/upload
    Requests,      \* [Upload -> set of requests it may be]
    Field,         \* Boolean fields of ModerationCriteria
    DefaultOn,     \* the fields that are true in DefaultCriteria()
    MaxFaults,     \* bound: calls of the file system that fail
    MaxCrashes     \* bound: crashes

\* A request [form, file, criteria].  form is FALSE if the form is too large,
\* cannot be parsed or has no file.  criteria is the form field of this name
\* [shape, given]: "absent"; "wrapped", as documented, {"criteria": {...}};
\* "direct", the inner object alone; "mistyped", the documented form with a
\* value of a wrong type; "broken", no JSON object.
ASSUME RequestAssumption ==
    \A u \in Upload : \A r \in Requests[u] :
       /\ r.form \in BOOLEAN
       /\ r.file.kind \in {"zip", "damaged", "script"}
       /\ r.file.entries \in Seq(ToSet(r.file.entries))
       /\ r.file.kind = "script" => Len(r.file.entries) <= 1
       /\ \A k \in DOMAIN r.file.entries : IsArchive(r.file.entries[k].archive)
       /\ r.criteria.shape \in {"absent", "wrapped", "direct", "mistyped", "broken"}
       /\ r.criteria.given \in UNION {[fs -> BOOLEAN] : fs \in SUBSET Field}
ASSUME BoundAssumption ==
    DefaultOn \subseteq Field /\ MaxFaults \in Nat /\ MaxCrashes \in Nat

VARIABLES
    request,       \* what each upload sends
    handler,       \* where each handler is
    temp, final,   \* each upload's two files: "none", "part" or "whole"
    job,           \* each upload's job: [status, criteria, tweets]
    faults, crashes

inVars == <<request, handler, temp, final, job, faults, crashes>>

DefaultCriteria == [f \in Field |-> f \in DefaultOn]
NoCriteria == [f \in {} |-> FALSE]     \* a nil *ModerationCriteria
NoJob == [status |-> "none", criteria |-> NoCriteria, tweets |-> <<>>]

\* A call of the file system succeeds, or fails and uses up one fault.
FileCall(ok) == IF ok THEN UNCHANGED faults
                ELSE faults < MaxFaults /\ faults' = faults + 1

Goto(u, to) == handler' = [handler EXCEPT ![u] = to]

-----------------------------------------------------------------------------
(* Upload, before the file is stored *)

\* 400: nothing is stored.
Refuse(u) ==
    /\ handler[u] = "none" /\ ~request[u].form
    /\ Goto(u, "refused")
    /\ UNCHANGED <<request, temp, final, job, faults, crashes>>

-----------------------------------------------------------------------------
(* localStore.Save; every error ends the handler with 500 *)

CreateTemp(u, ok) ==
    /\ handler[u] = "none" /\ request[u].form
    /\ FileCall(ok)
    /\ temp' = IF ok THEN [temp EXCEPT ![u] = "part"] ELSE temp
    /\ Goto(u, IF ok THEN "copying" ELSE "failed")
    /\ UNCHANGED <<request, final, job, crashes>>

\* io.Copy returns; the error of a copy that breaks off ends Save.
AfterCopyIgnored(ok) == "renaming"
AfterCopy(ok) == IF ok THEN "renaming" ELSE "failed"

Copy(u, ok) ==
    /\ handler[u] = "copying"
    /\ FileCall(ok)
    /\ temp' = IF ok THEN [temp EXCEPT ![u] = "whole"] ELSE temp
    /\ Goto(u, AfterCopy(ok))
    /\ UNCHANGED <<request, final, job, crashes>>

LinkFinal(u) == final' = [final EXCEPT ![u] = temp[u]] /\ UNCHANGED temp
MoveToFinal(u) == /\ final' = [final EXCEPT ![u] = temp[u]]
                  /\ temp' = [temp EXCEPT ![u] = "none"]

Rename(u, ok) ==
    /\ handler[u] = "renaming"
    /\ FileCall(ok)
    /\ IF ok THEN MoveToFinal(u) ELSE UNCHANGED <<temp, final>>
    /\ Goto(u, IF ok THEN "saved" ELSE "failed")
    /\ UNCHANGED <<request, job, crashes>>

-----------------------------------------------------------------------------
(* Upload, after the file is stored *)

\* json.Unmarshal fills a zero ModerationCriteria: a field that is not given
\* is false.
FilledFrom(base, given) == [f \in Field |-> IF f \in DOMAIN given THEN given[f] ELSE base[f]]
Zero == [f \in Field |-> FALSE]

\* The attempt with {"criteria": ...} accepts every object: of a direct one
\* it ignores all fields.  It fails on a value of a wrong type, and then the
\* direct attempt ignores the field "criteria".
GivenOnly(c) == c.given
CriteriaFrom(c) ==
    CASE c.shape = "wrapped" -> FilledFrom(Zero, c.given)
      [] c.shape \in {"direct", "mistyped"} -> Zero
      [] OTHER -> NoCriteria

\* EnqueueParse with what the form field "criteria" says, and 201.
Enqueue(u) ==
    /\ handler[u] = "saved"
    /\ job' = [job EXCEPT ![u] = [status |-> "queued", tweets |-> <<>>,
                                  criteria |-> CriteriaFrom(request[u].criteria)]]
    /\ Goto(u, "answered")
    /\ UNCHANGED <<request, temp, final, faults, crashes>>

-----------------------------------------------------------------------------
(* parseAndSaveTweets: Open, ReadAll, ParseArchive *)

\* What ParseArchive returns for the bytes of u's final file.
Contents(u) == IF final[u] = "whole" THEN ParseArchive(request[u].file) ELSE Failure

ParseJob(u, ok) ==
    /\ job[u].status = "queued"
    /\ FileCall(ok)
    /\ job' = IF ok /\ Contents(u).ok
              THEN [job EXCEPT ![u].status = "parsed", ![u].tweets = Contents(u).tweets]
              ELSE [job EXCEPT ![u].status = "failed"]
    /\ UNCHANGED <<request, handler, temp, final, crashes>>

-----------------------------------------------------------------------------
InSave == {"copying", "renaming"}

\* Handlers and the job queue are gone, the files stay as they are.
Crash ==
    /\ crashes < MaxCrashes
    /\ crashes' = crashes + 1
    /\ handler' = [u \in Upload |-> IF handler[u] \in InSave \cup {"saved"}
                                    THEN "gone" ELSE handler[u]]
    /\ job' = [u \in Upload |-> IF job[u].status = "queued"
                                THEN [job[u] EXCEPT !.status = "lost"] ELSE job[u]]
    /\ UNCHANGED <<request, temp, final, faults>>

INInit ==
    /\ request \in {r \in [Upload -> UNION {Requests[u] : u \in Upload}] :
                       \A u \in Upload : r[u] \in Requests[u]}
    /\ handler = [u \in Upload |-> "none"]
    /\ temp = [u \in Upload |-> "none"] /\ final = [u \in Upload |-> "none"]
    /\ job = [u \in Upload |-> NoJob]
    /\ faults = 0 /\ crashes = 0

INNext ==
    \/ Crash
    \/ \E u \in Upload :
          \/ Refuse(u) \/ Enqueue(u)
          \/ \E ok \in BOOLEAN :
                CreateTemp(u, ok) \/ Copy(u, ok) \/ Rename(u, ok) \/ ParseJob(u, ok)

INSpec == INInit /\ [][INNext]_inVars

-----------------------------------------------------------------------------
INTypeOK ==
    /\ handler \in [Upload -> {"none", "refused", "saved", "answered", "failed", "gone"} \cup InSave]
    /\ temp \in [Upload -> {"none", "part", "whole"}]
    /\ final \in [Upload -> {"none", "part", "whole"}]
    /\ \A u \in Upload :
          /\ job[u].status \in {"none", "queued", "parsed", "failed", "lost"}
          /\ job[u].criteria \in {NoCriteria} \cup [Field -> BOOLEAN]
    /\ faults \in 0 .. MaxFaults /\ crashes \in 0 .. MaxCrashes

\* What bears an upload's final name is the whole file, whatever failed or
\* crashed, and a client that was answered 201 finds it there for good.
StoredWhole ==
    \A u \in Upload :
       /\ final[u] \in {"none", "whole"}
       /\ handler[u] = "answered" => final[u] = "whole"

\* What is left in the upload directory: never two files of one upload, none
\* of a refused one, a temporary file only of a handler that has not returned,
\* was cut off by a crash or met a failed call (one file for each such call);
\* and a stored file has no job only while its handler runs or if it crashed.
Stray == {u \in Upload : temp[u] # "none" /\ handler[u] = "failed"}
FileAccounting ==
    /\ \A u \in Upload :
          /\ temp[u] = "none" \/ final[u] = "none"
          /\ temp[u] # "none" => handler[u] \in InSave \cup {"failed", "gone"}
          /\ final[u] # "none" /\ job[u] = NoJob => handler[u] \in {"saved", "gone"}
          /\ handler[u] = "gone" => crashes > 0
    /\ Cardinality(Stray) <= faults

\* A job's tweets are all the tweets of the archive that are no retweets, in
\* order and with their texts, unless the array is misread; then the job fails
\* or has no tweets at all, never some of them.  A readable archive that is not
\* misread fails only if a call failed.
Shown(t) == IF t.full # <<>> THEN t.full ELSE t.short
Retweet(t) ==
    LET solid == {k \in DOMAIN Shown(t) : Shown(t)[k] \notin {"sp", "esc"}}
    IN  solid # {} /\ Shown(t)[Min(solid)] = "RT"
AllOriginals(ts, a) ==
    \E place \in [DOMAIN ts -> DOMAIN a.tweets] :
       /\ \A i, j \in DOMAIN ts : i < j => place[i] < place[j]
       /\ ToSet(place) = {k \in DOMAIN a.tweets : ~Retweet(a.tweets[k])}
       /\ \A i \in DOMAIN ts :
             /\ ts[i].id = a.tweets[place[i]].id
             /\ ts[i].text = Shown(a.tweets[place[i]])
ExtractionExact ==
    \A u \in Upload :
       LET f == request[u].file
       IN  Readable(f) /\ FirstIsMeant(f) /\ job[u].status \in {"parsed", "failed"} =>
              IF Misread(Meant(f)) THEN job[u].tweets = <<>>
              ELSE IF job[u].status = "parsed" THEN AllOriginals(job[u].tweets, Meant(f))
              ELSE faults > 0

\* models.go:99 "(default: true)" and docs.go:447 "All fields are optional": a
\* field that a client leaves out of the documented criteria has its default.
\* The wrapper is filled from a zero value instead.
OmittedMeansDefault ==
    \A u \in Upload :
       job[u] # NoJob /\ request[u].criteria.shape = "wrapped" =>
          job[u].criteria = FilledFrom(DefaultCriteria, request[u].criteria.given)
=============================================================================
