---------------------------- MODULE IntakeProofs ----------------------------
(***************************************************************************)
(* For any uploads, requests and bounds: a file under its final name is    *)
(* whole, what is left in the upload directory is accounted for, and the   *)
(* tweets of a job are the archive's.  The strengthenings say how far a    *)
(* handler has come.                                                       *)
(*                                                                         *)
(* The last result rests on the archive parser: for every archive, which   *)
(* tokens its script has where, what the regular expression therefore      *)
(* matches, and which tweets the loop keeps.                               *)
(***************************************************************************)
EXTENDS Intake, Integers, FiniteSetTheorems, SequenceTheorems, WellFoundedInduction, TLAPS

(* What is stored *)

FileState == {"none", "part", "whole"}
HandlerState ==
    {"none", "refused", "copying", "renaming", "saved", "answered", "failed", "gone"}

\* A handler that is about to rename holds a whole temporary file, and one that
\* has renamed it a whole final file; a handler that began holds no older file.
StoreInv ==
    /\ handler \in [Upload -> HandlerState]
    /\ temp \in [Upload -> FileState]
    /\ final \in [Upload -> FileState]
    /\ \A u \in Upload :
          /\ final[u] \in {"none", "whole"}
          /\ handler[u] = "renaming" => temp[u] = "whole"
          /\ handler[u] \in {"saved", "answered"} => final[u] = "whole"

\* The invariant holds before the first request.
LEMMA StoreInit == INInit => StoreInv
BY DEF INInit, StoreInv, FileState, HandlerState

\* Every step keeps it: only Rename touches a final file.
LEMMA StoreStep == StoreInv /\ [INNext]_inVars => StoreInv'
<1> SUFFICES ASSUME StoreInv, [INNext]_inVars PROVE StoreInv'
  OBVIOUS
<1> USE DEF StoreInv, FileState, HandlerState, Goto
<1>1. CASE Crash
  BY <1>1 DEF Crash, InSave
<1>2. ASSUME NEW u \in Upload, Refuse(u) PROVE StoreInv'
  BY <1>2 DEF Refuse
<1>3. ASSUME NEW u \in Upload, Enqueue(u) PROVE StoreInv'
  BY <1>3 DEF Enqueue
<1>4. ASSUME NEW u \in Upload, NEW ok \in BOOLEAN, CreateTemp(u, ok) PROVE StoreInv'
  BY <1>4 DEF CreateTemp
<1>5. ASSUME NEW u \in Upload, NEW ok \in BOOLEAN, Copy(u, ok) PROVE StoreInv'
  BY <1>5 DEF Copy, AfterCopy
<1>6. ASSUME NEW u \in Upload, NEW ok \in BOOLEAN, Rename(u, ok) PROVE StoreInv'
  BY <1>6 DEF Rename, MoveToFinal
<1>7. ASSUME NEW u \in Upload, NEW ok \in BOOLEAN, ParseJob(u, ok) PROVE StoreInv'
  BY <1>7 DEF ParseJob
<1>8. CASE UNCHANGED inVars
  BY <1>8 DEF inVars
<1> QED
  BY <1>1, <1>2, <1>3, <1>4, <1>5, <1>6, <1>7, <1>8 DEF INNext

\* localStore.Save and Upload: whatever fails and whenever the process
\* crashes, what bears a final name is the whole file, and an upload that was
\* answered 201 has it.
THEOREM StoredFilesWhole == INSpec => []StoredWhole
<1>1. StoreInv => StoredWhole
  BY DEF StoreInv, StoredWhole
<1> QED
  BY StoreInit, StoreStep, <1>1, PTL DEF INSpec
-----------------------------------------------------------------------------
(* What is left in the upload directory *)

JobState == {"none", "queued", "parsed", "failed", "lost"}

\* What each upload sends is one of its requests; its job is a record.
ShapeInv ==
    /\ \A u \in Upload : request[u] \in Requests[u]
    /\ DOMAIN job = Upload
    /\ \A u \in Upload :
          /\ DOMAIN job[u] = {"status", "criteria", "tweets"}
          /\ job[u].status \in JobState
          /\ job[u].criteria \in {NoCriteria} \cup [Field -> BOOLEAN]

\* Where a handler is says which files it may have, and whether it has a job.
FilesInv ==
    \A u \in Upload :
       /\ temp[u] = "none" \/ final[u] = "none"
       /\ temp[u] # "none" => handler[u] \in InSave \cup {"failed", "gone"}
       /\ final[u] # "none" => handler[u] \in {"saved", "answered", "gone"}
       /\ handler[u] = "answered" => job[u].status # "none"
       /\ handler[u] = "gone" => crashes > 0

CountInv ==
    /\ faults \in 0 .. MaxFaults /\ crashes \in 0 .. MaxCrashes
    /\ IsFiniteSet(Stray) /\ Cardinality(Stray) <= faults

AccountInv == StoreInv /\ ShapeInv /\ FilesInv /\ CountInv

\* What the form field "criteria" stands for has every field, or is nil.
LEMMA CriteriaTyped ==
    ASSUME NEW u \in Upload, NEW r \in Requests[u]
    PROVE  CriteriaFrom(r.criteria) \in {NoCriteria} \cup [Field -> BOOLEAN]
<1>1. r.criteria.given \in UNION {[fs -> BOOLEAN] : fs \in SUBSET Field}
  BY RequestAssumption
<1>2. PICK fs \in SUBSET Field : r.criteria.given \in [fs -> BOOLEAN]
  BY <1>1
<1>3. Zero \in [Field -> BOOLEAN]
  BY DEF Zero
<1>4. FilledFrom(Zero, r.criteria.given) \in [Field -> BOOLEAN]
  BY <1>2, <1>3 DEF FilledFrom
<1>5. CriteriaFrom(r.criteria) \in {FilledFrom(Zero, r.criteria.given), Zero, NoCriteria}
  <2>1. CASE r.criteria.shape = "wrapped"
    BY <2>1, Zenon DEF CriteriaFrom
  <2>2. CASE r.criteria.shape \in {"direct", "mistyped"}
    BY <2>2, Zenon DEF CriteriaFrom
  <2>3. CASE r.criteria.shape \notin {"wrapped", "direct", "mistyped"}
    BY <2>3, Zenon DEF CriteriaFrom
  <2> QED BY <2>1, <2>2, <2>3
<1> QED BY <1>3, <1>4, <1>5

\* There is nothing to account for before the first request.
LEMMA AccountInit == INInit => AccountInv
<1> SUFFICES ASSUME INInit PROVE AccountInv
  OBVIOUS
<1>1. ShapeInv
  BY DEF INInit, ShapeInv, NoJob, JobState
<1>2. FilesInv
  BY DEF INInit, FilesInv
<1>3. Stray = {}
  BY DEF INInit, Stray
<1>4. CountInv
  BY <1>3, FS_EmptySet, BoundAssumption DEF INInit, CountInv
<1> QED BY <1>1, <1>2, <1>4, StoreInit DEF AccountInv

\* Only Enqueue, ParseJob and a crash touch a job.
LEMMA ShapeStep ==
    ASSUME ShapeInv, [INNext]_inVars PROVE ShapeInv'
<1>1. CASE UNCHANGED <<request, job>>
  BY <1>1 DEF ShapeInv
<1>2. ASSUME NEW u \in Upload, Enqueue(u) PROVE ShapeInv'
  <2>1. CriteriaFrom(request[u].criteria) \in {NoCriteria} \cup [Field -> BOOLEAN]
    BY CriteriaTyped DEF ShapeInv
  <2> HIDE DEF CriteriaFrom
  <2> QED BY <1>2, <2>1 DEF Enqueue, ShapeInv, JobState
<1>3. ASSUME NEW u \in Upload, NEW ok \in BOOLEAN, ParseJob(u, ok) PROVE ShapeInv'
  <2>1. CASE ok /\ Contents(u).ok
    <3>1. job' = [job EXCEPT ![u] = [job[u] EXCEPT !.status = "parsed",
                                                   !.tweets = Contents(u).tweets]]
      BY <1>3, <2>1 DEF ParseJob
    <3>2. \A v \in Upload : job'[v] = IF v = u
             THEN [job[u] EXCEPT !.status = "parsed", !.tweets = Contents(u).tweets]
             ELSE job[v]
      BY <3>1 DEF ShapeInv
    <3> QED BY <1>3, <3>1, <3>2 DEF ParseJob, ShapeInv, JobState
  <2>2. CASE ~ (ok /\ Contents(u).ok)
    <3>1. job' = [job EXCEPT ![u].status = "failed"]
      BY <1>3, <2>2 DEF ParseJob
    <3> QED BY <1>3, <3>1 DEF ParseJob, ShapeInv, JobState
  <2> QED BY <2>1, <2>2
<1>4. CASE Crash
  BY <1>4 DEF Crash, ShapeInv, JobState
<1> QED BY <1>1, <1>2, <1>3, <1>4
        DEF INNext, Refuse, CreateTemp, Copy, Rename, inVars

\* A job that is answered for keeps a status.
LEMMA StatusKept ==
    ASSUME ShapeInv, [INNext]_inVars, NEW u \in Upload, job[u].status # "none"
    PROVE  job'[u].status # "none"
<1>1. CASE UNCHANGED job
  BY <1>1
<1>2. ASSUME NEW v \in Upload, Enqueue(v) PROVE job'[u].status # "none"
  BY <1>2 DEF Enqueue, ShapeInv
<1>3. ASSUME NEW v \in Upload, NEW ok \in BOOLEAN, ParseJob(v, ok)
      PROVE  job'[u].status # "none"
  BY <1>3 DEF ParseJob, ShapeInv
<1>4. CASE Crash
  BY <1>4 DEF Crash, ShapeInv
<1> QED BY <1>1, <1>2, <1>3, <1>4
        DEF INNext, Refuse, CreateTemp, Copy, Rename, inVars

\* Each handler's files change only under its own steps.
LEMMA FilesStep ==
    ASSUME AccountInv, [INNext]_inVars PROVE FilesInv'
<1> USE DEF StoreInv, FileState, HandlerState, Goto, FilesInv, InSave
<1>0. StoreInv /\ FilesInv /\ ShapeInv /\ crashes \in Nat
  BY BoundAssumption DEF AccountInv, CountInv
<1>1. CASE Crash
  BY <1>0, <1>1, StatusKept DEF Crash
<1>2. ASSUME NEW u \in Upload, Refuse(u) PROVE FilesInv'
  BY <1>0, <1>2 DEF Refuse
<1>3. ASSUME NEW u \in Upload, Enqueue(u) PROVE FilesInv'
  <2>1. job'[u].status = "queued" /\ \A v \in Upload \ {u} : job'[v] = job[v]
    BY <1>0, <1>3 DEF Enqueue, ShapeInv
  <2> QED BY <1>0, <1>3, <2>1 DEF Enqueue
<1>4. ASSUME NEW u \in Upload, NEW ok \in BOOLEAN, CreateTemp(u, ok) PROVE FilesInv'
  BY <1>0, <1>4 DEF CreateTemp
<1>5. ASSUME NEW u \in Upload, NEW ok \in BOOLEAN, Copy(u, ok) PROVE FilesInv'
  BY <1>0, <1>5 DEF Copy, AfterCopy
<1>6. ASSUME NEW u \in Upload, NEW ok \in BOOLEAN, Rename(u, ok) PROVE FilesInv'
  BY <1>0, <1>6 DEF Rename, MoveToFinal
<1>7. ASSUME NEW u \in Upload, NEW ok \in BOOLEAN, ParseJob(u, ok) PROVE FilesInv'
  BY <1>0, <1>7, StatusKept DEF ParseJob
<1>8. CASE UNCHANGED inVars
  BY <1>0, <1>8 DEF inVars
<1> QED BY <1>1, <1>2, <1>3, <1>4, <1>5, <1>6, <1>7, <1>8 DEF INNext

\* A file that is left behind costs the fault that left it.
LEMMA OneMoreStray ==
    ASSUME CountInv, NEW u, Stray' \subseteq Stray \cup {u}, faults' = faults + 1
    PROVE  IsFiniteSet(Stray') /\ Cardinality(Stray') <= faults'
<1>1. /\ IsFiniteSet(Stray \cup {u}) /\ Cardinality(Stray) \in Nat
      /\ Cardinality(Stray \cup {u}) <= Cardinality(Stray) + 1
  BY FS_AddElement, FS_CardinalityType DEF CountInv
<1>2. IsFiniteSet(Stray') /\ Cardinality(Stray') <= Cardinality(Stray \cup {u})
  BY <1>1, FS_Subset
<1>3. Cardinality(Stray') \in Nat /\ Cardinality(Stray \cup {u}) \in Nat
  BY <1>1, <1>2, FS_CardinalityType
<1> QED BY <1>1, <1>2, <1>3, BoundAssumption DEF CountInv

\* Every stray file is paid for by a failed call.
LEMMA CountStep ==
    ASSUME AccountInv, [INNext]_inVars PROVE CountInv'
<1>0. StoreInv /\ FilesInv /\ CountInv
  BY DEF AccountInv
<1>1. faults' \in 0 .. MaxFaults /\ crashes' \in 0 .. MaxCrashes
  <2>1. ASSUME NEW ok \in BOOLEAN, FileCall(ok) PROVE faults' \in 0 .. MaxFaults
    BY <1>0, <2>1, BoundAssumption DEF FileCall, CountInv
  <2>2. faults' \in 0 .. MaxFaults
    BY <1>0, <2>1 DEF INNext, Crash, Refuse, Enqueue, CreateTemp, Copy, Rename, ParseJob,
                     inVars, CountInv
  <2>3. CASE Crash
    BY <1>0, <2>2, <2>3, BoundAssumption DEF Crash, CountInv
  <2>4. CASE UNCHANGED crashes
    BY <1>0, <2>2, <2>4 DEF CountInv
  <2> QED BY <2>2, <2>3, <2>4 DEF INNext, Refuse, Enqueue, CreateTemp, Copy, Rename,
                                 ParseJob, inVars
<1>2. ASSUME Stray' \subseteq Stray, faults' = faults
      PROVE  IsFiniteSet(Stray') /\ Cardinality(Stray') <= faults'
  <2>1. IsFiniteSet(Stray') /\ Cardinality(Stray') <= Cardinality(Stray)
    BY <1>0, <1>2, FS_Subset DEF CountInv
  <2> QED BY <1>0, <1>2, <2>1, FS_CardinalityType, BoundAssumption DEF CountInv
<1> USE DEF Goto, Stray, StoreInv, FileState, HandlerState
<1>3. ASSUME NEW u \in Upload, NEW ok \in BOOLEAN,
             CreateTemp(u, ok) \/ Copy(u, ok) \/ Rename(u, ok)
      PROVE  IsFiniteSet(Stray') /\ Cardinality(Stray') <= faults'
  <2>1. /\ \A v \in Upload \ {u} : temp'[v] = temp[v] /\ handler'[v] = handler[v]
        /\ ok => handler'[u] # "failed" /\ faults' = faults
        /\ ~ok => faults' = faults + 1
    BY <1>0, <1>3 DEF CreateTemp, Copy, AfterCopy, Rename, MoveToFinal, FileCall
  <2>2. Stray' \subseteq Stray \cup {u} /\ (ok => Stray' \subseteq Stray)
    BY <2>1
  <2> HIDE DEF Stray
  <2> QED BY <1>0, <1>2, <2>1, <2>2, OneMoreStray
<1>4. ASSUME NEW u \in Upload, NEW ok \in BOOLEAN, ParseJob(u, ok)
      PROVE  IsFiniteSet(Stray') /\ Cardinality(Stray') <= faults'
  <2>1. Stray' = Stray /\ (faults' = faults \/ faults' = faults + 1)
    BY <1>4 DEF ParseJob, FileCall
  <2> HIDE DEF Stray
  <2> QED BY <1>0, <1>2, <2>1, OneMoreStray
<1>5. ASSUME Crash PROVE IsFiniteSet(Stray') /\ Cardinality(Stray') <= faults'
  <2>1. Stray' \subseteq Stray /\ faults' = faults
    BY <1>0, <1>5 DEF Crash, InSave
  <2> QED BY <1>2, <2>1
<1>6. ASSUME NEW u \in Upload, Refuse(u) \/ Enqueue(u)
      PROVE  IsFiniteSet(Stray') /\ Cardinality(Stray') <= faults'
  <2>1. Stray' \subseteq Stray /\ faults' = faults
    BY <1>0, <1>6 DEF Refuse, Enqueue
  <2> QED BY <1>2, <2>1
<1>7. ASSUME UNCHANGED inVars
      PROVE  IsFiniteSet(Stray') /\ Cardinality(Stray') <= faults'
  <2>1. Stray' \subseteq Stray /\ faults' = faults
    BY <1>7 DEF inVars
  <2> QED BY <1>2, <2>1
<1>8. IsFiniteSet(Stray') /\ Cardinality(Stray') <= faults'
  BY <1>3, <1>4, <1>5, <1>6, <1>7 DEF INNext
<1> QED BY <1>1, <1>8 DEF CountInv

\* The accounts hold in every state.
LEMMA AccountInvariant == INSpec => []AccountInv
<1>1. AccountInv /\ [INNext]_inVars => AccountInv'
  BY StoreStep, ShapeStep, FilesStep, CountStep DEF AccountInv
<1> QED BY AccountInit, <1>1, PTL DEF INSpec

\* Upload, Save and processJob: every variable stays in its range.
THEOREM IntakeTypes == INSpec => []INTypeOK
<1>1. AccountInv => INTypeOK
  BY DEF AccountInv, StoreInv, ShapeInv, CountInv, INTypeOK, FileState, HandlerState,
         JobState, InSave
<1> QED BY AccountInvariant, <1>1, PTL

\* localStore.Save and Upload: which files are left in the upload directory,
\* and at what price in failed calls and crashes.
THEOREM FilesAccountedFor == INSpec => []FileAccounting
<1>1. AccountInv => FileAccounting
  <2>1. ASSUME AccountInv, NEW u \in Upload, final[u] # "none", job[u] = NoJob
        PROVE  handler[u] \in {"saved", "gone"}
    <3>1. job[u].status = "none"
      BY <2>1 DEF NoJob
    <3> QED BY <2>1, <3>1 DEF AccountInv, FilesInv
  <2> QED BY <2>1 DEF AccountInv, FilesInv, CountInv, FileAccounting
<1> QED BY AccountInvariant, <1>1, PTL

-----------------------------------------------------------------------------
(* The archive parser: numbers and sequences *)

\* Every set of numbers has a least one: < is well-founded.
LEMMA Least ==
    ASSUME NEW T, T \subseteq Nat, T # {}
    PROVE  \E x \in T : \A y \in T : x <= y
<1> DEFINE R == OpToRel(<, Nat)
<1>1. IsWellFoundedOn(R, Nat)
  BY NatLessThanWellFounded
<1>2. \A i, j \in Nat : i < j => <<i, j>> \in R
  BY DEF OpToRel
<1> HIDE DEF R
<1>3. PICK x \in T : \A y \in T : ~ (<<y, x>> \in R)
  BY <1>1, WFMin
<1>4. ASSUME NEW y \in T PROVE x <= y
  <2>1. x \in Nat /\ y \in Nat /\ <<y, x>> \notin R
    BY <1>3
  <2> QED BY <1>2, <2>1
<1> QED BY <1>4

\* Induction from b over a set of numbers: a least number that is not in it
\* cannot exist.
LEMMA SetInduction ==
    ASSUME NEW b \in Nat, NEW P, b \in P, \A n \in Nat : b <= n /\ n \in P => n + 1 \in P
    PROVE  \A n \in Nat : b <= n => n \in P
<1> DEFINE T == {n \in Nat : b <= n /\ n \notin P}
<1>1. T \subseteq Nat
  OBVIOUS
<1>2. ASSUME T # {} PROVE FALSE
  <2>1. \E n \in T : \A y \in T : n <= y
    <3> HIDE DEF T
    <3> QED BY <1>1, <1>2, Least
  <2>2. PICK n \in T : \A y \in T : n <= y
    BY <2>1
  <2>3. n - 1 \in Nat /\ b <= n - 1
    BY <2>2
  <2>4. n - 1 \notin T
    BY <2>2, <2>3
  <2> QED BY <2>2, <2>3, <2>4
<1> QED BY <1>2

\* Min is what its name says.
LEMMA LeastIsMin ==
    ASSUME NEW T, T \subseteq Nat, T # {}
    PROVE  Min(T) \in T /\ \A y \in T : Min(T) <= y
BY Least DEF Min

\* Max too, on a set with an upper bound.
LEMMA GreatestIsMax ==
    ASSUME NEW n \in Nat, NEW T, T \subseteq 0 .. n, T # {}
    PROVE  Max(T) \in T /\ Max(T) \in Nat /\ \A y \in T : Max(T) >= y
<1> DEFINE D == {n - k : k \in T}
<1>1. \A k \in T : n - k \in Nat /\ n - k \in D /\ k \in Nat
  OBVIOUS
<1>2. D \subseteq Nat /\ D # {}
  BY <1>1
<1>3. \E d \in D : \A y \in D : d <= y
  <2> HIDE DEF D
  <2> QED BY <1>2, Least
<1>4. PICK k \in T : \A y \in T : n - k <= n - y
  BY <1>1, <1>3
<1>5. \A y \in T : k >= y
  BY <1>1, <1>4
<1>6. Max(T) \in T /\ \A y \in T : Max(T) >= y
  BY <1>5 DEF Max
<1> QED BY <1>1, <1>6

\* The function that FlattenSeq chooses exists: it adds one part after another.
LEMMA Flattened ==
    ASSUME NEW S, NEW N \in Nat \ {0}, NEW ss \in [1 .. N -> Seq(S)]
    PROVE  \E f : /\ f = [i \in 1 .. N |-> IF i = 1 THEN ss[i] ELSE f[i - 1] \o ss[i]]
                  /\ FlattenSeq(ss) = f[N]
<1> DEFINE Sums(n, g) == g = [i \in 1 .. n |-> IF i = 1 THEN ss[i] ELSE g[i - 1] \o ss[i]]
           P == {n \in Nat : \E g : Sums(n, g)}
<1>1. 1 \in P
  <2> DEFINE g == [i \in 1 .. 1 |-> ss[1]]
  <2>1. g = [i \in 1 .. 1 |-> IF i = 1 THEN ss[i] ELSE g[i - 1] \o ss[i]]
    OBVIOUS
  <2> QED BY <2>1
<1>2. ASSUME NEW n \in Nat, 1 <= n, n \in P PROVE n + 1 \in P
  <2>1. PICK g : Sums(n, g)
    BY <1>2
  <2> DEFINE h == [i \in 1 .. n + 1 |-> IF i = n + 1 THEN g[n] \o ss[n + 1] ELSE g[i]]
  <2>2. ASSUME NEW i \in 1 .. n + 1
        PROVE  h[i] = IF i = 1 THEN ss[i] ELSE h[i - 1] \o ss[i]
    <3>1. CASE i = n + 1
      <4>1. i # 1 /\ i - 1 = n /\ n \in 1 .. n + 1 /\ n # n + 1
        BY <1>2, <3>1
      <4>2. h[i] = g[n] \o ss[i] /\ h[n] = g[n]
        BY <3>1, <4>1
      <4> HIDE DEF h
      <4> QED BY <4>1, <4>2
    <3>2. CASE i # n + 1
      <4>1. i \in 1 .. n /\ (i # 1 => i - 1 \in 1 .. n /\ i - 1 # n + 1)
        BY <3>2
      <4>2. g[i] = IF i = 1 THEN ss[i] ELSE g[i - 1] \o ss[i]
        BY <2>1, <4>1
      <4> QED BY <4>1, <4>2, <3>2
    <3> QED BY <3>1, <3>2
  <2>3. Sums(n + 1, h)
    BY <2>2
  <2> HIDE DEF Sums, h
  <2> QED BY <2>3
<1>3. \E g : Sums(N, g)
  <2> HIDE DEF P
  <2>1. N \in P
    BY <1>1, <1>2, SetInduction
  <2> QED BY <2>1 DEF P
<1>4. FlattenSeq(ss) = (CHOOSE g : Sums(N, g))[N]
  <2>1. Len(ss) = N
    OBVIOUS
  <2> QED BY <2>1, Zenon DEF FlattenSeq
<1>5. Sums(N, CHOOSE g : Sums(N, g))
  <2> HIDE DEF Sums
  <2> QED BY <1>3, Zenon
<1> QED BY <1>4, <1>5
-----------------------------------------------------------------------------
(* Parts of a script *)

\* The token that ends a line, if the archive has lines.
Ends(a) == IF a.pretty THEN {"nl"} ELSE {}
\* What a script consists of; a text has no brace and no line break.
Token == TextToken \cup {"begin", "end", "nl"}

\* The string t stands in s with its quotes, which are part of a "w", at x and
\* after it; in an archive of many lines the line ends there.
At(s, x, t, e) ==
    /\ x \in 1 .. Len(s) /\ x + Len(t) + 1 \in 1 .. Len(s)
    /\ s[x] = "w" /\ s[x + Len(t) + 1] = "w"
    /\ \A l \in 1 .. Len(t) : s[x + l] = t[l]
    /\ "nl" \in e => x + Len(t) + 2 \in 1 .. Len(s) /\ s[x + Len(t) + 2] = "nl"

\* Position p of s lies within a string of one of the texts T.
Within(s, p, T, e) == \E t \in T : \E x \in 1 .. Len(s) : At(s, x, t, e) /\ x < p /\ p <= x + Len(t)
\* A part s of a script is made of quotes, braces, line breaks and the texts T,
\* and every one of the texts is in it.
Lines(s, T, e) ==
    /\ s \in Seq(Token)
    /\ \A p \in 1 .. Len(s) :
          \/ s[p] \in {"w", "begin", "end"} \cup e
          \/ Within(s, p, T, e)
    /\ \A t \in T : \E x \in 1 .. Len(s) : At(s, x, t, e)

\* The tokens of a concatenation are those of its parts.
LEMMA Concat ==
    ASSUME NEW s \in Seq(Token), NEW r \in Seq(Token)
    PROVE  /\ Len(s) \in Nat /\ Len(r) \in Nat
           /\ s \o r \in Seq(Token) /\ Len(s \o r) = Len(s) + Len(r)
           /\ \A i \in 1 .. Len(s) : (s \o r)[i] = s[i]
           /\ \A i \in 1 .. Len(r) : (s \o r)[Len(s) + i] = r[i]
<1>1. /\ Len(s) \in Nat /\ Len(r) \in Nat
      /\ s \o r \in Seq(Token) /\ Len(s \o r) = Len(s) + Len(r)
      /\ \A i \in 1 .. Len(s) + Len(r) : (s \o r)[i] = IF i <= Len(s) THEN s[i] ELSE r[i - Len(s)]
  BY ConcatProperties, LenProperties
<1>2. ASSUME NEW i \in 1 .. Len(r) PROVE (s \o r)[Len(s) + i] = r[i]
  <2>1. Len(s) + i \in 1 .. Len(s) + Len(r) /\ ~ (Len(s) + i <= Len(s)) /\ Len(s) + i - Len(s) = i
    BY <1>1
  <2> QED BY <1>1, <2>1
<1> QED BY <1>1, <1>2

\* A string stays where it is when tokens are added after it, and moves by as
\* many as are added before it.
LEMMA AtConcat ==
    ASSUME NEW s \in Seq(Token), NEW r \in Seq(Token), NEW t \in Seq(TextToken),
           NEW e \in SUBSET {"nl"}, NEW x \in Nat
    PROVE  /\ At(s, x, t, e) => At(s \o r, x, t, e)
           /\ At(r, x, t, e) => At(s \o r, Len(s) + x, t, e)
<1> DEFINE c == s \o r
<1>1. Len(c) = Len(s) + Len(r) /\ Len(s) \in Nat /\ Len(r) \in Nat /\ Len(t) \in Nat
  BY Concat, LenProperties
<1>2. \A i \in 1 .. Len(s) : i \in 1 .. Len(c) /\ c[i] = s[i]
  BY <1>1, Concat
<1>3. \A i \in 1 .. Len(r) : Len(s) + i \in 1 .. Len(c) /\ c[Len(s) + i] = r[i]
  BY <1>1, Concat
<1>4. ASSUME At(s, x, t, e) PROVE At(c, x, t, e)
  <2>1. \A l \in 1 .. Len(t) : x + l \in 1 .. Len(s)
    BY <1>1, <1>4 DEF At
  <2> HIDE DEF c
  <2> QED BY <1>2, <1>4, <2>1 DEF At
<1>5. ASSUME At(r, x, t, e) PROVE At(c, Len(s) + x, t, e)
  <2>1. \A l \in 1 .. Len(t) : x + l \in 1 .. Len(r)
    BY <1>1, <1>5 DEF At
  <2> HIDE DEF c
  <2>2. /\ Len(s) + x \in 1 .. Len(c) /\ c[Len(s) + x] = "w"
        /\ Len(s) + x + Len(t) + 1 \in 1 .. Len(c) /\ c[Len(s) + x + Len(t) + 1] = "w"
    <3>1. Len(s) + (x + Len(t) + 1) = Len(s) + x + Len(t) + 1
      BY <1>1
    <3> QED BY <1>3, <1>5, <3>1 DEF At
  <2>3. \A l \in 1 .. Len(t) : c[Len(s) + x + l] = t[l]
    <3>1. \A l \in 1 .. Len(t) : Len(s) + (x + l) = Len(s) + x + l
      BY <1>1
    <3> QED BY <1>3, <1>5, <2>1, <3>1 DEF At
  <2>4. "nl" \in e => Len(s) + x + Len(t) + 2 \in 1 .. Len(c) /\ c[Len(s) + x + Len(t) + 2] = "nl"
    <3>1. Len(s) + (x + Len(t) + 2) = Len(s) + x + Len(t) + 2
      BY <1>1
    <3> QED BY <1>3, <1>5, <3>1 DEF At
  <2> QED BY <2>2, <2>3, <2>4 DEF At
<1> QED BY <1>4, <1>5

\* Two parts of a script make a part with the texts of both.
LEMMA LinesConcat ==
    ASSUME NEW T \in SUBSET Seq(TextToken), NEW U \in SUBSET Seq(TextToken),
           NEW e \in SUBSET {"nl"}, NEW s, NEW r, Lines(s, T, e), Lines(r, U, e)
    PROVE  Lines(s \o r, T \cup U, e)
<1> DEFINE c == s \o r
<1>1. /\ s \in Seq(Token) /\ r \in Seq(Token)
      /\ c \in Seq(Token) /\ Len(c) = Len(s) + Len(r) /\ Len(s) \in Nat /\ Len(r) \in Nat
      /\ \A i \in 1 .. Len(s) + Len(r) : c[i] = IF i <= Len(s) THEN s[i] ELSE r[i - Len(s)]
  BY ConcatProperties, LenProperties DEF Lines
<1>2. \A t \in T : \A x \in 1 .. Len(s) : At(s, x, t, e) => At(c, x, t, e) /\ x \in 1 .. Len(c)
  BY <1>1, AtConcat
<1>3. \A t \in U : \A x \in 1 .. Len(r) :
         At(r, x, t, e) => At(c, Len(s) + x, t, e) /\ Len(s) + x \in 1 .. Len(c)
  BY <1>1, AtConcat
<1> HIDE DEF c
<1>4. \A t \in T \cup U : \E x \in 1 .. Len(c) : At(c, x, t, e)
  BY <1>2, <1>3 DEF Lines
<1>5. ASSUME NEW p \in 1 .. Len(c)
      PROVE  c[p] \in {"w", "begin", "end"} \cup e \/ Within(c, p, T \cup U, e)
  <2>1. CASE p <= Len(s)
    <3>1. p \in 1 .. Len(s) /\ c[p] = s[p]
      BY <1>1, <2>1
    <3>2. Within(s, p, T, e) => Within(c, p, T \cup U, e)
      BY <1>2 DEF Within
    <3> QED BY <3>1, <3>2 DEF Lines
  <2>2. CASE p > Len(s)
    <3>1. p - Len(s) \in 1 .. Len(r) /\ c[p] = r[p - Len(s)]
      BY <1>1, <2>2
    <3>2. ASSUME Within(r, p - Len(s), U, e) PROVE Within(c, p, T \cup U, e)
      <4>1. PICK t \in U : \E x \in 1 .. Len(r) :
               At(r, x, t, e) /\ x < p - Len(s) /\ p - Len(s) <= x + Len(t)
        BY <3>2 DEF Within
      <4>2. PICK x \in 1 .. Len(r) : At(r, x, t, e) /\ x < p - Len(s) /\ p - Len(s) <= x + Len(t)
        BY <4>1
      <4>3. Len(t) \in Nat
        BY LenProperties
      <4>4. Len(s) + x < p /\ p <= Len(s) + x + Len(t)
        BY <1>1, <4>2, <4>3
      <4> QED BY <1>3, <4>2, <4>4 DEF Within
    <3> QED BY <3>1, <3>2 DEF Lines
  <2>3. p \in Int /\ Len(s) \in Int
    BY <1>1
  <2> QED BY <2>1, <2>2, <2>3
<1> QED BY <1>1, <1>4, <1>5 DEF Lines, c

\* The empty part has no texts.
LEMMA LinesEmpty == ASSUME NEW e \in SUBSET {"nl"} PROVE Lines(<<>>, {}, e)
BY EmptySeq DEF Lines

\* One token that is no text's.
LEMMA LinesOne ==
    ASSUME NEW e \in SUBSET {"nl"}, NEW c \in {"w", "begin", "end"} \cup e
    PROVE  Lines(<<c>>, {}, e)
<1>1. <<c>> \in Seq(Token) /\ Len(<<c>>) = 1 /\ <<c>>[1] = c
  BY DEF Token, TextToken
<1>2. 1 .. 1 = {1}
  OBVIOUS
<1> QED BY <1>1, <1>2 DEF Lines

\* The only token that ends a line is the line break.
LEMMA EndsOfLines == ASSUME NEW a PROVE Ends(a) \in SUBSET {"nl"}
BY DEF Ends

\* A line break follows a string, or nothing does.
LEMMA LineEnd ==
    ASSUME NEW a, NEW s \in Seq(Token)
    PROVE  \/ "nl" \in Ends(a) /\ Line(s, a) = s \o <<"nl">>
           \/ "nl" \notin Ends(a) /\ Line(s, a) = s
<1>1. CASE a.pretty
  <2>1. Ends(a) = {"nl"} /\ Line(s, a) = s \o <<"nl">>
    BY <1>1, Zenon DEF Ends, Line
  <2> QED BY <2>1
<1>2. CASE ~ a.pretty
  <2>1. Ends(a) = {} /\ Line(s, a) = s \o <<>>
    BY <1>2, Zenon DEF Ends, Line
  <2>2. s \o <<>> = s
    BY ConcatEmptySeq
  <2> QED BY <2>1, <2>2
<1> QED BY <1>1, <1>2

\* A brace, and the end of its line.
LEMMA LinesBrace ==
    ASSUME NEW a, NEW c \in {"begin", "end"}
    PROVE  Lines(Line(<<c>>, a), {}, Ends(a))
<1> DEFINE e == Ends(a)
<1>1. e \in SUBSET {"nl"}
  BY EndsOfLines
<1> HIDE DEF e
<1>2. Lines(<<c>>, {}, e) /\ <<c>> \in Seq(Token)
  BY <1>1, LinesOne DEF Lines
<1>3. \/ "nl" \in e /\ Line(<<c>>, a) = <<c>> \o <<"nl">>
      \/ Line(<<c>>, a) = <<c>>
  BY <1>2, LineEnd DEF e
<1>4. ASSUME "nl" \in e PROVE Lines(<<c>> \o <<"nl">>, {}, e)
  <2>1. Lines(<<"nl">>, {}, e)
    BY <1>1, <1>4, LinesOne
  <2>2. Lines(<<c>> \o <<"nl">>, {} \cup {}, e)
    BY <1>1, <1>2, <2>1, LinesConcat
  <2>3. {} \cup {} = {}
    OBVIOUS
  <2> QED BY <2>2, <2>3, Zenon
<1>5. Lines(Line(<<c>>, a), {}, e)
  BY <1>2, <1>3, <1>4, Zenon
<1> QED BY <1>5 DEF e

\* A string has one text.
LEMMA LinesString ==
    ASSUME NEW e \in SUBSET {"nl"}, NEW t \in Seq(TextToken)
    PROVE  /\ String(t) \in Seq(Token)
           /\ "nl" \notin e => Lines(String(t), {t}, e)
           /\ "nl" \in e => Lines(String(t) \o <<"nl">>, {t}, e)
<1> DEFINE w == <<"w">>  n == <<"nl">>  u == w \o t  v == u \o w  s == v \o n
<1>1. /\ t \in Seq(Token) /\ Len(t) \in Nat
      /\ w \in Seq(Token) /\ Len(w) = 1 /\ w[1] = "w"
      /\ n \in Seq(Token) /\ Len(n) = 1 /\ n[1] = "nl"
  BY SeqMonotonic, LenProperties DEF Token, TextToken
<1>2. v = String(t)
  BY Zenon DEF String
<1> HIDE DEF w, n
<1>3. /\ u \in Seq(Token) /\ Len(u) = 1 + Len(t) /\ u[1] = "w"
      /\ \A l \in 1 .. Len(t) : u[1 + l] = t[l]
  BY <1>1, Concat
<1> HIDE DEF u
<1>4. /\ v \in Seq(Token) /\ Len(v) = 2 + Len(t)
      /\ v[1] = "w" /\ v[2 + Len(t)] = "w"
      /\ \A l \in 1 .. Len(t) : v[1 + l] = t[l]
  BY <1>1, <1>3, Concat
<1> HIDE DEF v
<1>5. /\ s \in Seq(Token) /\ Len(s) = 3 + Len(t)
      /\ s[1] = "w" /\ s[2 + Len(t)] = "w" /\ s[3 + Len(t)] = "nl"
      /\ \A l \in 1 .. Len(t) : s[1 + l] = t[l]
  BY <1>1, <1>4, Concat
<1> HIDE DEF s
<1>6. ASSUME "nl" \notin e PROVE Lines(v, {t}, e)
  <2>1. At(v, 1, t, e) /\ 1 \in 1 .. Len(v)
    BY <1>1, <1>4, <1>6 DEF At
  <2>2. ASSUME NEW p \in 1 .. Len(v) PROVE v[p] = "w" \/ Within(v, p, {t}, e)
    <3>1. p \in 2 .. 1 + Len(t) \/ p = 1 \/ p = 2 + Len(t)
      BY <1>1, <1>4
    <3>2. CASE p \in 2 .. 1 + Len(t)
      BY <1>1, <2>1, <3>2 DEF Within
    <3> QED BY <1>4, <3>1, <3>2
  <2> QED BY <1>4, <2>1, <2>2 DEF Lines
<1>7. ASSUME "nl" \in e PROVE Lines(s, {t}, e)
  <2>1. At(s, 1, t, e) /\ 1 \in 1 .. Len(s)
    BY <1>1, <1>5 DEF At
  <2>2. ASSUME NEW p \in 1 .. Len(s) PROVE s[p] \in {"w", "nl"} \/ Within(s, p, {t}, e)
    <3>1. p \in 2 .. 1 + Len(t) \/ p = 1 \/ p = 2 + Len(t) \/ p = 3 + Len(t)
      BY <1>1, <1>5
    <3>2. CASE p \in 2 .. 1 + Len(t)
      BY <1>1, <2>1, <3>2 DEF Within
    <3> QED BY <1>5, <3>1, <3>2
  <2> QED BY <1>5, <1>7, <2>1, <2>2 DEF Lines
<1> QED BY <1>2, <1>4, <1>6, <1>7 DEF s, n

\* A tweet's object has the tweet's two texts.
LEMMA LinesObject ==
    ASSUME NEW a, NEW o, o.full \in Seq(TextToken), o.short \in Seq(TextToken)
    PROVE  Lines(Object(o, a), {o.full, o.short}, Ends(a))
<1>1. PICK F, G : F = o.full /\ G = o.short
  OBVIOUS
<1> DEFINE p1 == Line(<<"begin">>, a)  p2 == Line(String(F), a)
           p3 == Line(String(G), a)  p4 == Line(<<"end">>, a)  e == Ends(a)
<1>2. e \in SUBSET {"nl"} /\ F \in Seq(TextToken) /\ G \in Seq(TextToken)
  BY <1>1, EndsOfLines
<1>3. ASSUME NEW t \in Seq(TextToken) PROVE Lines(Line(String(t), a), {t}, e)
  <2>1. String(t) \in Seq(Token)
    BY LinesString, EndsOfLines
  <2> QED BY <2>1, LinesString, EndsOfLines, LineEnd
<1>4. Lines(p1, {}, e) /\ Lines(p2, {F}, e) /\ Lines(p3, {G}, e) /\ Lines(p4, {}, e)
  BY <1>2, <1>3, LinesBrace
<1>5. Object(o, a) = p1 \o p2 \o p3 \o p4
  BY <1>1, Zenon DEF Object
<1> HIDE DEF p1, p2, p3, p4, e
<1>6. {} \in SUBSET Seq(TextToken) /\ {F} \in SUBSET Seq(TextToken) /\ {G} \in SUBSET Seq(TextToken)
  BY <1>2
<1>7. Lines(p1 \o p2, {} \cup {F}, e)
  BY <1>2, <1>4, <1>6, LinesConcat
<1>8. Lines(p1 \o p2 \o p3, {} \cup {F} \cup {G}, e)
  BY <1>2, <1>4, <1>6, <1>7, LinesConcat
<1>9. Lines(p1 \o p2 \o p3 \o p4, {} \cup {F} \cup {G} \cup {}, e)
  BY <1>2, <1>4, <1>6, <1>8, LinesConcat
<1>10. {} \cup {F} \cup {G} \cup {} = {o.full, o.short}
  BY <1>1
<1> QED BY <1>5, <1>9, <1>10 DEF e

\* The texts of an archive: two of every tweet.
Texts(a) == UNION {{a.tweets[i].full, a.tweets[i].short} : i \in DOMAIN a.tweets}

\* The parts of an archive are sequences.
LEMMA ArchiveTyped ==
    ASSUME NEW a, IsArchive(a)
    PROVE  /\ Len(a.tweets) \in Nat /\ DOMAIN a.tweets = 1 .. Len(a.tweets)
           /\ \A i \in 1 .. Len(a.tweets) :
                 a.tweets[i].full \in Seq(TextToken) /\ a.tweets[i].short \in Seq(TextToken)
           /\ Texts(a) \in SUBSET Seq(TextToken)
<1>1. PICK ts : ts = a.tweets
  OBVIOUS
<1>2. Len(ts) \in Nat /\ DOMAIN ts = 1 .. Len(ts)
  BY <1>1, LenProperties DEF IsArchive
<1> QED BY <1>1, <1>2 DEF IsArchive, Texts

\* The tweets of an archive make a part of a script, with all their texts: by
\* induction over the tweets.
LEMMA LinesBody ==
    ASSUME NEW a, IsArchive(a) PROVE Lines(Body(a), Texts(a), Ends(a))
<1> DEFINE N == Len(a.tweets)  e == Ends(a)
           ss == [i \in 1 .. N |-> Object(a.tweets[i], a)]
           two(i) == {a.tweets[i].full, a.tweets[i].short}
           upto(n) == UNION {two(i) : i \in 1 .. n}
<1>1. N \in Nat /\ Texts(a) = upto(N) /\ Body(a) = FlattenSeq(ss) /\ e \in SUBSET {"nl"}
      /\ \A i \in 1 .. N : two(i) \in SUBSET Seq(TextToken)
  BY ArchiveTyped, EndsOfLines DEF Texts, Body
<1>2. \A i \in 1 .. N : Lines(ss[i], two(i), e)
  BY ArchiveTyped, LinesObject
<1>3. CASE N = 0
  <2>1. FlattenSeq(ss) = <<>> /\ upto(N) = {}
    BY <1>3 DEF FlattenSeq
  <2> QED BY <1>1, <2>1, LinesEmpty
<1>4. CASE N # 0
  <2>1. ss \in [1 .. N -> Seq(Token)] /\ N \in Nat \ {0}
    BY <1>1, <1>2, <1>4 DEF Lines
  <2> HIDE DEF ss, N, e, two
  <2>2. PICK f : /\ f = [i \in 1 .. N |-> IF i = 1 THEN ss[i] ELSE f[i - 1] \o ss[i]]
                 /\ FlattenSeq(ss) = f[N]
    BY <2>1, Flattened
  <2> DEFINE P == {n \in Nat : n <= N => Lines(f[n], upto(n), e)}
  <2>3. 1 \in P
    <3>1. f[1] = ss[1] /\ upto(1) = two(1)
      BY <2>1, <2>2
    <3>2. Lines(f[1], upto(1), e)
      <4> HIDE DEF upto
      <4> QED BY <1>2, <2>1, <3>1
    <3> QED BY <3>2
  <2>4. ASSUME NEW n \in Nat, 1 <= n, n \in P PROVE n + 1 \in P
    <3> SUFFICES ASSUME n + 1 <= N PROVE Lines(f[n + 1], upto(n + 1), e)
      OBVIOUS
    <3>1. n \in 1 .. N /\ n + 1 \in 1 .. N /\ n + 1 # 1 /\ n + 1 - 1 = n
      BY <2>1, <2>4
    <3>2. f[n + 1] = f[n] \o ss[n + 1]
      <4>1. \A i \in 1 .. N : f[i] = IF i = 1 THEN ss[i] ELSE f[i - 1] \o ss[i]
        BY <2>2
      <4>2. PICK m \in 1 .. N : m = n + 1
        BY <3>1
      <4>3. m # 1 /\ m - 1 = n
        BY <3>1, <4>2
      <4>4. f[m] = f[n] \o ss[m]
        BY <4>1, <4>3
      <4> QED BY <4>2, <4>4, Zenon
    <3>3. upto(n + 1) = upto(n) \cup two(n + 1) /\ upto(n) \in SUBSET Seq(TextToken)
      <4>1. 1 .. n + 1 = (1 .. n) \cup {n + 1} /\ (1 .. n) \subseteq 1 .. N
        BY <2>1, <3>1
      <4> QED BY <1>1, <4>1
    <3>4. Lines(f[n], upto(n), e) /\ Lines(ss[n + 1], two(n + 1), e)
      BY <1>2, <2>4, <3>1
    <3> HIDE DEF upto, P
    <3>5. Lines(f[n] \o ss[n + 1], upto(n) \cup two(n + 1), e)
      BY <1>1, <3>1, <3>3, <3>4, LinesConcat
    <3> QED BY <3>2, <3>3, <3>5
  <2>5. Lines(f[N], upto(N), e)
    <3>1. N \in P
      <4> HIDE DEF P
      <4> QED BY <2>1, <2>3, <2>4, SetInduction
    <3> QED BY <2>1, <3>1
  <2> QED BY <1>1, <2>2, <2>5 DEF e
<1> QED BY <1>3, <1>4
-----------------------------------------------------------------------------
(* Scripts *)

\* What stands in s if it is a part r between two others.
Frame(s, pre, r, post, T, e) ==
    /\ s \in Seq(Token) /\ Len(s) = Len(pre) + Len(r) + Len(post)
    /\ \A i \in 1 .. Len(pre) : s[i] = pre[i]
    /\ \A i \in 1 .. Len(post) : s[Len(pre) + Len(r) + i] = post[i]
    /\ \A p \in Len(pre) + 1 .. Len(pre) + Len(r) :
          s[p] \in {"w", "begin", "end"} \cup e \/ Within(s, p, T, e)
    /\ \A t \in T : \E x \in 1 .. Len(s) : At(s, x, t, e)

\* A part that is put between two others.
LEMMA Framed ==
    ASSUME NEW T \in SUBSET Seq(TextToken), NEW e \in SUBSET {"nl"},
           NEW pre \in Seq(Token), NEW r, Lines(r, T, e), NEW post \in Seq(Token)
    PROVE  Frame(pre \o r \o post, pre, r, post, T, e)
<1> DEFINE k == Len(pre)  m == Len(r)  s == pre \o r \o post
<1>1. k \in Nat /\ m \in Nat /\ Len(post) \in Nat /\ r \in Seq(Token)
  BY LenProperties DEF Lines
<1>2. /\ pre \o r \in Seq(Token) /\ Len(pre \o r) = k + m
      /\ \A i \in 1 .. k : (pre \o r)[i] = pre[i]
      /\ \A i \in 1 .. m : (pre \o r)[k + i] = r[i]
  BY <1>1, Concat
<1> DEFINE u == pre \o r
<1>3. u \in Seq(Token) /\ Len(u) = k + m
  BY <1>2
<1>4. /\ s \in Seq(Token) /\ Len(s) = k + m + Len(post)
      /\ \A i \in 1 .. k + m : s[i] = u[i]
      /\ \A i \in 1 .. Len(post) : s[k + m + i] = post[i]
  <2> HIDE DEF u
  <2>1. s = u \o post
    BY DEF u
  <2>2. /\ u \o post \in Seq(Token) /\ Len(u \o post) = Len(u) + Len(post)
        /\ \A i \in 1 .. Len(u) : (u \o post)[i] = u[i]
        /\ \A i \in 1 .. Len(post) : (u \o post)[Len(u) + i] = post[i]
    BY <1>3, Concat
  <2> HIDE DEF s, k, m
  <2> QED BY <1>3, <2>1, <2>2, Zenon
<1>5. ASSUME NEW t \in T, NEW x \in 1 .. m, At(r, x, t, e)
      PROVE  At(s, k + x, t, e) /\ k + x \in 1 .. Len(s)
  <2>1. x \in Nat /\ k + x \in Nat /\ t \in Seq(TextToken)
    BY <1>1
  <2>2. At(u, k + x, t, e)
    BY <1>1, <1>5, <2>1, AtConcat
  <2>3. At(s, k + x, t, e)
    <3> HIDE DEF u
    <3>1. At(u \o post, k + x, t, e)
      BY <1>3, <2>1, <2>2, AtConcat
    <3> QED BY <3>1 DEF u
  <2> QED BY <1>1, <1>4, <2>1, <2>3
<1> HIDE DEF s, u
<1>6. ASSUME NEW p \in k + 1 .. k + m
      PROVE  s[p] \in {"w", "begin", "end"} \cup e \/ Within(s, p, T, e)
  <2>1. p - k \in 1 .. m /\ k + (p - k) = p /\ p \in 1 .. k + m
    BY <1>1
  <2>2. s[p] = r[p - k]
    <3>1. u[k + (p - k)] = r[p - k]
      BY <1>2, <2>1 DEF u
    <3> QED BY <1>4, <2>1, <3>1
  <2>3. ASSUME Within(r, p - k, T, e) PROVE Within(s, p, T, e)
    <3>1. PICK t \in T : \E x \in 1 .. m : At(r, x, t, e) /\ x < p - k /\ p - k <= x + Len(t)
      BY <2>3 DEF Within
    <3>2. PICK x \in 1 .. m : At(r, x, t, e) /\ x < p - k /\ p - k <= x + Len(t)
      BY <3>1
    <3>3. Len(t) \in Nat
      BY LenProperties
    <3>4. k + x < p /\ p <= k + x + Len(t)
      BY <1>1, <2>1, <3>2, <3>3
    <3> QED BY <1>5, <3>2, <3>4 DEF Within
  <2>4. r[p - k] \in {"w", "begin", "end"} \cup e \/ Within(r, p - k, T, e)
    BY <2>1 DEF Lines
  <2> QED BY <2>2, <2>3, <2>4
<1>7. \A t \in T : \E x \in 1 .. Len(s) : At(s, x, t, e)
  BY <1>5 DEF Lines
<1>8. ASSUME NEW i \in 1 .. k PROVE s[i] = pre[i]
  <2>1. i \in 1 .. k + m
    BY <1>1
  <2>2. u[i] = pre[i]
    BY <1>2 DEF u
  <2> QED BY <1>4, <2>1, <2>2
<1> QED BY <1>4, <1>6, <1>7, <1>8 DEF s, Frame

\* The tokens of "window.YTD.tweets.part0 = ".
HeaderLen(a) == IF a.header THEN 4 ELSE 0

\* A script is its header and its array.
LEMMA HeaderTokens ==
    ASSUME NEW a
    PROVE  \E head \in Seq(Token) :
              /\ Len(head) = HeaderLen(a) /\ Script(a) = head \o Json(a)
              /\ \A p \in 1 .. HeaderLen(a) : head[p] \in {"w", "sp", "="}
              /\ HeaderLen(a) = 4 => head[3] = "=" /\ head[4] = "sp"
<1>1. CASE a.header
  <2> DEFINE head == <<"w", "sp", "=", "sp">>
  <2>1. /\ head \in Seq(Token) /\ Len(head) = 4
        /\ head[1] = "w" /\ head[2] = "sp" /\ head[3] = "=" /\ head[4] = "sp"
    BY DEF Token, TextToken
  <2>2. Script(a) = head \o Json(a) /\ HeaderLen(a) = 4
    BY <1>1, Zenon DEF Script, HeaderLen
  <2> HIDE DEF head
  <2>3. \A p \in 1 .. 4 : p = 1 \/ p = 2 \/ p = 3 \/ p = 4
    OBVIOUS
  <2>4. \A p \in 1 .. 4 : head[p] \in {"w", "sp", "="}
    BY <2>1, <2>3
  <2> QED BY <2>1, <2>2, <2>4
<1>2. CASE ~ a.header
  <2>1. Script(a) = <<>> \o Json(a) /\ HeaderLen(a) = 0
    BY <1>2, Zenon DEF Script, HeaderLen
  <2>2. \A p \in 1 .. HeaderLen(a) : FALSE
    BY <2>1
  <2>3. <<>> \in Seq(Token) /\ Len(<<>>) = HeaderLen(a) /\ HeaderLen(a) # 4
    BY <2>1, EmptySeq
  <2> QED BY <2>1, <2>2, <2>3, Zenon
<1> QED BY <1>1, <1>2

\* The bracket that opens the array, and the end of its line.
LEMMA OpeningTokens ==
    ASSUME NEW a
    PROVE  /\ Line(<<"[">>, a) \in Seq(Token) /\ Line(<<"[">>, a)[1] = "["
           /\ \/ "nl" \in Ends(a) /\ Len(Line(<<"[">>, a)) = 2 /\ Line(<<"[">>, a)[2] = "nl"
              \/ "nl" \notin Ends(a) /\ Len(Line(<<"[">>, a)) = 1
<1> DEFINE one == <<"[">>  nl == <<"nl">>
<1>1. /\ one \in Seq(Token) /\ Len(one) = 1 /\ one[1] = "["
      /\ nl \in Seq(Token) /\ Len(nl) = 1 /\ nl[1] = "nl"
  BY DEF Token, TextToken
<1> HIDE DEF one, nl
<1>2. /\ one \o nl \in Seq(Token) /\ Len(one \o nl) = 2
      /\ (one \o nl)[1] = "[" /\ (one \o nl)[2] = "nl"
  BY <1>1, Concat
<1>3. \/ "nl" \in Ends(a) /\ Line(one, a) = one \o nl
      \/ "nl" \notin Ends(a) /\ Line(one, a) = one
  BY <1>1, LineEnd DEF nl
<1>4. /\ Line(one, a) \in Seq(Token) /\ Line(one, a)[1] = "["
      /\ \/ "nl" \in Ends(a) /\ Len(Line(one, a)) = 2 /\ Line(one, a)[2] = "nl"
         \/ "nl" \notin Ends(a) /\ Len(Line(one, a)) = 1
  BY <1>1, <1>2, <1>3
<1> QED BY <1>4 DEF one

\* Every script is a header, the bracket that opens the array, quotes, braces,
\* line breaks and texts, and the bracket that closes the array.  The last
\* bracket closes it even if texts have brackets.
LEMMA ScriptShape ==
    ASSUME NEW a, IsArchive(a)
    PROVE  /\ Script(a) \in Seq(Token) /\ HeaderLen(a) + 2 <= Len(Script(a))
           /\ Script(a)[HeaderLen(a) + 1] = "[" /\ Script(a)[Len(Script(a))] = "]"
           /\ "nl" \in Ends(a) => Script(a)[HeaderLen(a) + 2] = "nl"
           /\ \A p \in 1 .. HeaderLen(a) : Script(a)[p] \in {"w", "sp", "="}
           /\ HeaderLen(a) = 4 => Script(a)[3] = "=" /\ Script(a)[4] = "sp"
           /\ \A p \in HeaderLen(a) + 2 .. Len(Script(a)) - 1 :
                 \/ Script(a)[p] \in {"w", "begin", "end"} \cup Ends(a)
                 \/ Within(Script(a), p, Texts(a), Ends(a))
           /\ \A t \in Texts(a) : \E x \in 1 .. Len(Script(a)) : At(Script(a), x, t, Ends(a))
           /\ Json(a) \in Seq(Token) /\ Json(a) # <<>>
           /\ Len(Json(a)) = Len(Script(a)) - HeaderLen(a)
           /\ SubSeq(Script(a), HeaderLen(a) + 1, Len(Script(a))) = Json(a)
<1> DEFINE h == HeaderLen(a)  e == Ends(a)  s == Script(a)  J == Json(a)  B == Body(a)
           open == Line(<<"[">>, a)  close == <<"]">>  T == Texts(a)
<1>1. PICK head \in Seq(Token) :
         /\ Len(head) = h /\ s = head \o J
         /\ \A p \in 1 .. h : head[p] \in {"w", "sp", "="}
         /\ h = 4 => head[3] = "=" /\ head[4] = "sp"
  BY HeaderTokens
<1>2. /\ Lines(B, T, e) /\ B \in Seq(Token) /\ Len(B) \in Nat
      /\ T \in SUBSET Seq(TextToken) /\ e \in SUBSET {"nl"} /\ h \in Nat
      /\ close \in Seq(Token) /\ Len(close) = 1 /\ close[1] = "]"
  BY LinesBody, ArchiveTyped, EndsOfLines, LenProperties DEF Lines, HeaderLen, Token, TextToken
<1>3. /\ open \in Seq(Token) /\ open[1] = "["
      /\ \/ "nl" \in e /\ Len(open) = 2 /\ open[2] = "nl"
         \/ "nl" \notin e /\ Len(open) = 1
  BY OpeningTokens
<1>4. J = open \o B \o close
  BY Zenon DEF Json
<1> HIDE DEF h, e, s, J, B, open, close, T
<1> DEFINE pre == head \o open
<1>5. /\ pre \in Seq(Token) /\ Len(pre) = h + Len(open)
      /\ \A p \in 1 .. h : pre[p] = head[p]
      /\ \A i \in 1 .. Len(open) : pre[h + i] = open[i]
  BY <1>1, <1>3, Concat
<1>6. s = pre \o B \o close /\ J \in Seq(Token)
  <2>1. open \o B \in Seq(Token) /\ J \in Seq(Token)
    BY <1>2, <1>3, <1>4, ConcatProperties
  <2>2. head \o (open \o B) \o close = head \o J
    <3>1. PICK X \in Seq(Token) : X = open \o B
      BY <2>1
    <3>2. (head \o X) \o close = head \o (X \o close)
      BY <1>2, ConcatAssociative
    <3> QED BY <1>4, <3>1, <3>2, Zenon
  <2>3. pre \o B = head \o (open \o B)
    BY <1>2, <1>3, ConcatAssociative
  <2> QED BY <1>1, <2>1, <2>2, <2>3
<1> HIDE DEF pre
<1>7. /\ s \in Seq(Token) /\ Len(s) = Len(pre) + Len(B) + 1
      /\ \A i \in 1 .. Len(pre) : s[i] = pre[i]
      /\ s[Len(pre) + Len(B) + 1] = "]"
      /\ \A p \in Len(pre) + 1 .. Len(pre) + Len(B) :
            s[p] \in {"w", "begin", "end"} \cup e \/ Within(s, p, T, e)
      /\ \A t \in T : \E x \in 1 .. Len(s) : At(s, x, t, e)
  <2>1. Frame(s, pre, B, close, T, e)
    BY <1>2, <1>5, <1>6, Framed
  <2> QED BY <1>2, <2>1 DEF Frame
<1>8. /\ s \in Seq(Token) /\ h + 2 <= Len(s) /\ s[h + 1] = "[" /\ s[Len(s)] = "]"
      /\ "nl" \in e => s[h + 2] = "nl"
      /\ h = 4 => s[3] = "=" /\ s[4] = "sp"
  <2>1. /\ Len(pre) \in Nat /\ Len(s) = h + Len(open) + Len(B) + 1
        /\ h + 1 \in 1 .. Len(pre) /\ s[Len(s)] = "]"
    BY <1>2, <1>3, <1>5, <1>7
  <2>2. s[h + 1] = "["
    <3>1. 1 \in 1 .. Len(open)
      BY <1>3
    <3>2. pre[h + 1] = "["
      BY <1>3, <1>5, <3>1
    <3> QED BY <1>7, <2>1, <3>2
  <2>3. ASSUME "nl" \in e PROVE s[h + 2] = "nl"
    <3>1. Len(open) = 2 /\ open[2] = "nl" /\ h + 2 \in 1 .. Len(pre)
      BY <1>2, <1>3, <1>5, <2>3
    <3> QED BY <1>5, <1>7, <3>1
  <2>4. h = 4 => s[3] = "=" /\ s[4] = "sp"
    <3>1. ASSUME h = 4
          PROVE  3 \in 1 .. h /\ 4 \in 1 .. h /\ 3 \in 1 .. Len(pre) /\ 4 \in 1 .. Len(pre)
      BY <1>3, <1>5, <3>1
    <3> QED BY <1>1, <1>5, <1>7, <3>1
  <2> QED BY <1>2, <1>3, <1>7, <2>1, <2>2, <2>3, <2>4
<1>9. \A p \in 1 .. h : s[p] \in {"w", "sp", "="}
  BY <1>1, <1>2, <1>3, <1>5, <1>7
<1>10. ASSUME NEW p \in h + 2 .. Len(s) - 1
       PROVE  s[p] \in {"w", "begin", "end"} \cup e \/ Within(s, p, T, e)
  <2>1. CASE p \in Len(pre) + 1 .. Len(pre) + Len(B)
    BY <1>7, <2>1
  <2>2. CASE p = h + 2 /\ Len(open) = 2
    BY <1>3, <1>8, <2>2
  <2>3. Len(s) - 1 = h + Len(open) + Len(B) /\ Len(open) \in {1, 2} /\ Len(pre) = h + Len(open)
    BY <1>2, <1>3, <1>5, <1>7
  <2>4. p \in Len(pre) + 1 .. Len(pre) + Len(B) \/ (p = h + 2 /\ Len(open) = 2)
    <3>1. PICK k \in Nat, l \in Nat : k = h /\ l = Len(B)
      BY <1>2
    <3>2. Len(s) - 1 = k + Len(open) + l /\ Len(pre) = k + Len(open) /\ Len(open) \in {1, 2}
      BY <2>3, <3>1
    <3>3. p \in k + 2 .. k + Len(open) + l
      BY <3>1, <3>2
    <3>4. p \in k + Len(open) + 1 .. k + Len(open) + l \/ (p = k + 2 /\ Len(open) = 2)
      <4>1. CASE Len(open) = 1
        BY <3>1, <3>3, <4>1
      <4>2. CASE Len(open) = 2
        BY <3>1, <3>3, <4>2
      <4> QED BY <3>2, <4>1, <4>2
    <3> QED BY <3>1, <3>2, <3>4
  <2> QED BY <2>1, <2>2, <2>4
<1>11. J # <<>> /\ Len(J) = Len(s) - h /\ SubSeq(s, h + 1, Len(s)) = J
  <2>1. Len(s) = h + Len(J) /\ Len(J) \in Nat /\ \A i \in 1 .. Len(J) : s[h + i] = J[i]
    <3>1. /\ Len(head \o J) = Len(head) + Len(J) /\ Len(J) \in Nat
          /\ \A i \in 1 .. Len(J) : (head \o J)[Len(head) + i] = J[i]
      BY <1>6, Concat
    <3> QED BY <1>1, <3>1, Zenon
  <2>2. \A i \in h + 1 .. Len(s) : s[i] \in Token
    BY <1>2, <1>7, LenProperties, ElementOfSeq
  <2> DEFINE q == SubSeq(s, h + 1, Len(s))
  <2>3. /\ q \in Seq(Token) /\ Len(q) = Len(J)
        /\ \A i \in 1 .. Len(J) : q[i] = s[h + i]
    <3>1. /\ q \in Seq(Token)
          /\ Len(q) = IF h + 1 <= Len(s) THEN Len(s) - (h + 1) + 1 ELSE 0
          /\ \A i \in 1 .. Len(s) - (h + 1) + 1 : q[i] = s[h + 1 + i - 1]
      BY <1>2, <2>1, <2>2, SubSeqProperties
    <3> HIDE DEF q
    <3> QED BY <1>2, <2>1, <3>1
  <2> HIDE DEF q
  <2>5. q = J
    BY <1>6, <2>1, <2>3, SeqEqual
  <2>6. Len(J) >= 2
    BY <1>2, <1>8, <2>1
  <2> QED BY <2>1, <2>5, <2>6, <1>2 DEF q
<1> QED BY <1>6, <1>8, <1>9, <1>10, <1>7, <1>11 DEF h, e, s, J, T
-----------------------------------------------------------------------------
(* Brackets in texts *)

\* Four cases of a position.
LEMMA Between ==
    ASSUME NEW h \in Nat, NEW n \in Nat, h + 2 <= n, NEW p \in 1 .. n
    PROVE  p \in 1 .. h \/ p = h + 1 \/ p = n \/ p \in h + 2 .. n - 1
OBVIOUS

\* Where a text stands, token by token.
Occurrence(s, x, t, e) ==
    /\ Len(s) \in Nat /\ DOMAIN s = 1 .. Len(s) /\ Len(t) \in Nat /\ DOMAIN t = 1 .. Len(t)
    /\ s[x] = "w" /\ s[x + Len(t) + 1] = "w" /\ x + Len(t) + 1 \in 1 .. Len(s)
    /\ \A l \in 1 .. Len(t) : x + l \in 1 .. Len(s) /\ s[x + l] = t[l] /\ t[l] # "nl"
    /\ "nl" \in e => x + Len(t) + 2 \in 1 .. Len(s) /\ s[x + Len(t) + 2] = "nl"

\* A string that stands in a script has no line break.
LEMMA InText ==
    ASSUME NEW e \in SUBSET {"nl"}, NEW s \in Seq(Token), NEW t \in Seq(TextToken),
           NEW x \in 1 .. Len(s), At(s, x, t, e)
    PROVE  Occurrence(s, x, t, e)
<1>1. /\ Len(s) \in Nat /\ DOMAIN s = 1 .. Len(s) /\ Len(t) \in Nat /\ DOMAIN t = 1 .. Len(t)
  BY LenProperties
<1>2. ASSUME NEW l \in 1 .. Len(t)
      PROVE  x + l \in 1 .. Len(s) /\ s[x + l] = t[l] /\ t[l] # "nl"
  <2>1. t[l] \in TextToken
    BY ElementOfSeq
  <2>2. x + l \in 1 .. Len(s)
    BY <1>1 DEF At
  <2> QED BY <2>1, <2>2 DEF At, TextToken
<1> QED BY <1>1, <1>2 DEF At, Occurrence

\* In a string, a bracket is opened after "=" exactly if it is in the text: the
\* quote before the text separates it from every earlier "=".
LEMMA OpeningOfText ==
    ASSUME NEW e \in SUBSET {"nl"}, NEW s \in Seq(Token), NEW t \in Seq(TextToken),
           NEW x \in 1 .. Len(s), At(s, x, t, e)
    PROVE  /\ \A l \in Openings(t) : x + l \in Openings(s)
           /\ \A l \in 1 .. Len(t) : x + l \in Openings(s) => l \in Openings(t)
<1>1. /\ Len(s) \in Nat /\ DOMAIN s = 1 .. Len(s) /\ Len(t) \in Nat /\ DOMAIN t = 1 .. Len(t)
      /\ \A l \in 1 .. Len(t) : x + l \in 1 .. Len(s) /\ s[x + l] = t[l]
      /\ s[x] = "w"
  <2>1. Occurrence(s, x, t, e)
    BY InText
  <2> QED BY <2>1 DEF Occurrence
<1>2. ASSUME NEW l \in Openings(t) PROVE x + l \in Openings(s)
  <2>1. PICK p \in 1 .. l - 1 : t[p] = "=" /\ \A k \in p + 1 .. l - 1 : t[k] \in White
    BY DEF Openings
  <2>2. l \in 1 .. Len(t) /\ t[l] = "[" /\ p \in 1 .. Len(t)
    BY <1>1, <2>1 DEF Openings
  <2>3. x + p \in 1 .. x + l - 1 /\ s[x + p] = "=" /\ x + l \in DOMAIN s /\ s[x + l] = "["
    BY <1>1, <2>1, <2>2
  <2>4. ASSUME NEW k \in x + p + 1 .. x + l - 1 PROVE s[k] \in White
    <3>1. k - x \in p + 1 .. l - 1 /\ k - x \in 1 .. Len(t) /\ x + (k - x) = k
      BY <1>1, <2>2
    <3> QED BY <1>1, <2>1, <3>1
  <2> QED BY <2>3, <2>4 DEF Openings
<1>3. ASSUME NEW l \in 1 .. Len(t), x + l \in Openings(s) PROVE l \in Openings(t)
  <2>1. PICK p \in 1 .. x + l - 1 : s[p] = "=" /\ \A k \in p + 1 .. x + l - 1 : s[k] \in White
    BY <1>3 DEF Openings
  <2>2. t[l] = "["
    BY <1>1, <1>3 DEF Openings
  <2>3. p > x
    <3>1. p # x
      BY <1>1, <2>1
    <3>2. ASSUME p < x PROVE FALSE
      <4>1. x \in p + 1 .. x + l - 1
        BY <1>1, <3>2
      <4> QED BY <1>1, <2>1, <4>1 DEF White
    <3> QED BY <3>1, <3>2
  <2>4. p - x \in 1 .. l - 1 /\ p - x \in 1 .. Len(t) /\ x + (p - x) = p
    BY <1>1, <2>3
  <2>5. t[p - x] = "="
    BY <1>1, <2>1, <2>4
  <2>6. ASSUME NEW k \in (p - x) + 1 .. l - 1 PROVE t[k] \in White
    <3>1. x + k \in p + 1 .. x + l - 1 /\ k \in 1 .. Len(t)
      BY <1>1, <2>4
    <3> QED BY <1>1, <2>1, <3>1
  <2> QED BY <1>1, <2>2, <2>4, <2>5, <2>6 DEF Openings
<1> QED BY <1>2, <1>3

\* A bracket that is closed in the text is closed in the script; the converse
\* holds if the string's line ends with it.
LEMMA ClosingOfText ==
    ASSUME NEW e \in SUBSET {"nl"}, NEW s \in Seq(Token), NEW t \in Seq(TextToken),
           NEW x \in 1 .. Len(s), At(s, x, t, e), NEW l \in 1 .. Len(t)
    PROVE  /\ \A r \in Closings(t, l) : x + r \in Closings(s, x + l)
           /\ "nl" \in e => \A r \in Closings(s, x + l) : r - x \in Closings(t, l)
<1>1. /\ Len(s) \in Nat /\ Len(t) \in Nat /\ x + Len(t) + 1 \in 1 .. Len(s)
      /\ \A k \in 1 .. Len(t) : x + k \in 1 .. Len(s) /\ s[x + k] = t[k] /\ t[k] # "nl"
      /\ s[x + Len(t) + 1] = "w"
      /\ "nl" \in e => x + Len(t) + 2 \in 1 .. Len(s) /\ s[x + Len(t) + 2] = "nl"
  BY InText DEF Occurrence
<1>2. ASSUME NEW r \in Closings(t, l) PROVE x + r \in Closings(s, x + l)
  <2>1. r \in l + 1 .. Len(t) /\ t[r] = "]"
    BY DEF Closings
  <2>2. r \in 1 .. Len(t) /\ x + r \in x + l + 1 .. Len(s) /\ s[x + r] = "]"
    BY <1>1, <2>1
  <2>3. ASSUME NEW k \in x + l + 1 .. x + r - 1 PROVE s[k] # "nl"
    <3>1. k - x \in 1 .. Len(t) /\ x + (k - x) = k
      BY <1>1, <2>1
    <3> QED BY <1>1, <3>1
  <2> QED BY <2>2, <2>3 DEF Closings
<1>3. ASSUME "nl" \in e, NEW r \in Closings(s, x + l) PROVE r - x \in Closings(t, l)
  <2>1. r \in x + l + 1 .. Len(s) /\ s[r] = "]" /\ \A k \in x + l + 1 .. r - 1 : s[k] # "nl"
    BY DEF Closings
  <2>2. r <= x + Len(t)
    <3>1. ASSUME r > x + Len(t) + 2 PROVE FALSE
      <4>1. x + Len(t) + 2 \in x + l + 1 .. r - 1
        BY <1>1, <2>1, <3>1
      <4> QED BY <1>1, <1>3, <2>1, <4>1
    <3>2. r # x + Len(t) + 2 /\ r # x + Len(t) + 1
      BY <1>1, <1>3, <2>1
    <3>3. r \in Int /\ x + Len(t) \in Int
      BY <1>1, <2>1
    <3> QED BY <3>1, <3>2, <3>3
  <2>3. r - x \in l + 1 .. Len(t) /\ r - x \in 1 .. Len(t) /\ x + (r - x) = r
    BY <1>1, <2>1, <2>2
  <2>4. t[r - x] = "]"
    BY <1>1, <2>1, <2>3
  <2>5. ASSUME NEW k \in l + 1 .. (r - x) - 1 PROVE t[k] # "nl"
    <3>1. k \in 1 .. Len(t)
      BY <1>1, <2>3
    <3> QED BY <1>1, <3>1
  <2> QED BY <2>3, <2>4, <2>5 DEF Closings
<1> QED BY <1>2, <1>3

\* Apart from the array's, "= [" is found in texts only.
LEMMA OpeningInText ==
    ASSUME NEW a, IsArchive(a), NEW q \in Openings(Script(a)), q # HeaderLen(a) + 1
    PROVE  /\ q \in HeaderLen(a) + 2 .. Len(Script(a)) - 1
           /\ \E t \in Texts(a) : \E x \in 1 .. Len(Script(a)) :
                 At(Script(a), x, t, Ends(a)) /\ q - x \in 1 .. Len(t) /\ q - x \in Openings(t)
<1> DEFINE s == Script(a)  h == HeaderLen(a)  e == Ends(a)  T == Texts(a)
<1>1. /\ s \in Seq(Token) /\ Len(s) \in Nat /\ DOMAIN s = 1 .. Len(s) /\ h \in Nat
      /\ s[h + 1] = "[" /\ s[Len(s)] = "]" /\ h + 2 <= Len(s)
      /\ \A p \in 1 .. h : s[p] \in {"w", "sp", "="}
      /\ \A p \in h + 2 .. Len(s) - 1 :
            s[p] \in {"w", "begin", "end"} \cup e \/ Within(s, p, T, e)
  BY ScriptShape, LenProperties DEF HeaderLen
<1>2. e \in SUBSET {"nl"} /\ T \in SUBSET Seq(TextToken)
  BY EndsOfLines, ArchiveTyped
<1>3. q \in 1 .. Len(s) /\ s[q] = "[" /\ q # h + 1 /\ q \in Openings(s)
  BY <1>1 DEF Openings
<1> HIDE DEF s, h, e, T
<1>4. q \in h + 2 .. Len(s) - 1
  <2>1. q \notin 1 .. h /\ q # Len(s)
    BY <1>1, <1>3
  <2> QED BY <1>1, <1>3, <2>1, Between
<1>5. Within(s, q, T, e)
  BY <1>1, <1>2, <1>3, <1>4
<1>6. PICK t \in T : \E x \in 1 .. Len(s) : At(s, x, t, e) /\ x < q /\ q <= x + Len(t)
  BY <1>5 DEF Within
<1>7. PICK x \in 1 .. Len(s) : At(s, x, t, e) /\ x < q /\ q <= x + Len(t)
  BY <1>6
<1>8. t \in Seq(TextToken) /\ Len(t) \in Nat
  BY <1>2, LenProperties
<1>9. q - x \in 1 .. Len(t) /\ x + (q - x) = q
  BY <1>1, <1>3, <1>7, <1>8
<1>10. q - x \in Openings(t)
  <2>1. \A l \in 1 .. Len(t) : x + l \in Openings(s) => l \in Openings(t)
    BY <1>1, <1>2, <1>7, <1>8, OpeningOfText, Zenon
  <2> QED BY <1>3, <1>9, <2>1
<1> QED BY <1>4, <1>7, <1>9, <1>10 DEF s, h, e, T

\* An archive of one line has no line break.
LEMMA NoBreak ==
    ASSUME NEW a, IsArchive(a), "nl" \notin Ends(a), NEW p \in 1 .. Len(Script(a))
    PROVE  Script(a)[p] # "nl"
<1> DEFINE s == Script(a)  h == HeaderLen(a)  e == Ends(a)  T == Texts(a)
<1>1. /\ s \in Seq(Token) /\ Len(s) \in Nat /\ DOMAIN s = 1 .. Len(s) /\ h \in Nat
      /\ s[h + 1] = "[" /\ s[Len(s)] = "]" /\ h + 2 <= Len(s)
      /\ \A i \in 1 .. h : s[i] \in {"w", "sp", "="}
      /\ \A i \in h + 2 .. Len(s) - 1 :
            s[i] \in {"w", "begin", "end"} \cup e \/ Within(s, i, T, e)
  BY ScriptShape, LenProperties DEF HeaderLen
<1>2. e = {} /\ T \in SUBSET Seq(TextToken) /\ p \in 1 .. Len(s)
  BY EndsOfLines, ArchiveTyped
<1> HIDE DEF s, h, e, T
<1>3. ASSUME Within(s, p, T, e) PROVE s[p] # "nl"
  <2>1. PICK t \in T : \E x \in 1 .. Len(s) : At(s, x, t, e) /\ x < p /\ p <= x + Len(t)
    BY <1>3 DEF Within
  <2>2. PICK x \in 1 .. Len(s) : At(s, x, t, e) /\ x < p /\ p <= x + Len(t)
    BY <2>1
  <2>3. t \in Seq(TextToken) /\ Len(t) \in Nat
    BY <1>2, LenProperties
  <2>4. p - x \in 1 .. Len(t) /\ x + (p - x) = p
    BY <1>1, <1>2, <2>2, <2>3
  <2>5. \A l \in 1 .. Len(t) : s[x + l] = t[l] /\ t[l] # "nl"
    <3>1. Occurrence(s, x, t, e)
      BY <1>1, <1>2, <2>2, <2>3, InText
    <3> QED BY <3>1 DEF Occurrence
  <2> QED BY <2>4, <2>5
<1>4. p \in 1 .. h \/ p = h + 1 \/ p = Len(s) \/ p \in h + 2 .. Len(s) - 1
  BY <1>1, <1>2, Between
<1>5. s[p] # "nl"
  BY <1>1, <1>2, <1>3, <1>4
<1> QED BY <1>5 DEF s
-----------------------------------------------------------------------------
(* extractJSONFromJS *)

\* An archive is misread because of one of its texts.
LEMMA MisreadText ==
    ASSUME NEW a, IsArchive(a)
    PROVE  Misread(a) <=>
              \E t \in Texts(a) :
                 \/ a.pretty /\ EqualsArray(t)
                 \/ ~a.pretty /\ ~a.header /\ EqualsBracket(t)
BY DEF Misread, Texts

\* The fallback of extractJSONFromJS takes the whole array, whatever brackets
\* the texts have: it goes to the last "]".
LEMMA WholeArray ==
    ASSUME NEW a, IsArchive(a)
    PROVE  FromBracketToBracket(Script(a)) = Json(a)
<1> DEFINE s == Script(a)  h == HeaderLen(a)
           opening == Positions(s, "[")  closing == Positions(s, "]")
<1>1. /\ s \in Seq(Token) /\ Len(s) \in Nat /\ DOMAIN s = 1 .. Len(s) /\ h \in Nat
      /\ s[h + 1] = "[" /\ s[Len(s)] = "]" /\ h + 2 <= Len(s)
      /\ \A p \in 1 .. h : s[p] \in {"w", "sp", "="}
      /\ SubSeq(s, h + 1, Len(s)) = Json(a)
  BY ScriptShape, LenProperties DEF HeaderLen
<1> HIDE DEF s, h
<1>2. /\ opening \subseteq Nat /\ h + 1 \in opening /\ \A p \in opening : h + 1 <= p
      /\ closing \subseteq 0 .. Len(s) /\ Len(s) \in closing /\ \A p \in closing : p <= Len(s)
  <2>1. /\ \A p \in opening : p \in 1 .. Len(s) /\ s[p] = "["
        /\ \A p \in closing : p \in 1 .. Len(s)
        /\ h + 1 \in opening /\ Len(s) \in closing
    BY <1>1 DEF Positions
  <2>2. ASSUME NEW p \in opening PROVE h + 1 <= p
    <3>1. p \notin 1 .. h /\ p \in 1 .. Len(s)
      BY <1>1, <2>1
    <3> QED BY <1>1, <3>1
  <2> HIDE DEF opening, closing
  <2> QED BY <1>1, <2>1, <2>2
<1> HIDE DEF opening, closing
<1>3. Min(opening) \in opening /\ \A p \in opening : Min(opening) <= p
  BY <1>2, LeastIsMin
<1>4. Max(closing) \in closing /\ Max(closing) \in Nat /\ \A p \in closing : Max(closing) >= p
  BY <1>1, <1>2, GreatestIsMax
<1>5. Min(opening) = h + 1
  <2>1. Min(opening) \in Nat /\ Min(opening) <= h + 1 /\ h + 1 <= Min(opening)
    BY <1>2, <1>3
  <2> QED BY <1>1, <2>1
<1>6. Max(closing) = Len(s)
  <2>1. Max(closing) \in Int /\ Max(closing) <= Len(s) /\ Max(closing) >= Len(s)
    BY <1>1, <1>2, <1>4
  <2> QED BY <1>1, <2>1
<1>7. opening # {} /\ closing # {} /\ ~ (Max(closing) < Min(opening))
  BY <1>1, <1>2, <1>5, <1>6
<1>8. FromBracketToBracket(s) = SubSeq(s, h + 1, Len(s))
  BY <1>5, <1>6, <1>7, Zenon DEF FromBracketToBracket, opening, closing
<1> QED BY <1>1, <1>8 DEF s

\* Where the regular expression matches.
Matching(s) == {q \in Openings(s) : Closings(s, q) # {}}

\* A match is greedy: it ends at the last bracket of the line.
LEMMA LastClosing ==
    ASSUME NEW s \in Seq(Token), NEW q \in Matching(s)
    PROVE  /\ Max(Closings(s, q)) \in Closings(s, q)
           /\ \A r \in Closings(s, q) : r <= Max(Closings(s, q))
           /\ Max(Closings(s, q)) \in q + 1 .. Len(s) /\ q \in 1 .. Len(s)
<1>1. Len(s) \in Nat /\ DOMAIN s = 1 .. Len(s)
  BY LenProperties
<1>2. q \in 1 .. Len(s) /\ Closings(s, q) # {} /\ Closings(s, q) \subseteq q + 1 .. Len(s)
  BY <1>1 DEF Matching, Openings, Closings
<1>3. Closings(s, q) \subseteq 0 .. Len(s)
  BY <1>1, <1>2
<1>4. PICK C : C = Closings(s, q)
  OBVIOUS
<1>5. Max(C) \in C /\ \A r \in C : Max(C) >= r
  BY <1>1, <1>2, <1>3, <1>4, GreatestIsMax
<1>6. \A r \in C : r \in Int
  BY <1>1, <1>2, <1>4
<1> QED BY <1>2, <1>4, <1>5, <1>6

\* The first match is taken.
LEMMA FirstMatch ==
    ASSUME NEW s \in Seq(Token), Matching(s) # {}
    PROVE  Min(Matching(s)) \in Matching(s) /\ \A q \in Matching(s) : Min(Matching(s)) <= q
<1>1. Matching(s) \subseteq Nat
  <2>1. DOMAIN s = 1 .. Len(s) /\ Len(s) \in Nat
    BY LenProperties
  <2> QED BY <2>1 DEF Matching, Openings
<1> QED BY <1>1, LeastIsMin

\* A match that does not begin at the array is a text's doing.
LEMMA MatchedInText ==
    ASSUME NEW a, IsArchive(a), NEW q \in Matching(Script(a)), q # HeaderLen(a) + 1
    PROVE  \E t \in Texts(a) : EqualsBracket(t) /\ ("nl" \in Ends(a) => EqualsArray(t))
<1> DEFINE s == Script(a)  e == Ends(a)
<1>1. s \in Seq(Token) /\ e \in SUBSET {"nl"} /\ Texts(a) \in SUBSET Seq(TextToken)
  BY ScriptShape, EndsOfLines, ArchiveTyped
<1>2. q \in Openings(s) /\ Closings(s, q) # {}
  BY DEF Matching
<1>3. PICK t \in Texts(a) : \E x \in 1 .. Len(s) :
         At(s, x, t, e) /\ q - x \in 1 .. Len(t) /\ q - x \in Openings(t)
  BY <1>2, OpeningInText
<1>4. PICK x \in 1 .. Len(s) : At(s, x, t, e) /\ q - x \in 1 .. Len(t) /\ q - x \in Openings(t)
  BY <1>3
<1>5. EqualsBracket(t)
  BY <1>4 DEF EqualsBracket
<1> HIDE DEF s, e
<1>6. ASSUME "nl" \in e PROVE EqualsArray(t)
  <2>1. PICK l \in 1 .. Len(t) : l = q - x
    BY <1>4
  <2>2. x + l = q /\ t \in Seq(TextToken)
    <3>1. q \in Int /\ x \in Int
      <4>1. DOMAIN s = 1 .. Len(s) /\ Len(s) \in Nat
        BY <1>1, LenProperties
      <4> QED BY <1>2, <4>1 DEF Openings
    <3> QED BY <1>1, <2>1, <3>1
  <2>3. \A r \in Closings(s, x + l) : r - x \in Closings(t, l)
    BY <1>1, <1>4, <1>6, <2>2, ClosingOfText
  <2>4. Closings(t, l) # {}
    BY <1>2, <2>2, <2>3
  <2> QED BY <1>4, <2>1, <2>4 DEF EqualsArray
<1> QED BY <1>5, <1>6 DEF e

\* Such a match is shorter than the array.
LEMMA ShortMatch ==
    ASSUME NEW a, IsArchive(a), NEW q \in Matching(Script(a)), q # HeaderLen(a) + 1
    PROVE  SubSeq(Script(a), q, Max(Closings(Script(a), q))) # Json(a)
<1> DEFINE s == Script(a)  h == HeaderLen(a)  r == Max(Closings(s, q))
<1>1. s \in Seq(Token) /\ Len(s) \in Nat /\ h \in Nat /\ Len(Json(a)) = Len(s) - h
  BY ScriptShape, LenProperties DEF HeaderLen
<1>2. q \in h + 2 .. Len(s) - 1
  BY OpeningInText DEF Matching
<1>3. r \in q + 1 .. Len(s) /\ q \in 1 .. Len(s)
  BY <1>1, LastClosing
<1> HIDE DEF s, h, r
<1>4. \A i \in q .. r : s[i] \in Token
  <2>1. \A i \in q .. r : i \in 1 .. Len(s)
    BY <1>1, <1>3
  <2> QED BY <1>1, <2>1, ElementOfSeq
<1>5. Len(SubSeq(s, q, r)) = IF q <= r THEN r - q + 1 ELSE 0
  BY <1>1, <1>3, <1>4, SubSeqProperties
<1>6. Len(SubSeq(s, q, r)) < Len(Json(a))
  BY <1>1, <1>2, <1>3, <1>5
<1>7. Len(SubSeq(s, q, r)) # Len(Json(a))
  <2>0. q \in Int /\ r \in Int /\ q <= r
    BY <1>1, <1>3
  <2>1. PICK n \in Int : n = r - q + 1
    BY <2>0
  <2>2. PICK m \in Int : m = Len(Json(a))
    BY <1>1
  <2>3. n = Len(SubSeq(s, q, r))
    BY <1>5, <2>0, <2>1, Zenon
  <2>4. n < m
    BY <1>6, <2>2, <2>3, Zenon
  <2>5. n # m
    BY <2>4
  <2> QED BY <2>2, <2>3, <2>5, Zenon
<1>8. SubSeq(s, q, r) # Json(a)
  BY <1>7, Zenon
<1> QED BY <1>8 DEF s, r

\* In an archive of one line with header the first match is the whole array.
LEMMA HeadedLine ==
    ASSUME NEW a, IsArchive(a), a.header, ~ a.pretty
    PROVE  extractJSONFromJS(Script(a)) = Json(a)
<1> DEFINE s == Script(a)  m == Min(Matching(s))  r == Max(Closings(s, m))
<1>1. HeaderLen(a) = 4 /\ "nl" \notin Ends(a)
  BY DEF HeaderLen, Ends
<1>2. /\ s \in Seq(Token) /\ Len(s) \in Nat /\ DOMAIN s = 1 .. Len(s)
      /\ s[5] = "[" /\ s[Len(s)] = "]" /\ 6 <= Len(s) /\ s[3] = "=" /\ s[4] = "sp"
      /\ \A p \in 1 .. 4 : s[p] \in {"w", "sp", "="}
      /\ SubSeq(s, 5, Len(s)) = Json(a)
  <2>1. HeaderLen(a) + 1 = 5 /\ HeaderLen(a) + 2 = 6
    BY <1>1
  <2> QED BY <1>1, <2>1, ScriptShape, LenProperties
<1>3. \A p \in 1 .. Len(s) : s[p] # "nl"
  BY <1>1, NoBreak
<1>4. extractJSONFromJS(s) = IF Matching(s) # {} THEN SubSeq(s, m, r) ELSE FromBracketToBracket(s)
  BY DEF extractJSONFromJS, Matching
<1> HIDE DEF s
<1>5. \A q \in Matching(s) : q \in Nat /\ 5 <= q
  <2>1. ASSUME NEW q \in Matching(s) PROVE q \in Nat /\ 5 <= q
    <3>1. q \in 1 .. Len(s) /\ s[q] = "["
      BY <1>2 DEF Matching, Openings
    <3>2. q \notin 1 .. 4
      BY <1>2, <3>1
    <3> QED BY <1>2, <3>1, <3>2
  <2> QED BY <2>1
<1>6. 5 \in Matching(s) /\ Len(s) \in Closings(s, 5)
  <2>1. 5 \in Openings(s)
    <3>1. 3 \in 1 .. 5 - 1 /\ \A k \in 3 + 1 .. 5 - 1 : k = 4
      OBVIOUS
    <3>2. \A k \in 3 + 1 .. 5 - 1 : s[k] \in White
      BY <1>2, <3>1 DEF White
    <3>3. 5 \in DOMAIN s
      BY <1>2
    <3> QED BY <1>2, <3>1, <3>2, <3>3 DEF Openings
  <2>2. Len(s) \in Closings(s, 5)
    <3>1. Len(s) \in 5 + 1 .. Len(s) /\ \A k \in 5 + 1 .. Len(s) - 1 : k \in 1 .. Len(s)
      BY <1>2
    <3> QED BY <1>2, <1>3, <3>1 DEF Closings
  <2> QED BY <2>1, <2>2 DEF Matching
<1>7. m = 5
  <2>1. m \in Matching(s) /\ \A q \in Matching(s) : m <= q
    BY <1>2, <1>6, FirstMatch
  <2> HIDE DEF m
  <2> QED BY <1>5, <1>6, <2>1
<1>8. r = Len(s)
  <2>1. /\ \A k \in Closings(s, 5) : k <= Max(Closings(s, 5))
        /\ Max(Closings(s, 5)) \in 5 + 1 .. Len(s)
    BY <1>2, <1>6, LastClosing
  <2>2. Max(Closings(s, 5)) = Len(s)
    BY <1>2, <1>6, <2>1
  <2> QED BY <1>7, <2>2
<1> HIDE DEF m, r
<1> QED BY <1>2, <1>4, <1>6, <1>7, <1>8 DEF s

\* The array itself matches in no other archive: its line ends after the
\* bracket, or there is no "=" before it.
LEMMA NoMatchAtArray ==
    ASSUME NEW a, IsArchive(a), a.pretty \/ ~ a.header
    PROVE  HeaderLen(a) + 1 \notin Matching(Script(a))
<1> DEFINE s == Script(a)  h == HeaderLen(a)
<1>1. /\ s \in Seq(Token) /\ Len(s) \in Nat /\ h \in Nat /\ h + 2 <= Len(s)
      /\ "nl" \in Ends(a) => s[h + 2] = "nl"
  BY ScriptShape, LenProperties DEF HeaderLen
<1>2. "nl" \in Ends(a) \/ h = 0
  BY DEF Ends, HeaderLen
<1> HIDE DEF s, h
<1>3. ASSUME h = 0 PROVE h + 1 \notin Openings(s)
  BY <1>3 DEF Openings
<1>4. ASSUME "nl" \in Ends(a) PROVE Closings(s, h + 1) = {}
  <2>1. ASSUME NEW r \in Closings(s, h + 1) PROVE FALSE
    <3>1. /\ r \in h + 1 + 1 .. Len(s) /\ s[r] = "]"
          /\ \A k \in h + 1 + 1 .. r - 1 : s[k] # "nl"
      BY <2>1 DEF Closings
    <3>2. r = h + 2 \/ h + 2 \in h + 1 + 1 .. r - 1
      BY <1>1, <3>1
    <3> QED BY <1>1, <1>4, <3>1, <3>2
  <2> QED BY <2>1
<1>5. h + 1 \notin Matching(s)
  BY <1>2, <1>3, <1>4 DEF Matching
<1> QED BY <1>5 DEF s, h

\* A text with such a bracket does match.
LEMMA TextMatches ==
    ASSUME NEW a, IsArchive(a), NEW t \in Texts(a), EqualsBracket(t),
           "nl" \in Ends(a) => EqualsArray(t)
    PROVE  Matching(Script(a)) # {}
<1> DEFINE s == Script(a)  e == Ends(a)
<1>1. /\ s \in Seq(Token) /\ e \in SUBSET {"nl"} /\ t \in Seq(TextToken)
      /\ Len(s) \in Nat /\ DOMAIN s = 1 .. Len(s) /\ DOMAIN t = 1 .. Len(t) /\ s[Len(s)] = "]"
  BY ScriptShape, EndsOfLines, ArchiveTyped, LenProperties
<1>2. PICK x \in 1 .. Len(s) : At(s, x, t, e)
  BY ScriptShape
<1>3. "nl" \notin e => \A p \in 1 .. Len(s) : s[p] # "nl"
  BY NoBreak
<1>4. /\ \A l \in Openings(t) : l \in 1 .. Len(t) /\ x + l \in Openings(s)
      /\ \A l \in 1 .. Len(t) : \A r \in Closings(t, l) : x + r \in Closings(s, x + l)
  <2>1. \A l \in Openings(t) : x + l \in Openings(s)
    BY <1>1, <1>2, OpeningOfText
  <2>2. \A l \in Openings(t) : l \in 1 .. Len(t)
    BY <1>1 DEF Openings
  <2>3. \A l \in 1 .. Len(t) : \A r \in Closings(t, l) : x + r \in Closings(s, x + l)
    BY <1>1, <1>2, ClosingOfText
  <2> QED BY <2>1, <2>2, <2>3
<1> HIDE DEF s, e
<1>5. CASE "nl" \in e
  <2>1. PICK l \in Openings(t) : Closings(t, l) # {}
    BY <1>5 DEF EqualsArray, e
  <2>2. x + l \in Openings(s) /\ Closings(s, x + l) # {}
    BY <1>4, <2>1
  <2> QED BY <2>2 DEF Matching, s
<1>6. CASE "nl" \notin e
  <2>1. PICK l \in Openings(t) : TRUE
    BY DEF EqualsBracket
  <2>2. PICK q \in Openings(s) : q = x + l
    BY <1>4, <2>1
  <2>3. q \in 1 .. Len(s) /\ s[q] = "["
    BY <1>1 DEF Openings
  <2>4. q # Len(s)
    BY <1>1, <2>3
  <2>5. PICK n \in Nat : n = Len(s)
    BY <1>1
  <2>6. q \in 1 .. n /\ q # n
    BY <2>3, <2>4, <2>5
  <2>7. n \in q + 1 .. n
    BY <2>6
  <2>8. \A k \in q + 1 .. n - 1 : k \in 1 .. n
    BY <2>6
  <2>9. n \in Closings(s, q)
    BY <1>1, <1>3, <1>6, <2>5, <2>7, <2>8 DEF Closings
  <2> QED BY <2>9 DEF Matching, s
<1> QED BY <1>5, <1>6

\* extractJSONFromJS takes the tweets' array out of the script of any archive,
\* whatever brackets, "=" and spaces its texts have, exactly if no text makes
\* it misread.
THEOREM ArrayExtracted ==
    ASSUME NEW a, IsArchive(a)
    PROVE  extractJSONFromJS(Script(a)) = Json(a) <=> ~ Misread(a)
<1> DEFINE s == Script(a)  m == Min(Matching(s))  r == Max(Closings(s, m))
<1>1. /\ Matching(s) = {} => extractJSONFromJS(s) = Json(a)
      /\ Matching(s) # {} => extractJSONFromJS(s) = SubSeq(s, m, r)
  BY WholeArray DEF extractJSONFromJS, Matching
<1>2. /\ a.pretty \in BOOLEAN /\ a.header \in BOOLEAN
      /\ "nl" \in Ends(a) <=> a.pretty
  BY DEF IsArchive, Ends
<1>3. CASE a.header /\ ~ a.pretty
  BY <1>3, HeadedLine, MisreadText
<1>4. CASE a.pretty \/ ~ a.header
  <2>1. ASSUME Matching(s) # {} PROVE Misread(a) /\ extractJSONFromJS(s) # Json(a)
    <3>1. m \in Matching(s)
      BY <2>1, ScriptShape, FirstMatch
    <3>2. m # HeaderLen(a) + 1
      BY <1>4, <3>1, NoMatchAtArray
    <3>3. SubSeq(s, m, r) # Json(a)
      BY <3>1, <3>2, ShortMatch
    <3>4. PICK t \in Texts(a) : EqualsBracket(t) /\ ("nl" \in Ends(a) => EqualsArray(t))
      BY <3>1, <3>2, MatchedInText
    <3>5. Misread(a)
      BY <1>2, <1>4, <3>4, MisreadText
    <3> QED BY <1>1, <2>1, <3>3, <3>5
  <2>2. ASSUME Misread(a) PROVE Matching(s) # {}
    <3>1. PICK t \in Texts(a) :
             \/ a.pretty /\ EqualsArray(t)
             \/ ~a.pretty /\ ~a.header /\ EqualsBracket(t)
      BY <2>2, MisreadText
    <3>2. EqualsBracket(t) /\ ("nl" \in Ends(a) => EqualsArray(t))
      BY <1>2, <3>1 DEF EqualsBracket, EqualsArray
    <3> QED BY <3>2, TextMatches
  <2> QED BY <1>1, <2>1, <2>2
<1> QED BY <1>2, <1>3, <1>4
-----------------------------------------------------------------------------
(* The tweets that are kept *)

\* isRetweet looks for "RT @" after any spaces; so does a reader who looks at
\* the first token that is no space.
LEMMA RetweetSeen ==
    ASSUME NEW t, t.full \in Seq(TextToken), t.short \in Seq(TextToken)
    PROVE  isRetweet(TextOf(t)) <=> Retweet(t)
<1> DEFINE solid == {k \in DOMAIN Shown(t) : Shown(t)[k] \notin {"sp", "esc"}}
<1>1. TextOf(t) = Shown(t) /\ Shown(t) \in Seq(TextToken)
  BY DEF TextOf, Shown
<1>2. PICK text \in Seq(TextToken) : text = Shown(t)
  BY <1>1
<1>3. Len(text) \in Nat /\ DOMAIN text = 1 .. Len(text)
  BY LenProperties
<1>4. solid \subseteq Nat /\ solid = {k \in DOMAIN text : text[k] \notin Blank}
  BY <1>2, <1>3 DEF Blank
<1>5. Retweet(t) <=> solid # {} /\ text[Min(solid)] = "RT"
  BY <1>2 DEF Retweet
<1> HIDE DEF solid
<1>6. ASSUME solid # {}, text[Min(solid)] = "RT" PROVE isRetweet(text)
  <2>1. Min(solid) \in solid /\ \A k \in solid : Min(solid) <= k
    BY <1>4, <1>6, LeastIsMin
  <2>2. PICK m \in DOMAIN text : m = Min(solid)
    BY <1>4, <2>1
  <2>3. ASSUME NEW l \in 1 .. m - 1 PROVE text[l] \in Blank
    <3>1. l \in DOMAIN text /\ ~ (m <= l)
      BY <1>3, <2>2
    <3>2. l \notin solid
      BY <2>1, <2>2, <3>1
    <3> QED BY <1>4, <3>1, <3>2
  <2> QED BY <1>6, <2>2, <2>3 DEF isRetweet
<1>7. ASSUME isRetweet(text) PROVE solid # {} /\ text[Min(solid)] = "RT"
  <2>1. PICK k \in DOMAIN text : text[k] = "RT" /\ \A l \in 1 .. k - 1 : text[l] \in Blank
    BY <1>7 DEF isRetweet
  <2>2. k \in solid
    BY <1>4, <2>1 DEF Blank
  <2>3. Min(solid) \in solid /\ Min(solid) <= k
    BY <1>4, <2>2, LeastIsMin
  <2>4. PICK m \in DOMAIN text : m = Min(solid) /\ text[m] \notin Blank /\ m <= k
    BY <1>4, <2>3
  <2>5. m \notin 1 .. k - 1
    BY <2>1, <2>4
  <2>6. m = k
    BY <1>3, <2>4, <2>5
  <2> QED BY <2>1, <2>2, <2>4, <2>6
<1> QED BY <1>1, <1>2, <1>5, <1>6, <1>7

\* The loop that keeps tweets, as the function of its recursive definition.
Kept(g, ts, N) ==
    g = [n \in 0 .. N |->
            IF n = 0 THEN <<>>
            ELSE IF isRetweet(TextOf(ts[n])) THEN g[n - 1]
            ELSE Append(g[n - 1], convertToTweetRecord(ts[n]))]

\* That function exists.
LEMMA KeptExists ==
    ASSUME NEW ts, NEW N \in Nat PROVE \E g : Kept(g, ts, N)
<1> DEFINE P == {n \in Nat : \E g : Kept(g, ts, n)}
<1>1. 0 \in P
  <2> DEFINE g == [n \in 0 .. 0 |-> <<>>]
  <2>1. Kept(g, ts, 0)
    BY DEF Kept
  <2> QED BY <2>1
<1>2. ASSUME NEW n \in Nat, 0 <= n /\ n \in P PROVE n + 1 \in P
  <2>1. PICK g : Kept(g, ts, n)
    BY <1>2
  <2> DEFINE new == IF isRetweet(TextOf(ts[n + 1])) THEN g[n]
                    ELSE Append(g[n], convertToTweetRecord(ts[n + 1]))
             h == [i \in 0 .. n + 1 |-> IF i = n + 1 THEN new ELSE g[i]]
  <2>2. ASSUME NEW i \in 0 .. n + 1
        PROVE  h[i] = IF i = 0 THEN <<>>
                      ELSE IF isRetweet(TextOf(ts[i])) THEN h[i - 1]
                      ELSE Append(h[i - 1], convertToTweetRecord(ts[i]))
    <3>1. CASE i = n + 1
      <4>1. i # 0 /\ i - 1 = n /\ n \in 0 .. n + 1 /\ n # n + 1
        BY <1>2, <3>1
      <4>2. h[i] = new /\ h[n] = g[n]
        BY <3>1, <4>1
      <4> HIDE DEF h
      <4> QED BY <3>1, <4>1, <4>2
    <3>2. CASE i # n + 1
      <4>1. i \in 0 .. n /\ (i # 0 => i - 1 \in 0 .. n /\ i - 1 # n + 1)
        BY <3>2
      <4>2. g[i] = IF i = 0 THEN <<>>
                   ELSE IF isRetweet(TextOf(ts[i])) THEN g[i - 1]
                   ELSE Append(g[i - 1], convertToTweetRecord(ts[i]))
        BY <2>1, <4>1 DEF Kept
      <4>3. h[i] = g[i] /\ (i # 0 => h[i - 1] = g[i - 1])
        BY <3>2, <4>1
      <4> HIDE DEF h
      <4> QED BY <4>2, <4>3
    <3> QED BY <3>1, <3>2
  <2>3. Kept(h, ts, n + 1)
    BY <2>2 DEF Kept
  <2> HIDE DEF h
  <2> QED BY <2>3
<1>3. \A n \in Nat : 0 <= n => n \in P
  <2> HIDE DEF P
  <2> QED BY <1>1, <1>2, SetInduction
<1> QED BY <1>3

\* Originals returns its last value.
LEMMA OriginalsKept ==
    ASSUME NEW ts, Len(ts) \in Nat
    PROVE  \E g : Kept(g, ts, Len(ts)) /\ Originals(ts) = g[Len(ts)]
<1>1. Originals(ts) = (CHOOSE g : Kept(g, ts, Len(ts)))[Len(ts)]
  BY Zenon DEF Originals, Kept
<1>2. Kept(CHOOSE g : Kept(g, ts, Len(ts)), ts, Len(ts))
  BY KeptExists, Zenon
<1> QED BY <1>1, <1>2

\* s has the tweets of ts up to n that are no retweets, at the places `place`.
Chosen(place, s, ts, n) ==
    /\ place \in [DOMAIN s -> 1 .. n]
    /\ \A i, j \in DOMAIN s : i < j => place[i] < place[j]
    /\ ToSet(place) = {k \in 1 .. n : ~Retweet(ts[k])}
    /\ \A i \in DOMAIN s :
          s[i].id = ts[place[i]].id /\ s[i].text = Shown(ts[place[i]])

\* A retweet changes nothing.
LEMMA NotChosen ==
    ASSUME NEW ts, NEW n \in Nat, NEW s, NEW place, Chosen(place, s, ts, n), Retweet(ts[n + 1])
    PROVE  Chosen(place, s, ts, n + 1)
<1>1. place \in [DOMAIN s -> 1 .. n + 1]
  BY DEF Chosen
<1>2. {k \in 1 .. n + 1 : ~Retweet(ts[k])} = {k \in 1 .. n : ~Retweet(ts[k])}
  <2>1. \A k \in 1 .. n + 1 : k \in 1 .. n \/ k = n + 1
    OBVIOUS
  <2> QED BY <2>1
<1> QED BY <1>1, <1>2 DEF Chosen

\* Another tweet is added at the end.
LEMMA OneMoreChosen ==
    ASSUME NEW S, NEW s \in Seq(S), NEW ts, NEW n \in Nat, NEW place, Chosen(place, s, ts, n),
           ~Retweet(ts[n + 1]), NEW r, r.id = ts[n + 1].id, r.text = Shown(ts[n + 1])
    PROVE  \E p : Chosen(p, Append(s, r), ts, n + 1)
<1> DEFINE l == Len(s)  u == Append(s, r)
           p == [i \in 1 .. l + 1 |-> IF i = l + 1 THEN n + 1 ELSE place[i]]
<1>1. /\ l \in Nat /\ DOMAIN s = 1 .. l /\ DOMAIN u = 1 .. l + 1 /\ u[l + 1] = r
      /\ \A i \in 1 .. l : u[i] = s[i]
  BY LenProperties
<1> HIDE DEF l, u
<1>2. /\ p[l + 1] = n + 1 /\ \A i \in 1 .. l : p[i] = place[i]
      /\ DOMAIN p = 1 .. l + 1 /\ DOMAIN place = 1 .. l
      /\ \A i \in 1 .. l : place[i] \in 1 .. n
  BY <1>1 DEF Chosen
<1>3. \A i \in 1 .. l + 1 : i \in 1 .. l \/ i = l + 1
  BY <1>1
<1>4. p \in [DOMAIN u -> 1 .. n + 1]
  <2>1. \A i \in 1 .. l + 1 : p[i] \in 1 .. n + 1
    BY <1>2, <1>3
  <2> QED BY <1>1, <2>1
<1> HIDE DEF p
<1>5. ASSUME NEW i \in DOMAIN u, NEW j \in DOMAIN u, i < j PROVE p[i] < p[j]
  <2>1. i \in 1 .. l /\ (j \in 1 .. l \/ j = l + 1)
    BY <1>1, <1>5
  <2>2. CASE j \in 1 .. l
    BY <1>1, <1>2, <1>5, <2>1, <2>2 DEF Chosen
  <2>3. CASE j = l + 1
    BY <1>2, <2>1, <2>3
  <2> QED BY <2>1, <2>2, <2>3
<1>6. ToSet(p) = {k \in 1 .. n + 1 : ~Retweet(ts[k])}
  <2>1. ToSet(place) = {k \in 1 .. n : ~Retweet(ts[k])}
    BY DEF Chosen
  <2>2. ToSet(p) = ToSet(place) \cup {n + 1}
    <3>1. l + 1 \in 1 .. l + 1 /\ \A i \in 1 .. l : i \in 1 .. l + 1
      BY <1>1
    <3> QED BY <1>2, <1>3, <3>1 DEF ToSet
  <2>3. \A k \in 1 .. n + 1 : k \in 1 .. n \/ k = n + 1
    OBVIOUS
  <2>4. \A k \in 1 .. n : k \in 1 .. n + 1
    OBVIOUS
  <2>5. n + 1 \in 1 .. n + 1
    OBVIOUS
  <2> QED BY <2>1, <2>2, <2>3, <2>4, <2>5
<1>7. ASSUME NEW i \in DOMAIN u
      PROVE  u[i].id = ts[p[i]].id /\ u[i].text = Shown(ts[p[i]])
  <2>1. CASE i \in 1 .. l
    BY <1>1, <1>2, <2>1 DEF Chosen
  <2>2. CASE i = l + 1
    BY <1>1, <1>2, <2>2
  <2> QED BY <1>1, <1>3, <2>1, <2>2
<1>8. Chosen(p, u, ts, n + 1)
  BY <1>4, <1>5, <1>6, <1>7 DEF Chosen
<1> QED BY <1>8 DEF u

\* The loop keeps every tweet that is no retweet, in order and with the text a
\* reader is shown: by induction over the tweets.
LEMMA OriginalsExact ==
    ASSUME NEW a, IsArchive(a) PROVE AllOriginals(Originals(a.tweets), a)
<1> DEFINE N == Len(a.tweets)  R == {convertToTweetRecord(a.tweets[k]) : k \in 1 .. N}
<1>1. PICK ts : ts = a.tweets
  OBVIOUS
<1>2. /\ N \in Nat /\ N = Len(ts) /\ DOMAIN ts = 1 .. N
      /\ \A i \in 1 .. N : ts[i].full \in Seq(TextToken) /\ ts[i].short \in Seq(TextToken)
  BY <1>1, ArchiveTyped
<1>3. PICK g : Kept(g, ts, N) /\ Originals(ts) = g[N]
  BY <1>2, OriginalsKept
<1>4. /\ \A k \in 1 .. N : convertToTweetRecord(ts[k]) \in R
      /\ \A k \in 1 .. N : isRetweet(TextOf(ts[k])) <=> Retweet(ts[k])
  BY <1>1, <1>2, RetweetSeen
<1> DEFINE P == {n \in Nat : n <= N => g[n] \in Seq(R) /\ \E place : Chosen(place, g[n], ts, n)}
<1> HIDE DEF N, R
<1>5. 0 \in P
  <2>1. g[0] = <<>>
    BY <1>2, <1>3 DEF Kept
  <2>2. Chosen(<<>>, <<>>, ts, 0)
    <3>1. ToSet(<<>>) = {} /\ {k \in 1 .. 0 : ~Retweet(ts[k])} = {}
      BY DEF ToSet
    <3>2. DOMAIN <<>> = {} /\ <<>> \in [DOMAIN <<>> -> 1 .. 0]
      OBVIOUS
    <3> QED BY <3>1, <3>2 DEF Chosen
  <2>3. <<>> \in Seq(R)
    OBVIOUS
  <2>4. g[0] \in Seq(R) /\ \E place : Chosen(place, g[0], ts, 0)
    BY <2>1, <2>2, <2>3, Zenon
  <2> QED BY <2>4
<1>6. ASSUME NEW n \in Nat, 0 <= n /\ n \in P PROVE n + 1 \in P
  <2> SUFFICES ASSUME n + 1 <= N
               PROVE  g[n + 1] \in Seq(R) /\ \E place : Chosen(place, g[n + 1], ts, n + 1)
    OBVIOUS
  <2>1. n + 1 \in 1 .. N /\ n + 1 # 0 /\ n + 1 - 1 = n /\ n + 1 \in 0 .. N /\ n <= N
    BY <1>2
  <2>2. g[n + 1] = IF isRetweet(TextOf(ts[n + 1])) THEN g[n]
                   ELSE Append(g[n], convertToTweetRecord(ts[n + 1]))
    <3>1. \A k \in 0 .. N : k # 0 =>
             g[k] = IF isRetweet(TextOf(ts[k])) THEN g[k - 1]
                    ELSE Append(g[k - 1], convertToTweetRecord(ts[k]))
      <4> HIDE DEF P
      <4> QED BY <1>3 DEF Kept
    <3>2. PICK k \in 0 .. N : k = n + 1 /\ k # 0 /\ k - 1 = n
      BY <2>1
    <3> HIDE DEF P
    <3>3. g[k] = IF isRetweet(TextOf(ts[k])) THEN g[n]
                 ELSE Append(g[n], convertToTweetRecord(ts[k]))
      BY <3>1, <3>2
    <3> QED BY <3>2, <3>3
  <2>3. PICK place : g[n] \in Seq(R) /\ Chosen(place, g[n], ts, n)
    BY <1>6, <2>1
  <2>4. CASE Retweet(ts[n + 1])
    <3>1. g[n + 1] = g[n]
      BY <1>4, <2>1, <2>2, <2>4
    <3> QED BY <2>3, <2>4, <3>1, NotChosen
  <2>5. CASE ~Retweet(ts[n + 1])
    <3>1. PICK r \in R : r = convertToTweetRecord(ts[n + 1])
      BY <1>4, <2>1
    <3>2. g[n + 1] = Append(g[n], r)
      BY <1>4, <2>1, <2>2, <2>5, <3>1
    <3>3. r.id = ts[n + 1].id /\ r.text = Shown(ts[n + 1])
      BY <3>1 DEF convertToTweetRecord, TextOf, Shown
    <3>4. \E p : Chosen(p, Append(g[n], r), ts, n + 1)
      BY <2>3, <2>5, <3>3, OneMoreChosen
    <3>5. Append(g[n], r) \in Seq(R)
      BY <2>3, <3>1, AppendProperties
    <3> QED BY <3>2, <3>4, <3>5
  <2> QED BY <2>4, <2>5
<1>7. N \in P
  <2> HIDE DEF P
  <2>1. \A n \in Nat : 0 <= n => n \in P
    BY <1>5, <1>6, SetInduction
  <2> QED BY <1>2, <2>1
<1>8. PICK place : Chosen(place, g[N], ts, N)
  BY <1>2, <1>7
<1>9. PICK s : s = g[N]
  OBVIOUS
<1>10. /\ place \in [DOMAIN s -> DOMAIN ts]
       /\ ToSet(place) = {k \in DOMAIN ts : ~Retweet(ts[k])}
  BY <1>2, <1>8, <1>9 DEF Chosen
<1>11. AllOriginals(s, a)
  BY <1>1, <1>8, <1>9, <1>10 DEF AllOriginals, Chosen
<1> QED BY <1>1, <1>3, <1>9, <1>11
-----------------------------------------------------------------------------
(* parseJSContent and ParseArchive *)

\* Of no tweets none are kept.
LEMMA NoOriginals == Originals(<<>>) = <<>>
<1>1. Len(<<>>) = 0
  OBVIOUS
<1>2. PICK g : Kept(g, <<>>, 0) /\ Originals(<<>>) = g[0]
  BY <1>1, OriginalsKept
<1>3. 0 \in 0 .. 0
  OBVIOUS
<1>4. g[0] = <<>>
  BY <1>2, <1>3 DEF Kept
<1> QED BY <1>2, <1>4

\* parseJSContent returns the tweets of an archive, or none at all.
LEMMA ContentExtracted ==
    ASSUME NEW a, IsArchive(a)
    PROVE  /\ Misread(a) => parseJSContent(a).tweets = <<>>
           /\ ~Misread(a) => parseJSContent(a) = Success(Originals(a.tweets))
<1>1. PICK json : json = extractJSONFromJS(Script(a))
  OBVIOUS
<1>2. json = Json(a) <=> ~Misread(a)
  BY <1>1, ArrayExtracted
<1>3. PICK raw : raw = IF json = <<>> THEN Failure ELSE Unmarshal(json, a)
  OBVIOUS
<1>4. parseJSContent(a) = IF raw.ok THEN Success(Originals(raw.tweets)) ELSE Failure
  BY <1>1, <1>3, Zenon DEF parseJSContent
<1>5. ASSUME Misread(a) PROVE parseJSContent(a).tweets = <<>>
  <2>1. raw = Failure \/ raw = Success(<<>>)
    BY <1>2, <1>3, <1>5 DEF Unmarshal
  <2>2. CASE raw = Failure
    BY <1>4, <2>2 DEF Failure
  <2>3. CASE raw = Success(<<>>)
    <3>1. raw.ok /\ raw.tweets = <<>>
      BY <2>3 DEF Success
    <3>2. parseJSContent(a) = Success(<<>>)
      BY <1>4, <3>1, NoOriginals
    <3> QED BY <3>2 DEF Success
  <2> QED BY <2>1, <2>2, <2>3
<1>6. ASSUME ~Misread(a) PROVE parseJSContent(a) = Success(Originals(a.tweets))
  <2>1. Json(a) # <<>>
    <3>1. /\ Len(Script(a)) \in Nat /\ HeaderLen(a) \in Nat /\ HeaderLen(a) + 2 <= Len(Script(a))
          /\ Len(Json(a)) = Len(Script(a)) - HeaderLen(a)
      BY ScriptShape, LenProperties DEF HeaderLen
    <3>2. PICK n \in Nat : n = Len(Json(a)) /\ n # 0
      BY <3>1
    <3>3. Len(<<>>) = 0
      OBVIOUS
    <3> QED BY <3>2, <3>3, Zenon
  <2>2. raw = Success(a.tweets)
    BY <1>2, <1>3, <1>6, <2>1 DEF Unmarshal
  <2>3. raw.ok /\ raw.tweets = a.tweets
    BY <2>2 DEF Success
  <2> QED BY <1>4, <2>3
<1> QED BY <1>5, <1>6

\* ParseArchive reads the entry the user means if it comes before every one
\* that resembles it.
LEMMA MeantFound ==
    ASSUME NEW f, f.entries \in Seq(ToSet(f.entries)),
           f.kind = "script" => Len(f.entries) <= 1,
           Readable(f), FirstIsMeant(f)
    PROVE  ParseArchive(f) = parseJSContent(Meant(f)) /\ Min(TweetFiles(f)) \in DOMAIN f.entries
<1>1. PICK es \in Seq(ToSet(f.entries)) : es = f.entries
  OBVIOUS
<1>2. Len(es) \in Nat /\ DOMAIN es = 1 .. Len(es)
  BY LenProperties
<1>3. /\ TweetFiles(f) \subseteq 1 .. Len(es) /\ TweetFiles(f) # {}
      /\ TweetFiles(f) \subseteq Found(f) /\ Found(f) \subseteq 1 .. Len(es)
  BY <1>1, <1>2 DEF TweetFiles, Found, Resembles, Readable
<1>4. /\ Min(TweetFiles(f)) \in TweetFiles(f) /\ \A k \in TweetFiles(f) : Min(TweetFiles(f)) <= k
      /\ Min(Found(f)) \in Found(f) /\ \A k \in Found(f) : Min(Found(f)) <= k
  <2>1. TweetFiles(f) \subseteq Nat /\ Found(f) \subseteq Nat /\ Found(f) # {}
    BY <1>2, <1>3
  <2> QED BY <1>3, <2>1, LeastIsMin
<1>5. CASE f.kind = "script"
  <2>1. Min(TweetFiles(f)) = 1
    BY <1>1, <1>2, <1>3, <1>4, <1>5
  <2> QED BY <1>1, <1>2, <1>3, <1>4, <1>5, <2>1 DEF ParseArchive, parseDirectJSFile, Meant
<1>6. CASE f.kind # "script"
  <2>1. Min(TweetFiles(f)) = Min(Found(f))
    <3>1. Min(Found(f)) \in TweetFiles(f)
      BY DEF FirstIsMeant
    <3>2. PICK i \in 1 .. Len(es) : i = Min(Found(f))
      BY <1>3, <1>4
    <3>3. PICK j \in 1 .. Len(es) : j = Min(TweetFiles(f))
      BY <1>3, <1>4
    <3>4. i <= j /\ j <= i
      BY <1>3, <1>4, <3>1, <3>2, <3>3
    <3>5. i = j
      BY <1>2, <3>4
    <3> QED BY <3>2, <3>3, <3>5
  <2>2. ParseArchive(f) = parseJSContent(f.entries[Min(Found(f))].archive)
    BY <1>3, <1>6 DEF ParseArchive, parseZIPArchive, Readable
  <2> QED BY <1>1, <1>2, <1>3, <1>4, <2>1, <2>2 DEF Meant
<1> QED BY <1>5, <1>6

-----------------------------------------------------------------------------
(* The tweets of a job *)

\* A job has tweets only once it is parsed, and then those ParseArchive found in
\* the file as it was sent: a job exists only once its upload is answered, and
\* the final file is whole by then.
ExtractInv ==
    \A u \in Upload :
       /\ job[u].status # "none" => handler[u] = "answered"
       /\ job[u].status # "parsed" => job[u].tweets = <<>>
       /\ job[u].status = "parsed" => /\ ParseArchive(request[u].file).ok
                                      /\ job[u].tweets = ParseArchive(request[u].file).tweets
       /\ job[u].status = "failed" => faults > 0 \/ ~ParseArchive(request[u].file).ok

\* No job exists before the first request.
LEMMA ExtractInit == INInit => ExtractInv
BY DEF INInit, ExtractInv, NoJob

\* Every step keeps it: ParseJob reads a whole file and counts a failed call.
LEMMA ExtractStep ==
    ASSUME AccountInv, ExtractInv, [INNext]_inVars PROVE ExtractInv'
<1>1. /\ StoreInv /\ ShapeInv /\ faults \in Nat
      /\ \A u \in Upload : handler[u] = "answered" => final[u] = "whole"
  BY BoundAssumption DEF AccountInv, CountInv, StoreInv
<1>2. ASSUME NEW ok \in BOOLEAN, FileCall(ok)
      PROVE  faults' \in Nat /\ (faults > 0 \/ ~ok => faults' > 0)
  BY <1>1, <1>2 DEF FileCall
<1> USE DEF Goto
<1>3. CASE Crash
  <2>1. /\ UNCHANGED <<request, faults>>
        /\ \A u \in Upload : handler[u] = "answered" => handler'[u] = "answered"
        /\ \A u \in Upload : \/ job'[u] = job[u]
                             \/ /\ job[u].status = "queued" /\ job'[u].status = "lost"
                                /\ job'[u].tweets = job[u].tweets
    BY <1>1, <1>3 DEF Crash, InSave, ShapeInv
  <2> QED BY <2>1 DEF ExtractInv
<1>4. ASSUME NEW u \in Upload, Enqueue(u) PROVE ExtractInv'
  <2>1. /\ UNCHANGED <<request, faults>> /\ handler' = [handler EXCEPT ![u] = "answered"]
        /\ job'[u].status = "queued" /\ job'[u].tweets = <<>>
        /\ \A v \in Upload \ {u} : job'[v] = job[v]
    BY <1>1, <1>4 DEF Enqueue, ShapeInv
  <2>2. \A v \in Upload : handler[v] = "answered" => handler'[v] = "answered"
    BY <1>1, <2>1 DEF StoreInv
  <2>3. handler'[u] = "answered"
    BY <1>1, <2>1 DEF StoreInv
  <2> QED BY <2>1, <2>2, <2>3 DEF ExtractInv
<1>5. ASSUME NEW u \in Upload, NEW ok \in BOOLEAN, ParseJob(u, ok) PROVE ExtractInv'
  <2>1. /\ UNCHANGED <<request, handler>> /\ FileCall(ok)
        /\ job[u].status = "queued" /\ handler[u] = "answered" /\ job[u].tweets = <<>>
    BY <1>5 DEF ParseJob, ExtractInv
  <2>2. Contents(u) = ParseArchive(request[u].file)
    BY <1>1, <2>1 DEF Contents
  <2>3. \A v \in Upload \ {u} : job'[v] = job[v]
    <3>1. CASE ok /\ Contents(u).ok
      <4>1. job' = [job EXCEPT ![u] = [job[u] EXCEPT !.status = "parsed",
                                                     !.tweets = Contents(u).tweets]]
        BY <1>5, <3>1 DEF ParseJob
      <4> QED BY <1>1, <4>1 DEF ShapeInv
    <3>2. CASE ~ (ok /\ Contents(u).ok)
      BY <1>1, <1>5, <3>2 DEF ParseJob, ShapeInv
    <3> QED BY <3>1, <3>2
  <2>4. ok /\ Contents(u).ok =>
           job'[u].status = "parsed" /\ job'[u].tweets = ParseArchive(request[u].file).tweets
    <3>1. ASSUME ok /\ Contents(u).ok
          PROVE  job' = [job EXCEPT ![u] = [job[u] EXCEPT !.status = "parsed",
                                                          !.tweets = Contents(u).tweets]]
      BY <1>5, <3>1 DEF ParseJob
    <3>2. ASSUME ok /\ Contents(u).ok
          PROVE  job'[u] = [job[u] EXCEPT !.status = "parsed", !.tweets = Contents(u).tweets]
      BY <1>1, <3>1, <3>2 DEF ShapeInv
    <3> QED BY <1>1, <2>2, <3>2 DEF ShapeInv
  <2>5. ~ (ok /\ Contents(u).ok) => job'[u].status = "failed" /\ job'[u].tweets = <<>>
    BY <1>1, <1>5, <2>1 DEF ParseJob, ShapeInv
  <2>6. faults' \in Nat /\ (faults > 0 \/ ~ok => faults' > 0)
    BY <1>2, <2>1
  <2>7. /\ job'[u].status = "parsed" \/ job'[u].status = "failed"
        /\ job'[u].status = "parsed" => /\ ParseArchive(request[u].file).ok
                                        /\ job'[u].tweets = ParseArchive(request[u].file).tweets
        /\ job'[u].status = "failed" => /\ job'[u].tweets = <<>>
                                        /\ faults' > 0 \/ ~ParseArchive(request[u].file).ok
    BY <2>2, <2>4, <2>5, <2>6
  <2> QED BY <2>1, <2>3, <2>6, <2>7 DEF ExtractInv
<1>6. ASSUME NEW u \in Upload,
             Refuse(u) \/ (\E ok \in BOOLEAN : CreateTemp(u, ok) \/ Copy(u, ok) \/ Rename(u, ok))
      PROVE  ExtractInv'
  <2>1. /\ UNCHANGED <<request, job>>
        /\ \A v \in Upload : handler[v] = "answered" => handler'[v] = "answered"
    BY <1>1, <1>6 DEF Refuse, CreateTemp, Copy, Rename, StoreInv
  <2>2. faults' \in Nat /\ (faults > 0 => faults' > 0)
    BY <1>1, <1>2, <1>6 DEF Refuse, CreateTemp, Copy, Rename
  <2> QED BY <2>1, <2>2 DEF ExtractInv
<1>7. CASE UNCHANGED inVars
  BY <1>7 DEF inVars, ExtractInv
<1> QED BY <1>3, <1>4, <1>5, <1>6, <1>7 DEF INNext

\* What ParseArchive returns is what was asked for.
LEMMA ExtractExact == AccountInv /\ ExtractInv => ExtractionExact
<1> SUFFICES ASSUME AccountInv, ExtractInv, NEW u \in Upload,
                    Readable(request[u].file), FirstIsMeant(request[u].file),
                    job[u].status \in {"parsed", "failed"}
             PROVE  IF Misread(Meant(request[u].file)) THEN job[u].tweets = <<>>
                    ELSE IF job[u].status = "parsed"
                         THEN AllOriginals(job[u].tweets, Meant(request[u].file))
                         ELSE faults > 0
  BY DEF ExtractionExact
<1>1. PICK f : f = request[u].file
  OBVIOUS
<1>2. PICK a : a = Meant(f)
  OBVIOUS
<1>3. /\ f.entries \in Seq(ToSet(f.entries))
      /\ f.kind = "script" => Len(f.entries) <= 1
      /\ \A k \in DOMAIN f.entries : IsArchive(f.entries[k].archive)
  BY <1>1, RequestAssumption DEF AccountInv, ShapeInv
<1>4. ParseArchive(f) = parseJSContent(a) /\ IsArchive(a)
  <2>1. Readable(f) /\ FirstIsMeant(f)
    BY <1>1
  <2>2. ParseArchive(f) = parseJSContent(Meant(f)) /\ Min(TweetFiles(f)) \in DOMAIN f.entries
    BY <1>3, <2>1, MeantFound
  <2>3. IsArchive(f.entries[Min(TweetFiles(f))].archive)
    BY <1>3, <2>2
  <2> QED BY <1>2, <2>2, <2>3 DEF Meant
<1>5. /\ Misread(a) => ParseArchive(f).tweets = <<>>
      /\ ~Misread(a) => /\ ParseArchive(f).ok
                        /\ AllOriginals(ParseArchive(f).tweets, a)
  <2>1. /\ Misread(a) => parseJSContent(a).tweets = <<>>
        /\ ~Misread(a) => parseJSContent(a) = Success(Originals(a.tweets))
    BY <1>4, ContentExtracted
  <2>2. AllOriginals(Originals(a.tweets), a)
    BY <1>4, OriginalsExact
  <2> QED BY <1>4, <2>1, <2>2 DEF Success
<1>6. /\ job[u].status = "parsed" => ParseArchive(f).ok /\ job[u].tweets = ParseArchive(f).tweets
      /\ job[u].status = "failed" => /\ job[u].tweets = <<>>
                                     /\ faults > 0 \/ ~ParseArchive(f).ok
  BY <1>1 DEF ExtractInv
<1> QED BY <1>1, <1>2, <1>5, <1>6

\* It holds in every state.
LEMMA ExtractInvariant == INSpec => [](AccountInv /\ ExtractInv)
<1>1. AccountInv /\ ExtractInv /\ [INNext]_inVars => AccountInv' /\ ExtractInv'
  BY StoreStep, ShapeStep, FilesStep, CountStep, ExtractStep DEF AccountInv
<1> QED BY AccountInit, ExtractInit, <1>1, PTL DEF INSpec

\* Upload, localStore and parseAndSaveTweets: whatever the archives, failed
\* calls and crashes, a job's tweets are exactly the archive's that are no
\* retweets, in order and with their texts, or the array is misread and the job
\* has none; a readable archive that is not misread fails only with a call.
THEOREM TweetsExtracted == INSpec => []ExtractionExact
BY ExtractInvariant, ExtractExact, PTL
=============================================================================
