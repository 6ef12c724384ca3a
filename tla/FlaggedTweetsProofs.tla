------------------------ MODULE FlaggedTweetsProofs ------------------------
(***************************************************************************)
(* The pages of flagged tweets, for any jobs, page sizes and rows, while   *)
(* the worker inserts: what a walk through them shows, and how long a      *)
(* write that meets a locked database is tried.                            *)
(***************************************************************************)
EXTENDS FlaggedTweets, FiniteSetTheorems, TLAPS

Row == [job : Job, flaggedAt : 0 .. MaxSecond]

-----------------------------------------------------------------------------
(* Arithmetic of pages *)

\* A larger factor gives a larger product.
LEMMA TimesMonotonic ==
    ASSUME NEW a \in Nat, NEW b \in Nat, NEW s \in Nat, a <= b
    PROVE  a * s <= b * s
<1>1. PICK d \in Nat : b = a + d
  <2>1. b - a \in Nat /\ b = a + (b - a)
    OBVIOUS
  <2> QED BY <2>1
<1>2. b * s = a * s + d * s
  BY <1>1
<1>3. d * s \in Nat /\ a * s \in Nat
  OBVIOUS
<1> QED BY <1>2, <1>3

\* Dividing by the page size and rounding up gives the number of the last page.
LEMMA LastPage ==
    ASSUME NEW t \in Nat, NEW s \in Nat \ {0}, NEW p \in Nat
    PROVE  /\ (t + s - 1) \div s \in 0 .. t
           /\ p < (t + s - 1) \div s => p * s < t
           /\ p >= (t + s - 1) \div s => p * s >= t
<1> DEFINE q == (t + s - 1) \div s
<1>1. q \in Nat /\ q * s <= t + s - 1 /\ t + s - 1 < q * s + s
  OBVIOUS
<1> HIDE DEF q
<1>2. p * s \in Nat /\ q * s \in Nat /\ t * s \in Nat
  BY <1>1
<1>3. ASSUME p < q PROVE p * s < t
  <2>1. (p + 1) * s <= q * s
    BY <1>1, <1>3, TimesMonotonic
  <2>2. (p + 1) * s = p * s + s
    OBVIOUS
  <2> QED BY <1>1, <1>2, <2>1, <2>2
<1>4. ASSUME p >= q PROVE p * s >= t
  <2>1. q * s <= p * s
    BY <1>1, <1>4, TimesMonotonic
  <2> QED BY <1>1, <1>2, <2>1
<1>5. q <= t
  <2> SUFFICES ASSUME q >= t + 1 PROVE FALSE
    BY <1>1
  <2>1. (t + 1) * s <= q * s
    BY <1>1, TimesMonotonic
  <2>2. (t + 1) * s = t * s + s
    OBVIOUS
  <2>3. t * 1 <= t * s
    BY TimesMonotonic
  <2> QED BY <1>1, <1>2, <2>1, <2>2, <2>3
<1> QED BY <1>1, <1>3, <1>4, <1>5 DEF q

-----------------------------------------------------------------------------
(* Ranks *)

\* A filter's rows are finitely many, at most all of them.
LEMMA MatchingFinite ==
    ASSUME rows \in Seq(Row), NEW f
    PROVE  /\ Matching(f) \subseteq 1 .. Len(rows)
           /\ IsFiniteSet(Matching(f))
           /\ Cardinality(Matching(f)) \in 0 .. Len(rows)
<1>1. Len(rows) \in Nat /\ DOMAIN rows = 1 .. Len(rows)
  OBVIOUS
<1>2. Matching(f) \subseteq 1 .. Len(rows)
  BY <1>1 DEF Matching
<1>3. IsFiniteSet(1 .. Len(rows)) /\ Cardinality(1 .. Len(rows)) = Len(rows)
  BY <1>1, FS_Interval
<1>4. /\ IsFiniteSet(Matching(f))
      /\ Cardinality(Matching(f)) <= Len(rows)
  BY <1>2, <1>3, FS_Subset
<1> QED BY <1>1, <1>2, <1>4, FS_CardinalityType

\* Rows have numbers and times that can be compared.
LEMMA MatchingTyped ==
    ASSUME rows \in Seq(Row), NEW f, NEW k \in Matching(f)
    PROVE  k \in DOMAIN rows /\ k \in Nat /\ rows[k].flaggedAt \in Nat
<1>1. k \in DOMAIN rows
  BY DEF Matching
<1>2. k \in 1 .. Len(rows) /\ Len(rows) \in Nat
  BY <1>1
<1>3. rows[k] \in Row
  BY <1>2
<1>4. rows[k].flaggedAt \in 0 .. MaxSecond
  BY <1>3 DEF Row
<1> QED BY <1>1, <1>2, <1>4, TableAssumption

\* A row's rank is below the number of rows.
LEMMA RankRange ==
    ASSUME rows \in Seq(Row), NEW f, NEW k \in Matching(f)
    PROVE  Rank(k, f) \in 0 .. Cardinality(Matching(f)) - 1
<1> DEFINE B == {l \in Matching(f) : Before(l, k)}
<1>1. IsFiniteSet(Matching(f)) /\ Cardinality(Matching(f)) \in Nat
  BY MatchingFinite, FS_CardinalityType
<1>2. k \in Nat /\ rows[k].flaggedAt \in Nat
  BY MatchingTyped
<1>3. ~Before(k, k)
  BY <1>2 DEF Before
<1>4. B \subseteq Matching(f) \ {k}
  BY <1>3
<1>5. /\ IsFiniteSet(Matching(f) \ {k})
      /\ Cardinality(Matching(f) \ {k}) = Cardinality(Matching(f)) - 1
  BY <1>1, FS_RemoveElement
<1>6. IsFiniteSet(B) /\ Cardinality(B) <= Cardinality(Matching(f)) - 1
  BY <1>4, <1>5, FS_Subset
<1>7. Cardinality(B) \in Nat
  BY <1>6, FS_CardinalityType
<1> QED BY <1>1, <1>6, <1>7 DEF Rank

\* The order is strict, so a row that comes before another has a lower rank.
LEMMA RankBelow ==
    ASSUME rows \in Seq(Row), NEW f, NEW k \in Matching(f), NEW l \in Matching(f),
           Before(k, l)
    PROVE  Rank(k, f) < Rank(l, f)
<1> DEFINE B(x) == {y \in Matching(f) : Before(y, x)}
<1>1. IsFiniteSet(B(k)) /\ IsFiniteSet(B(l))
  BY MatchingFinite, FS_Subset
<1>2. \A x \in Matching(f) : x \in Nat /\ rows[x].flaggedAt \in Nat
  BY MatchingTyped
<1>3. k \notin B(k)
  BY <1>2 DEF Before
<1>4. \A x \in Matching(f) : Before(x, k) => Before(x, l)
  BY <1>2 DEF Before
<1>5. B(k) \cup {k} \subseteq B(l)
  BY <1>4
<1>6. IsFiniteSet(B(k) \cup {k}) /\ Cardinality(B(k) \cup {k}) = Cardinality(B(k)) + 1
  BY <1>1, <1>3, FS_AddElement
<1>7. Cardinality(B(k) \cup {k}) <= Cardinality(B(l))
  BY <1>1, <1>5, FS_Subset
<1>8. Cardinality(B(k)) \in Nat /\ Cardinality(B(l)) \in Nat
  BY <1>1, FS_CardinalityType
<1>9. Rank(k, f) = Cardinality(B(k)) /\ Rank(l, f) = Cardinality(B(l))
  BY DEF Rank
<1> HIDE DEF B
<1> QED BY <1>6, <1>7, <1>8, <1>9

\* Two rows have different ranks.
LEMMA RanksDiffer ==
    ASSUME rows \in Seq(Row), NEW f, NEW k \in Matching(f), NEW l \in Matching(f), k # l
    PROVE  Rank(k, f) # Rank(l, f)
<1>1. \A x \in Matching(f) : x \in Nat /\ rows[x].flaggedAt \in Nat
  BY MatchingTyped
<1>2. Before(k, l) \/ Before(l, k)
  BY <1>1 DEF Before
<1>3. Rank(k, f) \in Int /\ Rank(l, f) \in Int
  BY RankRange
<1> QED BY <1>2, <1>3, RankBelow

\* So there are no more rows than ranks.
LEMMA RanksCount ==
    ASSUME rows \in Seq(Row), NEW f, NEW S \in SUBSET Matching(f),
           NEW a \in Int, NEW b \in Int, a <= b,
           \A k \in S : a <= Rank(k, f) /\ Rank(k, f) < b
    PROVE  IsFiniteSet(S) /\ Cardinality(S) \in Nat /\ Cardinality(S) <= b - a
<1> DEFINE g == [k \in S |-> Rank(k, f)]
<1>1. g \in Injection(S, a .. b - 1)
  <2>1. g \in [S -> a .. b - 1]
    <3>1. \A k \in S : Rank(k, f) \in Int
      BY RankRange
    <3> QED BY <3>1
  <2>2. ASSUME NEW k \in S, NEW l \in S, g[k] = g[l] PROVE k = l
    BY <2>2, RanksDiffer
  <2> HIDE DEF g
  <2> QED BY <2>1, <2>2 DEF Injection, IsInjective
<1>2. IsFiniteSet(a .. b - 1) /\ Cardinality(a .. b - 1) = b - a
  <2>1. b - 1 \in Int
    OBVIOUS
  <2>2. /\ IsFiniteSet(a .. b - 1)
        /\ Cardinality(a .. b - 1) = IF a > b - 1 THEN 0 ELSE b - 1 - a + 1
    BY <2>1, FS_Interval
  <2> QED BY <2>2
<1> HIDE DEF g
<1>3. IsFiniteSet(S) /\ Cardinality(S) <= b - a
  BY <1>1, <1>2, FS_Injection
<1> QED BY <1>3, FS_CardinalityType

\* A row that is inserted only moves others to later pages.
LEMMA InsertRaises ==
    ASSUME rows \in Seq(Row), NEW r \in Row, rows' = Append(rows, r), NEW CONSTANT f
    PROVE  /\ rows' \in Seq(Row) /\ Len(rows') = Len(rows) + 1
           /\ Matching(f) \subseteq Matching(f)'
           /\ Cardinality(Matching(f)) \in Nat /\ Cardinality(Matching(f)') \in Nat
           /\ Cardinality(Matching(f)) <= Cardinality(Matching(f)')
           /\ \A k \in Matching(f) :
                 Rank(k, f) \in Nat /\ Rank(k, f)' \in Nat /\ Rank(k, f) <= Rank(k, f)'
<1>1. /\ rows' \in Seq(Row) /\ Len(rows') = Len(rows) + 1
      /\ \A k \in 1 .. Len(rows) : rows'[k] = rows[k]
  OBVIOUS
<1>2. DOMAIN rows = 1 .. Len(rows) /\ DOMAIN rows' = 1 .. Len(rows) + 1 /\ Len(rows) \in Nat
  BY <1>1
<1>3. Matching(f) \subseteq Matching(f)'
  BY <1>1, <1>2 DEF Matching
<1>4. IsFiniteSet(Matching(f)')
  <2>1. Matching(f)' \subseteq 1 .. Len(rows) + 1
    BY <1>2 DEF Matching
  <2>2. IsFiniteSet(1 .. Len(rows) + 1)
    BY <1>2, FS_Interval
  <2> QED BY <2>1, <2>2, FS_Subset
<1>5. /\ Cardinality(Matching(f)) <= Cardinality(Matching(f)')
      /\ Cardinality(Matching(f)) \in Nat /\ Cardinality(Matching(f)') \in Nat
  BY <1>3, <1>4, FS_Subset, FS_CardinalityType
<1>6. ASSUME NEW k \in Matching(f)
      PROVE  Rank(k, f) \in Nat /\ Rank(k, f)' \in Nat /\ Rank(k, f) <= Rank(k, f)'
  <2> DEFINE B == {l \in Matching(f) : Before(l, k)}
             A == {l \in Matching(f)' : Before(l, k)'}
  <2>1. B \subseteq A
    BY <1>1, <1>2, <1>3 DEF Before, Matching
  <2>2. IsFiniteSet(A)
    BY <1>4, FS_Subset
  <2>3. /\ Cardinality(B) <= Cardinality(A)
        /\ Cardinality(B) \in Nat /\ Cardinality(A) \in Nat
    BY <2>1, <2>2, FS_Subset, FS_CardinalityType
  <2> QED BY <2>3 DEF Rank
<1> QED BY <1>1, <1>3, <1>5, <1>6
-----------------------------------------------------------------------------
(* The invariant *)

TableTypeOK ==
    /\ rows \in Seq(Row) /\ Len(rows) <= MaxRows
    /\ second \in 0 .. MaxSecond /\ locked \in BOOLEAN
WriterTypeOK ==
    /\ writer \in [pc : {"idle", "exec", "sleep", "gaveUp"},
                   row : [job : Job \cup {All}, flaggedAt : 0 .. MaxSecond],
                   attempt : 0 .. maxRetries - 1, backoff : Nat, timer : Nat]
    /\ elapsed \in Nat
    /\ writer.pc \in {"exec", "sleep"} => Len(rows) < MaxRows /\ writer.row \in Row
ReaderTypeOK ==
    /\ reader \in [pc : {"idle", "list", "count", "over"}, filter : Job \cup {All},
                   size : Nat \ {0}, page : 1 .. MaxRows + 1, list : SUBSET Nat]
    /\ walk \in [atStart : SUBSET Nat, seen : SUBSET Nat, shown : Nat]

\* How long the write has waited so far: the pauses add up to the next one
\* less one tick, and every attempt but the current one used up its timeout.
Waited ==
    /\ writer.pc \in {"exec", "sleep"} =>
          <<writer.attempt, writer.backoff>> \in {<<0, 1>>, <<1, 2>>, <<2, 4>>, <<3, 8>>, <<4, 16>>}
    /\ writer.pc = "exec" =>
          elapsed >= writer.backoff - 1 + writer.attempt * busyTimeout + writer.timer
    /\ writer.pc = "sleep" =>
          elapsed >= writer.backoff - 1 + writer.attempt * busyTimeout - writer.timer
    /\ GivesUpLate

\* A walk has seen every older row that is ranked before the page it is at.
\* A row that is inserted only raises ranks, so no older row slips through.
Total == Cardinality(Matching(reader.filter))
Covered(n, shown) ==
    \A k \in walk.atStart : Rank(k, reader.filter) < n => k \in shown
Progress ==
    /\ walk.atStart \subseteq Matching(reader.filter)
    /\ walk.seen \subseteq Matching(reader.filter)
    /\ reader.list \subseteq Matching(reader.filter)
    /\ reader.pc \in {"list", "count"} => offset <= Total /\ walk.shown <= offset
    /\ reader.pc = "list" => Covered(offset, walk.seen)
    /\ reader.pc = "count" =>
          /\ Cardinality(reader.list) <= reader.size
          /\ Cardinality(reader.list) <= Total - offset
          /\ Covered(offset + reader.size, walk.seen \cup reader.list)

WalkInv == Progress /\ WalkComplete /\ RepeatsBounded
PagesInv == TableTypeOK /\ WriterTypeOK /\ ReaderTypeOK /\ Waited /\ WalkInv

-----------------------------------------------------------------------------
(* The walk *)

\* Steps that leave table, client and walk alone.
LEMMA WalkUntouched ==
    ASSUME WalkInv, UNCHANGED <<rows, reader, walk>> PROVE WalkInv'
BY DEF WalkInv, Progress, WalkComplete, RepeatsBounded, Covered, Total, Matching, Rank,
       Before, offset

\* The page's number of rows to skip, as a number.
LEMMA OffsetTyped ==
    ASSUME ReaderTypeOK
    PROVE  /\ reader.page \in Nat \ {0} /\ reader.size \in Nat \ {0}
           /\ offset \in Nat /\ offset + reader.size = reader.page * reader.size
<1>1. reader.page \in Nat \ {0} /\ reader.size \in Nat \ {0}
  BY TableAssumption DEF ReaderTypeOK
<1>2. \A p, s \in Nat \ {0} : (p - 1) * s \in Nat /\ (p - 1) * s + s = p * s
  OBVIOUS
<1> QED BY <1>1, <1>2 DEF offset

\* Numbers of rows of the client's filter.
LEMMA TotalTyped ==
    ASSUME TableTypeOK
    PROVE  /\ IsFiniteSet(Matching(reader.filter))
           /\ Total \in 0 .. Len(rows) /\ Len(rows) \in Nat
BY MatchingFinite DEF TableTypeOK, Total

\* The worker inserts a row while a client walks.
LEMMA InsertedWalk ==
    ASSUME PagesInv, Inserted PROVE WalkInv'
<1>1. PICK f : f = reader.filter
  OBVIOUS
<1>2. rows' = Append(rows, writer.row) /\ writer.row \in Row /\ UNCHANGED <<reader, walk>>
  BY DEF Inserted, PagesInv, WriterTypeOK
<1>3. /\ Matching(f) \subseteq Matching(f)'
      /\ Cardinality(Matching(f)) \in Nat /\ Cardinality(Matching(f)') \in Nat
      /\ Cardinality(Matching(f)) <= Cardinality(Matching(f)')
      /\ \A k \in Matching(f) :
            Rank(k, f) \in Nat /\ Rank(k, f)' \in Nat /\ Rank(k, f) <= Rank(k, f)'
  BY <1>2, InsertRaises DEF PagesInv, TableTypeOK
<1>4. /\ Matching(reader.filter) = Matching(f) /\ Matching(reader.filter)' = Matching(f)'
      /\ Total = Cardinality(Matching(f)) /\ Total' = Cardinality(Matching(f)')
  BY <1>1, <1>2 DEF Matching, Total
<1>5. \A k : Rank(k, reader.filter) = Rank(k, f) /\ Rank(k, reader.filter)' = Rank(k, f)'
  BY <1>1, <1>2 DEF Rank, Matching, Before
<1>6. offset' = offset /\ offset \in Nat /\ reader.size \in Nat \ {0} /\ offset + reader.size \in Nat
  BY <1>2, OffsetTyped DEF offset, PagesInv
<1>7. ASSUME NEW n \in Nat, NEW shown, Covered(n, shown), Progress
      PROVE  \A k \in walk'.atStart : Rank(k, reader.filter)' < n => k \in shown
  <2> SUFFICES ASSUME NEW k \in walk.atStart, Rank(k, f)' < n PROVE k \in shown
    BY <1>2, <1>5
  <2>1. k \in Matching(f)
    BY <1>4, <1>7 DEF Progress
  <2>2. Rank(k, f) < n
    BY <1>3, <2>1
  <2> QED BY <1>5, <1>7, <2>2 DEF Covered
<1>8. Progress'
  <2>1. Progress
    BY DEF PagesInv, WalkInv
  <2>2. reader.pc \in {"list", "count"} => offset <= Total' /\ walk.shown <= offset
    BY <1>3, <1>4, <1>6, <2>1 DEF Progress
  <2>3. reader.pc = "list" => Covered(offset, walk.seen)'
    BY <1>2, <1>6, <1>7, <2>1 DEF Progress, Covered
  <2>4. reader.pc = "count" =>
           /\ Cardinality(reader.list) <= reader.size
           /\ Cardinality(reader.list) <= Total' - offset
           /\ Covered(offset + reader.size, walk.seen \cup reader.list)'
    <3> SUFFICES ASSUME reader.pc = "count"
                 PROVE  /\ Cardinality(reader.list) <= reader.size
                        /\ Cardinality(reader.list) <= Total' - offset
                        /\ Covered(offset + reader.size, walk.seen \cup reader.list)'
      OBVIOUS
    <3>1. /\ Cardinality(reader.list) <= reader.size
          /\ Cardinality(reader.list) <= Total - offset
          /\ Covered(offset + reader.size, walk.seen \cup reader.list)
      BY <2>1 DEF Progress
    <3>2. reader.list \subseteq Matching(f)
      BY <1>4, <2>1 DEF Progress
    <3>3. IsFiniteSet(Matching(f))
      BY MatchingFinite DEF PagesInv, TableTypeOK
    <3>4. Cardinality(reader.list) \in Nat
      BY <3>2, <3>3, FS_Subset, FS_CardinalityType
    <3>5. Cardinality(reader.list) <= Total' - offset
      BY <1>3, <1>4, <1>6, <3>1, <3>4
    <3>6. Covered(offset + reader.size, walk.seen \cup reader.list)'
      BY <1>2, <1>6, <1>7, <2>1, <3>1 DEF Covered
    <3> QED BY <3>1, <3>5, <3>6
  <2> QED BY <1>2, <1>3, <1>4, <1>6, <2>1, <2>2, <2>3, <2>4 DEF Progress
<1>9. WalkComplete' /\ RepeatsBounded'
  <2>1. WalkComplete /\ RepeatsBounded
    BY DEF PagesInv, WalkInv
  <2>2. walk.atStart \subseteq Matching(f) /\ walk.seen \subseteq Matching(f)
    BY <1>4 DEF PagesInv, WalkInv, Progress
  <2>3. Cardinality(walk.atStart) \in Nat /\ Cardinality(walk.seen) \in Nat /\ walk.shown \in Nat
    <3>1. IsFiniteSet(Matching(f))
      BY MatchingFinite DEF PagesInv, TableTypeOK
    <3>2. IsFiniteSet(walk.atStart) /\ IsFiniteSet(walk.seen)
      BY <2>2, <3>1, FS_Subset
    <3> QED BY <3>2, FS_CardinalityType DEF PagesInv, ReaderTypeOK
  <2>4. RepeatsBounded'
    BY <1>2, <1>3, <1>4, <2>1, <2>3 DEF RepeatsBounded
  <2> QED BY <1>2, <2>1, <2>4 DEF WalkComplete
<1> QED BY <1>8, <1>9 DEF WalkInv
\* A page has the rows of its ranks: no more than its size, nor than are left.
LEMMA PageCounted ==
    ASSUME TableTypeOK, ReaderTypeOK, offset <= Total
    PROVE  /\ Page \subseteq Matching(reader.filter)
           /\ Cardinality(Page) <= reader.size
           /\ Cardinality(Page) <= Total - offset
<1>1. Page \in SUBSET Matching(reader.filter)
  BY DEF Page
<1>2. rows \in Seq(Row) /\ offset \in Nat /\ reader.size \in Nat \ {0} /\ Total \in Nat
  BY OffsetTyped, TotalTyped DEF TableTypeOK
<1>3. \A k \in Page : /\ offset <= Rank(k, reader.filter)
                     /\ Rank(k, reader.filter) < offset + reader.size
                     /\ Rank(k, reader.filter) < Total
  BY <1>1, <1>2, RankRange DEF Page, Total
<1>4. Cardinality(Page) <= reader.size
  <2>1. offset + reader.size \in Int /\ offset <= offset + reader.size
    BY <1>2
  <2>2. \A k \in Page : /\ offset <= Rank(k, reader.filter)
                       /\ Rank(k, reader.filter) < offset + reader.size
    BY <1>3
  <2>3. offset \in Int
    BY <1>2
  <2>4. Cardinality(Page) \in Nat /\ Cardinality(Page) <= (offset + reader.size) - offset
    BY <1>1, <1>2, <2>1, <2>2, <2>3, RanksCount, Zenon
  <2> QED BY <1>2, <2>4
<1>5. Cardinality(Page) <= Total - offset
  <2>1. \A k \in Page : offset <= Rank(k, reader.filter) /\ Rank(k, reader.filter) < Total
    BY <1>3
  <2>2. offset \in Int /\ Total \in Int
    BY <1>2
  <2> QED BY <1>1, <1>2, <2>2, <2>1, RanksCount, Zenon
<1> QED BY <1>1, <1>4, <1>5

\* The first query shows the rows of the page's ranks.
LEMMA ListWalk ==
    ASSUME PagesInv, ListFlaggedTweets PROVE WalkInv'
<1>1. /\ TableTypeOK /\ ReaderTypeOK /\ Progress
      /\ reader.pc = "list" /\ offset <= Total
  BY DEF PagesInv, WalkInv, Progress, ListFlaggedTweets
<1>2. /\ reader'.pc = "count" /\ reader'.list = Page
      /\ reader'.filter = reader.filter /\ reader'.size = reader.size
      /\ reader'.page = reader.page
      /\ UNCHANGED <<rows, walk>>
  BY <1>1 DEF ListFlaggedTweets, ReaderTypeOK
<1>3. /\ Matching(reader.filter)' = Matching(reader.filter) /\ Total' = Total
      /\ offset' = offset
      /\ \A k : Rank(k, reader.filter)' = Rank(k, reader.filter)
  BY <1>2 DEF Matching, Total, Rank, Before, offset
<1>4. Covered(offset + reader.size, walk.seen \cup Page)
  <2> SUFFICES ASSUME NEW k \in walk.atStart, Rank(k, reader.filter) < offset + reader.size
               PROVE  k \in walk.seen \cup Page
    BY DEF Covered
  <2>1. k \in Matching(reader.filter) /\ Rank(k, reader.filter) \in Nat
    BY <1>1, RankRange DEF Progress, TableTypeOK
  <2>2. CASE Rank(k, reader.filter) < offset
    BY <1>1, <2>2 DEF Progress, Covered
  <2>3. CASE Rank(k, reader.filter) >= offset
    BY <1>1, <2>1, <2>3, OffsetTyped DEF Page
  <2> QED BY <1>1, <2>1, <2>2, <2>3, OffsetTyped
<1>5. Covered(offset + reader.size, walk.seen \cup reader.list)'
  BY <1>2, <1>3, <1>4 DEF Covered
<1>6. Progress'
  BY <1>1, <1>2, <1>3, <1>5, PageCounted DEF Progress
<1>7. WalkComplete' /\ RepeatsBounded'
  BY <1>2, <1>3 DEF PagesInv, WalkInv, WalkComplete, RepeatsBounded
<1> QED BY <1>6, <1>7 DEF WalkInv

\* The request ends with 500; the walk keeps what it has seen.
LEMMA QueryFailsWalk ==
    ASSUME PagesInv, QueryFails PROVE WalkInv'
<1>1. /\ reader'.pc = "idle" /\ reader'.list = {}
      /\ reader'.filter = reader.filter
      /\ UNCHANGED <<rows, walk>>
  BY DEF QueryFails, PagesInv, ReaderTypeOK
<1>2. Matching(reader.filter)' = Matching(reader.filter)
  BY <1>1 DEF Matching
<1> QED BY <1>1, <1>2 DEF PagesInv, WalkInv, Progress, WalkComplete, RepeatsBounded

\* A client begins: nothing is ranked before the first page.
LEMMA WalkWalk ==
    ASSUME PagesInv, NEW filter \in Job \cup {All}, NEW size \in PageSize, Walk(filter, size)
    PROVE  WalkInv'
<1>1. /\ reader' = [pc |-> "list", filter |-> filter, size |-> size, page |-> 1, list |-> {}]
      /\ walk' = [atStart |-> Matching(filter), seen |-> {}, shown |-> 0]
      /\ UNCHANGED rows
  BY DEF Walk
<1>2. Matching(reader.filter)' = Matching(filter)
  BY <1>1 DEF Matching
<1>3. IsFiniteSet(Matching(filter)) /\ Cardinality(Matching(filter)) \in Nat /\ size \in Nat
  BY MatchingFinite, FS_CardinalityType, TableAssumption DEF PagesInv, TableTypeOK
<1>4. offset' = 0 /\ Total' = Cardinality(Matching(filter))
  BY <1>1, <1>2, <1>3 DEF offset, Total
<1>5. Covered(offset, walk.seen)'
  <2> SUFFICES ASSUME NEW k \in Matching(filter)
               PROVE  ~ (Rank(k, reader.filter)' < 0)
    BY <1>1, <1>4 DEF Covered
  <2>1. Rank(k, filter) \in Nat
    BY RankRange DEF PagesInv, TableTypeOK
  <2>2. Rank(k, reader.filter)' = Rank(k, filter)
    BY <1>1 DEF Rank, Matching, Before
  <2> QED BY <2>1, <2>2
<1>6. Progress'
  BY <1>1, <1>2, <1>3, <1>4, <1>5 DEF Progress
<1>7. WalkComplete' /\ RepeatsBounded'
  BY <1>1, <1>2, <1>3, FS_EmptySet DEF WalkComplete, RepeatsBounded
<1> QED BY <1>6, <1>7 DEF WalkInv

\* The second query ends the page, and the walk if it was the last one.
LEMMA CountWalk ==
    ASSUME PagesInv, CountFlaggedTweets PROVE WalkInv'
<1> DEFINE seen == walk.seen \cup reader.list
           next == offset + reader.size
<1>1. /\ TableTypeOK /\ ReaderTypeOK /\ Progress
      /\ reader.pc = "count" /\ offset <= Total /\ walk.shown <= offset
      /\ Cardinality(reader.list) <= reader.size
      /\ Cardinality(reader.list) <= Total - offset
      /\ Covered(next, seen)
  BY DEF PagesInv, WalkInv, Progress, CountFlaggedTweets
<1>2. /\ walk'.atStart = walk.atStart /\ walk'.seen = seen
      /\ walk'.shown = walk.shown + Cardinality(reader.list)
      /\ reader'.filter = reader.filter /\ reader'.size = reader.size /\ reader'.list = {}
      /\ UNCHANGED rows
      /\ \/ /\ reader.page < totalPages(Total)
            /\ reader'.pc = "list" /\ reader'.page = reader.page + 1
         \/ /\ ~ (reader.page < totalPages(Total))
            /\ reader'.pc = "over"
  BY <1>1 DEF CountFlaggedTweets, ReaderTypeOK, Total
<1>3. /\ Matching(reader.filter)' = Matching(reader.filter) /\ Total' = Total
      /\ \A k : Rank(k, reader.filter)' = Rank(k, reader.filter)
  BY <1>2 DEF Matching, Total, Rank, Before
<1>4. /\ reader.page \in Nat \ {0} /\ reader.size \in Nat \ {0} /\ offset \in Nat
      /\ next = reader.page * reader.size /\ next \in Nat /\ Total \in Nat
      /\ walk.shown \in Nat
  BY <1>1, OffsetTyped, TotalTyped DEF ReaderTypeOK
<1>5. /\ walk.atStart \subseteq Matching(reader.filter)
      /\ seen \subseteq Matching(reader.filter)
      /\ IsFiniteSet(walk.atStart) /\ IsFiniteSet(seen) /\ IsFiniteSet(reader.list)
      /\ Cardinality(walk.atStart) \in Nat /\ Cardinality(seen) \in Nat
      /\ Cardinality(reader.list) \in Nat
  <2>1. walk.atStart \subseteq Matching(reader.filter) /\ seen \subseteq Matching(reader.filter)
        /\ reader.list \subseteq Matching(reader.filter)
    BY <1>1 DEF Progress
  <2>2. IsFiniteSet(walk.atStart) /\ IsFiniteSet(seen) /\ IsFiniteSet(reader.list)
    BY <1>1, <2>1, TotalTyped, FS_Subset
  <2> QED BY <2>1, <2>2, FS_CardinalityType
<1> HIDE DEF seen, next
<1>6. CASE reader.page < totalPages(Total)
  <2>1. next < Total
    BY <1>4, <1>6, LastPage DEF totalPages
  <2>2. reader'.pc = "list" /\ offset' = next
    <3>1. reader'.page = reader.page + 1 /\ reader'.pc = "list"
      BY <1>2, <1>6
    <3>2. reader'.page - 1 = reader.page
      BY <1>4, <3>1
    <3> QED BY <1>2, <1>4, <3>1, <3>2 DEF offset
  <2>3. walk'.shown <= next
    BY <1>1, <1>2, <1>4, <1>5 DEF next
  <2>4. Covered(offset, walk.seen)'
    BY <1>1, <1>2, <1>3, <2>2 DEF Covered
  <2>5. Progress'
    BY <1>2, <1>3, <1>4, <1>5, <2>1, <2>2, <2>3, <2>4 DEF Progress
  <2>6. RepeatsBounded'
    <3> DEFINE left == walk.atStart \ seen
    <3>1. \A k \in left : next <= Rank(k, reader.filter) /\ Rank(k, reader.filter) < Total
      BY <1>1, <1>4, <1>5, RankRange DEF Covered, TableTypeOK, Total
    <3>2. left \in SUBSET Matching(reader.filter)
      BY <1>5
    <3>3. Cardinality(left) <= Total - next /\ Cardinality(left) \in Nat
      <4>1. rows \in Seq(Row) /\ next \in Int /\ Total \in Int /\ next <= Total
        BY <1>1, <1>4, <2>1 DEF TableTypeOK
      <4> HIDE DEF left
      <4> QED BY <3>1, <3>2, <4>1, RanksCount, Zenon
    <3>4. Cardinality(left) = Cardinality(walk.atStart) - Cardinality(walk.atStart \cap seen)
      BY <1>5, FS_Difference
    <3>5. Cardinality(walk.atStart \cap seen) <= Cardinality(seen)
          /\ Cardinality(walk.atStart \cap seen) \in Nat
      BY <1>5, FS_Subset, FS_CardinalityType
    <3>6. Cardinality(walk.atStart) <= Cardinality(seen) + Total - next
      BY <1>4, <1>5, <3>3, <3>4, <3>5
    <3>7. walk'.shown - Cardinality(seen) <= Total - Cardinality(walk.atStart)
      BY <1>2, <1>4, <1>5, <2>3, <3>6
    <3> QED BY <1>2, <1>3, <3>7 DEF RepeatsBounded, Total
  <2> QED BY <2>2, <2>5, <2>6 DEF WalkInv, WalkComplete
<1>7. CASE ~ (reader.page < totalPages(Total))
  <2>1. next >= Total
    <3>1. totalPages(Total) \in Nat
      BY <1>4, LastPage DEF totalPages
    <3>2. reader.page >= totalPages(Total)
      BY <1>4, <1>7, <3>1
    <3> QED BY <1>4, <3>2, LastPage DEF totalPages
  <2>2. reader'.pc = "over"
    BY <1>2, <1>7
  <2>3. walk.atStart \subseteq seen
    <3> SUFFICES ASSUME NEW k \in walk.atStart PROVE k \in seen
      OBVIOUS
    <3>1. Rank(k, reader.filter) \in 0 .. Total - 1
      BY <1>1, <1>5, RankRange DEF TableTypeOK, Total
    <3> QED BY <1>1, <1>4, <2>1, <3>1 DEF Covered
  <2>4. walk'.shown <= Total
    BY <1>1, <1>2, <1>4, <1>5
  <2>5. Cardinality(walk.atStart) <= Cardinality(seen)
    BY <1>5, <2>3, FS_Subset
  <2>6. walk'.shown - Cardinality(seen) <= Total - Cardinality(walk.atStart)
    BY <1>2, <1>4, <1>5, <2>4, <2>5
  <2>7. WalkComplete' /\ RepeatsBounded'
    BY <1>2, <1>3, <2>3, <2>6 DEF WalkComplete, RepeatsBounded, Total
  <2>8. Progress'
    BY <1>2, <1>3, <1>5, <2>2 DEF Progress
  <2> QED BY <2>7, <2>8 DEF WalkInv
<1> QED BY <1>6, <1>7

-----------------------------------------------------------------------------
(* Types *)

\* The invariant holds of an empty table.
LEMMA PagesInit == FTInit => PagesInv
<1> SUFFICES ASSUME FTInit PROVE PagesInv
  OBVIOUS
<1>1. rows = <<>> /\ rows \in Seq(Row) /\ Len(rows) = 0 /\ DOMAIN rows = {}
  BY DEF FTInit
<1>2. TableTypeOK
  <2>1. second = 0 /\ locked = FALSE
    BY DEF FTInit
  <2>2. locked \in BOOLEAN
    BY <2>1
  <2>3. second \in 0 .. MaxSecond /\ Len(rows) <= MaxRows
    BY <1>1, <2>1, TableAssumption
  <2> QED BY <1>1, <2>2, <2>3 DEF TableTypeOK
<1>3. WriterTypeOK
  BY <1>1, TableAssumption DEF WriterTypeOK, maxRetries, FTInit
<1>4. ReaderTypeOK
  BY TableAssumption DEF ReaderTypeOK, FTInit
<1>5. Waited
  BY DEF Waited, GivesUpLate, FTInit
<1>6. /\ reader.pc = "idle" /\ reader.list = {}
      /\ walk.atStart = {} /\ walk.seen = {} /\ walk.shown = 0
      /\ Matching(reader.filter) = {}
  BY <1>1 DEF Matching, FTInit
<1>7. WalkInv
  BY <1>6, FS_EmptySet DEF WalkInv, Progress, WalkComplete, RepeatsBounded
<1> QED BY <1>2, <1>3, <1>4, <1>5, <1>7 DEF PagesInv

\* Each conjunct below, for each action.
LEMMA TableStep ==
    ASSUME PagesInv, [FTNext]_ftVars PROVE TableTypeOK'
<1> USE TableAssumption DEF TableTypeOK, PagesInv
<1>1. CASE Inserted
  <2>1. writer.row \in Row /\ Len(rows) < MaxRows /\ rows' = Append(rows, writer.row)
        /\ UNCHANGED <<second, locked>>
    BY <1>1 DEF Inserted, WriterTypeOK
  <2> QED BY <2>1
<1>2. CASE NextSecond
  BY <1>2 DEF NextSecond
<1>3. CASE Lock
  BY <1>3 DEF Lock
<1>4. CASE UNCHANGED <<rows, second, locked>>
  BY <1>4
<1> QED BY <1>1, <1>2, <1>3, <1>4
        DEF FTNext, Writer, BackOff, Retry, GiveUp, ExecFails, Reader, ListFlaggedTweets,
            CountFlaggedTweets, QueryFails, Tick, SaveFlaggedTweet, Walk, ftVars
\* The write: its attempt, its pauses and the row it carries.
LEMMA WriterStep ==
    ASSUME PagesInv, [FTNext]_ftVars PROVE WriterTypeOK'
<1> DEFINE W == [pc : {"idle", "exec", "sleep", "gaveUp"},
                 row : [job : Job \cup {All}, flaggedAt : 0 .. MaxSecond],
                 attempt : 0 .. maxRetries - 1, backoff : Nat, timer : Nat]
<1>0. /\ writer \in W /\ elapsed \in Nat
      /\ writer.pc \in {"exec", "sleep"} => Len(rows) < MaxRows /\ writer.row \in Row
      /\ writer.row \in [job : Job \cup {All}, flaggedAt : 0 .. MaxSecond]
      /\ writer.attempt \in 0 .. 4 /\ writer.backoff \in Nat /\ writer.timer \in Nat
  BY DEF PagesInv, WriterTypeOK, maxRetries
<1>1. ASSUME NEW j \in Job, SaveFlaggedTweet(j) PROVE WriterTypeOK'
  <2>1. second \in 0 .. MaxSecond /\ Len(rows) < MaxRows /\ rows' = rows /\ elapsed' = 0
    BY <1>1 DEF SaveFlaggedTweet, PagesInv, TableTypeOK
  <2>2. writer' = [pc |-> "exec", row |-> [job |-> j, flaggedAt |-> second],
                   attempt |-> 0, backoff |-> 1, timer |-> 0]
    BY <1>1 DEF SaveFlaggedTweet
  <2>3. writer'.row \in Row /\ writer' \in W
    BY <2>1, <2>2 DEF Row, maxRetries
  <2> QED BY <2>1, <2>3 DEF WriterTypeOK
<1>2. CASE Inserted
  BY <1>0, <1>2 DEF Inserted, WriterTypeOK
<1>3. CASE ExecFails
  BY <1>0, <1>3 DEF ExecFails, WriterTypeOK
<1>4. CASE GiveUp
  BY <1>0, <1>4 DEF GiveUp, WriterTypeOK
<1>5. CASE Retry
  BY <1>0, <1>5 DEF Retry, WriterTypeOK
<1>6. CASE BackOff
  <2>1. writer' = [pc |-> "sleep", row |-> writer.row, attempt |-> writer.attempt + 1,
                   backoff |-> 2 * writer.backoff, timer |-> writer.backoff]
    BY <1>0, <1>6 DEF BackOff, NextBackoff
  <2>2. writer.attempt + 1 \in 0 .. maxRetries - 1 /\ 2 * writer.backoff \in Nat
    BY <1>0, <1>6 DEF BackOff, AttemptsLeft, maxRetries
  <2>3. writer' \in W /\ writer'.row = writer.row
    BY <1>0, <2>1, <2>2
  <2> QED BY <1>0, <1>6, <2>3 DEF BackOff, SQLiteBusy, WriterTypeOK
<1>7. CASE Tick
  BY <1>0, <1>7 DEF Tick, WriterTypeOK
<1>8. CASE UNCHANGED <<rows, writer, elapsed>>
  BY <1>0, <1>8 DEF WriterTypeOK
<1> QED BY <1>1, <1>2, <1>3, <1>4, <1>5, <1>6, <1>7, <1>8
        DEF FTNext, Writer, Reader, ListFlaggedTweets, CountFlaggedTweets, QueryFails,
            Lock, NextSecond, Walk, ftVars

\* The client: no page is asked for beyond the last possible one.
LEMMA ReaderStep ==
    ASSUME PagesInv, [FTNext]_ftVars PROVE ReaderTypeOK'
<1>0. /\ reader \in [pc : {"idle", "list", "count", "over"}, filter : Job \cup {All},
                     size : Nat \ {0}, page : 1 .. MaxRows + 1, list : SUBSET Nat]
      /\ walk \in [atStart : SUBSET Nat, seen : SUBSET Nat, shown : Nat]
  BY DEF PagesInv, ReaderTypeOK
<1>1. \A f : Matching(f) \in SUBSET Nat
  BY MatchingFinite DEF PagesInv, TableTypeOK
<1>2. CASE ListFlaggedTweets
  <2>1. Page \in SUBSET Nat
    BY <1>1 DEF Page
  <2> QED BY <1>0, <1>2, <2>1 DEF ListFlaggedTweets, ReaderTypeOK
<1>3. CASE CountFlaggedTweets
  <2>1. IsFiniteSet(reader.list)
    BY TotalTyped, FS_Subset DEF PagesInv, WalkInv, Progress
  <2>2. Cardinality(reader.list) \in Nat
    BY <2>1, FS_CardinalityType
  <2>3. walk' = [atStart |-> walk.atStart, seen |-> walk.seen \cup reader.list,
                 shown |-> walk.shown + Cardinality(reader.list)]
    BY <1>0, <1>3 DEF CountFlaggedTweets
  <2>4. walk' \in [atStart : SUBSET Nat, seen : SUBSET Nat, shown : Nat]
    BY <1>0, <2>2, <2>3
  <2>5. CASE reader.page < totalPages(Total)
    <3>1. totalPages(Total) <= MaxRows /\ totalPages(Total) \in Int
      <4>1. /\ reader.size \in Nat \ {0} /\ Total \in Nat
            /\ Total <= MaxRows /\ MaxRows \in Nat
        BY OffsetTyped, TotalTyped, TableAssumption DEF PagesInv, TableTypeOK
      <4>2. (Total + reader.size - 1) \div reader.size \in 0 .. Total
        BY <4>1, LastPage
      <4> QED BY <4>1, <4>2 DEF totalPages
    <3>2. reader' = [pc |-> "list", filter |-> reader.filter, size |-> reader.size,
                     page |-> reader.page + 1, list |-> {}]
      BY <1>0, <1>3, <2>5 DEF CountFlaggedTweets, Total
    <3>3. reader.page + 1 \in 1 .. MaxRows + 1
      BY <1>0, <2>5, <3>1, TableAssumption
    <3> QED BY <1>0, <2>4, <3>2, <3>3 DEF ReaderTypeOK
  <2>6. CASE ~ (reader.page < totalPages(Total))
    <3>1. reader' = [pc |-> "over", filter |-> reader.filter, size |-> reader.size,
                     page |-> reader.page, list |-> {}]
      BY <1>0, <1>3, <2>6 DEF CountFlaggedTweets, Total
    <3> QED BY <1>0, <2>4, <3>1 DEF ReaderTypeOK
  <2> QED BY <2>5, <2>6
<1>4. CASE QueryFails
  BY <1>0, <1>4 DEF QueryFails, ReaderTypeOK
<1>5. ASSUME NEW filter \in Job \cup {All}, NEW size \in PageSize, Walk(filter, size)
      PROVE  ReaderTypeOK'
  <2>1. 1 \in 1 .. MaxRows + 1 /\ size \in Nat \ {0}
    BY TableAssumption
  <2> QED BY <1>1, <1>5, <2>1 DEF Walk, ReaderTypeOK
<1>6. CASE UNCHANGED <<reader, walk>>
  BY <1>0, <1>6 DEF ReaderTypeOK
<1> QED BY <1>2, <1>3, <1>4, <1>5, <1>6
        DEF FTNext, Writer, Reader, Inserted, BackOff, Retry, GiveUp, ExecFails, Tick,
            Lock, NextSecond, SaveFlaggedTweet, ftVars

\* One attempt more uses up one timeout more.
LEMMA OneMore ==
    ASSUME NEW a \in Nat, NEW b \in Nat
    PROVE  (a + 1) * b = a * b + b /\ a * b \in Nat
OBVIOUS

\* The write's pauses: every attempt and every pause adds its time.
LEMMA WaitedStep ==
    ASSUME PagesInv, [FTNext]_ftVars PROVE Waited'
<1>0. /\ writer.attempt \in Nat /\ writer.backoff \in Nat /\ writer.timer \in Nat
      /\ elapsed \in Nat /\ busyTimeout \in Nat
      /\ writer.attempt * busyTimeout \in Nat
      /\ writer \in [pc : {"idle", "exec", "sleep", "gaveUp"},
                     row : [job : Job \cup {All}, flaggedAt : 0 .. MaxSecond],
                     attempt : 0 .. maxRetries - 1, backoff : Nat, timer : Nat]
  <2>1. writer.attempt \in 0 .. maxRetries - 1
    BY DEF PagesInv, WriterTypeOK
  <2> QED BY <2>1, OneMore, TableAssumption DEF PagesInv, WriterTypeOK, maxRetries
<1>w. Waited
  BY DEF PagesInv
<1>1. ASSUME NEW j \in Job, SaveFlaggedTweet(j) PROVE Waited'
  <2>1. /\ writer'.pc = "exec" /\ writer'.attempt = 0 /\ writer'.backoff = 1
        /\ writer'.timer = 0 /\ elapsed' = 0
    BY <1>1 DEF SaveFlaggedTweet
  <2> QED BY <1>0, <2>1 DEF Waited, GivesUpLate
<1>2. CASE Inserted \/ ExecFails
  <2>1. writer'.pc = "idle"
    BY <1>0, <1>2 DEF Inserted, ExecFails
  <2> QED BY <2>1 DEF Waited, GivesUpLate
<1>3. CASE GiveUp
  <2>1. writer.attempt = 4 /\ writer.backoff = 16
    BY <1>0, <1>w, <1>3 DEF GiveUp, SQLiteBusy, AttemptsLeft, maxRetries, Waited
  <2>2. elapsed >= 15 + 4 * busyTimeout + writer.timer /\ writer.timer >= busyTimeout
    BY <1>w, <1>3, <2>1 DEF GiveUp, SQLiteBusy, BusyTimeoutOver, Waited
  <2>3. elapsed >= 15 + 5 * busyTimeout
    BY <1>0, <2>2
  <2>4. writer'.pc = "gaveUp" /\ elapsed' = elapsed
    BY <1>0, <1>3 DEF GiveUp
  <2> QED BY <2>3, <2>4 DEF Waited, GivesUpLate
<1>4. CASE Retry
  <2>1. /\ writer'.pc = "exec" /\ writer'.attempt = writer.attempt
        /\ writer'.backoff = writer.backoff /\ writer'.timer = 0 /\ writer.timer = 0
        /\ writer.pc = "sleep" /\ elapsed' = elapsed
    BY <1>0, <1>4 DEF Retry
  <2> QED BY <1>0, <1>w, <2>1 DEF Waited, GivesUpLate
<1>5. CASE BackOff
  <2>1. /\ writer.pc = "exec" /\ writer.timer >= busyTimeout /\ writer.attempt < 4
    BY <1>5 DEF BackOff, SQLiteBusy, BusyTimeoutOver, AttemptsLeft, maxRetries
  <2>2. /\ writer'.pc = "sleep" /\ writer'.attempt = writer.attempt + 1
        /\ writer'.backoff = 2 * writer.backoff /\ writer'.timer = writer.backoff
        /\ elapsed' = elapsed
    BY <1>0, <1>5 DEF BackOff, NextBackoff
  <2>3. <<writer.attempt, writer.backoff>> \in {<<0, 1>>, <<1, 2>>, <<2, 4>>, <<3, 8>>}
    BY <1>0, <1>w, <2>1 DEF Waited
  <2>4. <<writer'.attempt, writer'.backoff>>
           \in {<<0, 1>>, <<1, 2>>, <<2, 4>>, <<3, 8>>, <<4, 16>>}
    BY <2>2, <2>3
  <2>5. elapsed >= writer.backoff - 1 + writer.attempt * busyTimeout + writer.timer
    BY <1>w, <2>1 DEF Waited
  <2>6. (writer.attempt + 1) * busyTimeout = writer.attempt * busyTimeout + busyTimeout
    BY <1>0, OneMore
  <2>7. elapsed >= 2 * writer.backoff - 1 + (writer.attempt + 1) * busyTimeout - writer.backoff
    BY <1>0, <2>1, <2>5, <2>6
  <2> QED BY <2>2, <2>4, <2>7 DEF Waited, GivesUpLate
<1>6. CASE Tick
  <2>1. /\ writer'.attempt = writer.attempt /\ writer'.backoff = writer.backoff
        /\ writer'.pc = writer.pc /\ elapsed' = elapsed + 1
        /\ \/ writer.pc = "exec" /\ writer'.timer = writer.timer + 1
           \/ writer.pc = "sleep" /\ writer'.timer = writer.timer - 1
    BY <1>0, <1>6 DEF Tick
  <2> QED BY <1>0, <1>w, <2>1 DEF Waited, GivesUpLate
<1>7. CASE UNCHANGED <<writer, elapsed>>
  BY <1>w, <1>7 DEF Waited, GivesUpLate
<1> QED BY <1>1, <1>2, <1>3, <1>4, <1>5, <1>6, <1>7
        DEF FTNext, Writer, Reader, ListFlaggedTweets, CountFlaggedTweets, QueryFails,
            Lock, NextSecond, Walk, ftVars

\* The walk: whichever step is taken.
LEMMA WalkStep ==
    ASSUME PagesInv, [FTNext]_ftVars PROVE WalkInv'
<1>1. CASE UNCHANGED <<rows, reader, walk>>
  BY <1>1, WalkUntouched DEF PagesInv
<1> QED BY <1>1, InsertedWalk, ListWalk, CountWalk, QueryFailsWalk, WalkWalk
        DEF FTNext, Writer, Reader, BackOff, Retry, GiveUp, ExecFails, Tick,
            Lock, NextSecond, SaveFlaggedTweet, ftVars

\* Every step keeps the invariant.
LEMMA PagesStep == PagesInv /\ [FTNext]_ftVars => PagesInv'
BY TableStep, WriterStep, ReaderStep, WaitedStep, WalkStep DEF PagesInv

\* So it holds in every state.
LEMMA PagesInvariant == FTSpec => []PagesInv
BY PagesInit, PagesStep, PTL DEF FTSpec

-----------------------------------------------------------------------------
(* What a client and a write can rely on *)

\* The table, execWithRetry and the walk: all variables stay in their ranges.
THEOREM TableTypes == FTSpec => []FTTypeOK
<1>1. PagesInv => FTTypeOK
  <2> SUFFICES ASSUME PagesInv PROVE FTTypeOK
    OBVIOUS
  <2>1. reader.list \subseteq DOMAIN rows /\ walk.seen \subseteq DOMAIN rows
    BY DEF PagesInv, WalkInv, Progress, Matching
  <2> QED BY <2>1 DEF PagesInv, TableTypeOK, WriterTypeOK, ReaderTypeOK, FTTypeOK, Row
<1> QED BY PagesInvariant, <1>1, PTL

\* handler.List page by page: a client that walked to the last page has been
\* shown every row that was there when it began, whatever the worker inserted.
THEOREM NoRowSkipped == FTSpec => []WalkComplete
<1>1. PagesInv => WalkComplete
  BY DEF PagesInv, WalkInv
<1> QED BY PagesInvariant, <1>1, PTL

\* ORDER BY, LIMIT and OFFSET: a walk repeats no more rows than were inserted
\* since it began.
THEOREM FewRepeats == FTSpec => []RepeatsBounded
<1>1. PagesInv => RepeatsBounded
  BY DEF PagesInv, WalkInv
<1> QED BY PagesInvariant, <1>1, PTL

\* execWithRetry: a write is given up only after five busy timeouts and 150 ms
\* of pauses.
THEOREM PersistentWrite == FTSpec => []GivesUpLate
<1>1. PagesInv => GivesUpLate
  BY DEF PagesInv, Waited
<1> QED BY PagesInvariant, <1>1, PTL
=============================================================================
