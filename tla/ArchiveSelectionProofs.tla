------------------------ MODULE ArchiveSelectionProofs ------------------------
(***************************************************************************)
(* Theorems about ArchiveSelection, for any calendar, any files of the      *)
(* archive, any range of whole days and any chunk unit and size: the types, *)
(* that the chunks partition the range, that each chunk gets the files it   *)
(* needs, and that the listings of one run agree.                           *)
(***************************************************************************)
EXTENDS ArchiveSelection, SequenceTheorems, NaturalFacts, TLAPS

-----------------------------------------------------------------------------
(* The calendar.                                                           *)

Last     == Len(MonthStart)
Calendar == MonthStart[1]..(MonthStart[Last] - 1)

LEMMA Months ==
  /\ Last \in Nat \ {0} /\ DOMAIN MonthStart = 1..Last /\ Month = 1..(Last - 1)
  /\ \A m \in 1..Last : MonthStart[m] \in Nat
  /\ \A m \in Month : m \in 1..Last /\ m + 1 \in 1..Last /\ MonthStart[m] < MonthStart[m + 1]
<1>1. MonthStart \in Seq(Nat) /\ MonthStart # <<>>
  BY ConstantsOK
<1>2. Last \in Nat \ {0} /\ DOMAIN MonthStart = 1..Last
  BY <1>1, EmptySeq, LenProperties DEF Last
<1>3. Month = 1..(Last - 1)
  BY DEF Month, Last
<1>4. \A m \in 1..Last : MonthStart[m] \in Nat
  BY <1>1, ElementOfSeq DEF Last
<1>5. \A m \in Month : MonthStart[m] < MonthStart[m + 1]
  BY ConstantsOK
<1> QED
  BY <1>2, <1>3, <1>4, <1>5

\* Later months begin later.
LEMMA MonthsAscend ==
  ASSUME NEW m \in 1..Last, NEW n \in 1..Last, m <= n
  PROVE  MonthStart[m] <= MonthStart[n]
<1> DEFINE S == {k \in Nat : m + k \in 1..Last => MonthStart[m] <= MonthStart[m + k]}
<1>1. m + 0 = m /\ MonthStart[m] \in Nat
  BY Months
<1>2. 0 \in S
  BY <1>1
<1>3. ASSUME NEW k \in Nat, k \in S, m + (k + 1) \in 1..Last
      PROVE  MonthStart[m] <= MonthStart[m + (k + 1)]
  <2>1. m + k \in 1..Last /\ m + k \in Month /\ (m + k) + 1 = m + (k + 1)
    BY <1>3, Months
  <2>2. MonthStart[m] <= MonthStart[m + k] /\ MonthStart[m + k] < MonthStart[m + (k + 1)]
    BY <1>3, <2>1, Months
  <2>3. MonthStart[m] \in Nat /\ MonthStart[m + k] \in Nat /\ MonthStart[m + (k + 1)] \in Nat
    BY <1>3, <2>1, Months
  <2> QED
    BY <2>2, <2>3
<1>4. \A k \in Nat : k \in S => k + 1 \in S
  BY <1>3
<1> HIDE DEF S
<1>5. \A k \in Nat : k \in S
  BY <1>2, <1>4, NatSetInduction
<1>6. n - m \in Nat /\ m + (n - m) = n
  BY Months
<1> QED
  BY <1>5, <1>6 DEF S

\* Every tick of the calendar is in its month.
LEMMA MonthOfTick ==
  ASSUME NEW t \in Calendar
  PROVE  /\ MonthOf(t) \in Month
         /\ MonthStart[MonthOf(t)] <= t /\ t < MonthStart[MonthOf(t) + 1]
<1> DEFINE S == {n \in 1..Last : t < MonthStart[n]}
<1>1. t \in Int /\ MonthStart[1] <= t /\ t < MonthStart[Last] /\ 1 \in 1..Last /\ Last \in 1..Last
  BY Months DEF Calendar
<1>2. S \subseteq Nat /\ S # {}
  BY <1>1
<1>3. PICK n \in S : \A k \in S : n <= k
  <2> HIDE DEF S
  <2> QED
    BY <1>2, LeastNatural
<1>4. n \in 1..Last /\ t < MonthStart[n] /\ n # 1
  BY <1>1, Months
<1>5. n - 1 \in Month /\ (n - 1) + 1 = n /\ n - 1 \notin S /\ n - 1 \in 1..Last
  BY <1>3, <1>4, Months
<1>6. MonthStart[n - 1] <= t
  BY <1>1, <1>5, Months
<1>7. \E m \in Month : MonthStart[m] <= t /\ t < MonthStart[m + 1]
  BY <1>4, <1>5, <1>6
<1> QED
  BY <1>7 DEF MonthOf

\* Later ticks are in later months.
LEMMA MonthOrder ==
  ASSUME NEW t \in Calendar, NEW u \in Calendar, t <= u
  PROVE  MonthOf(t) <= MonthOf(u)
<1>1. /\ MonthOf(t) \in Month /\ MonthOf(u) \in Month
      /\ MonthStart[MonthOf(t)] <= t /\ u < MonthStart[MonthOf(u) + 1]
  BY MonthOfTick
<1>2. MonthOf(t) \in 1..Last /\ MonthOf(u) + 1 \in 1..Last
  BY <1>1, Months
<1>3. ASSUME MonthOf(u) + 1 <= MonthOf(t)
      PROVE  FALSE
  <2>1. MonthStart[MonthOf(u) + 1] <= MonthStart[MonthOf(t)]
    BY <1>2, <1>3, MonthsAscend
  <2>2. MonthStart[MonthOf(u) + 1] \in Nat /\ MonthStart[MonthOf(t)] \in Nat /\ t \in Int /\ u \in Int
    BY <1>2, Months DEF Calendar
  <2> QED
    BY <1>1, <2>1, <2>2
<1>4. MonthOf(t) \in Int /\ MonthOf(u) \in Int
  BY <1>1, Months
<1> QED
  BY <1>3, <1>4

\* Files of earlier months are earlier files.
LEMMA MonthsApart ==
  ASSUME NEW t \in Calendar, NEW u \in Calendar, MonthOf(t) < MonthOf(u)
  PROVE  t < u
<1>1. MonthOf(t) \in Month /\ MonthOf(u) \in Month
  BY MonthOfTick
<1>2. ~(u <= t)
  BY <1>1, MonthOrder, Months
<1> QED
  BY <1>2, Months DEF Calendar

LEMMA FilesInCalendar ==
  ASSUME NEW f \in File
  PROVE  f \in Calendar /\ f \in Int /\ MonthOf(f) \in Month
<1>1. f \in Calendar
  BY ConstantsOK DEF Calendar, Last
<1> QED
  BY <1>1, MonthOfTick, Months DEF Calendar

\* Ranges and chunks of a run.
LEMMA RangeInCalendar ==
  ASSUME NEW r \in Ranges
  PROVE  /\ r.start \in Nat /\ r.end \in Nat /\ r.start < r.end
         /\ \A t \in (r.start - Duration)..r.end : t \in Calendar /\ t \in Nat
         /\ Duration \in Nat
<1>1. /\ r.start \in Nat /\ r.end \in Nat /\ r.start < r.end
      /\ MonthStart[1] + Duration <= r.start /\ r.end < MonthStart[Last]
      /\ Duration \in 1..(Day - 1) /\ Day \in Nat
  BY ConstantsOK DEF Last
<1>2. MonthStart[1] \in Nat /\ MonthStart[Last] \in Nat
  BY Months
<1> QED
  BY <1>1, <1>2 DEF Calendar

\* The next boundary of a chunk lies after the chunk's start.
LEMMA BoundaryLater ==
  ASSUME unit \in Units, NEW t \in Calendar
  PROVE  NextBoundary(t) \in Int /\ t < NextBoundary(t)
<1>1. unit[1] \in {"day", "month"} /\ unit[2] \in Nat \ {0} /\ Day \in Nat \ {0} /\ t \in Int
  BY ConstantsOK, Months DEF Calendar
<1>2. CASE unit[1] = "day"
  <2>1. unit[2] * Day \in Nat /\ unit[2] * Day > 0
    BY <1>1
  <2> QED
    BY <1>1, <1>2, <2>1 DEF NextBoundary
<1>3. CASE unit[1] = "month"
  <2> DEFINE m == MonthOf(t)
             n == Least(m + unit[2], Last)
  <2>1. m \in Month /\ m + 1 \in 1..Last /\ t < MonthStart[m + 1] /\ m \in Nat /\ Last \in Nat
    BY MonthOfTick, Months
  <2> HIDE DEF m
  <2>2. n \in 1..Last /\ m + 1 <= n
    BY <1>1, <2>1 DEF Least
  <2> HIDE DEF n
  <2>3. MonthStart[m + 1] <= MonthStart[n] /\ MonthStart[n] \in Nat /\ MonthStart[m + 1] \in Nat
    BY <2>1, <2>2, MonthsAscend, Months
  <2>4. NextBoundary(t) = MonthStart[n]
    BY <1>3 DEF NextBoundary, FirstDayOfMonth, Last, n, m
  <2> QED
    BY <1>1, <2>1, <2>3, <2>4
<1> QED
  BY <1>1, <1>2, <1>3

-----------------------------------------------------------------------------
(* The inductive invariant.                                                *)

\* The months that are listed for a chunk, and the files of the listings from month lo to hi.
Span(r) == FirstMonth(r)..LastMonth(r)
Held(listings, lo, hi) == UNION {listings[m] : m \in lo..hi}

\* The chunks are ranges inside the range.
ChunkInv ==
  /\ ChunksPartition
  /\ \A c \in DOMAIN chunks : range.start <= chunks[c].start
  /\ main # "split" => chunks # <<>>

\* A listing holds files of its month: as long as nothing was published, all that there are.
IndexInv ==
  \A m \in Month : index[m] # NotFetched =>
    /\ index[m] \subseteq File
    /\ \A f \in index[m] : MonthOf(f) = m
    /\ published = 0 => index[m] = Directory(m)

\* Where the program is in its chunks, and what it has listed for the one it is at.
ListInv ==
  /\ main = "split" => selected = <<>> /\ at = 0
  /\ main = "plan" => at \in DOMAIN chunks /\ Len(selected) = at - 1
  /\ main = "recover" => Len(selected) = Len(chunks)
  /\ main # "recover" => again.chunk = 0
  /\ Len(selected) <= Len(chunks)
  /\ at # 0 =>
       /\ fetched \in (FirstMonth(chunks[at]) - 1)..LastMonth(chunks[at])
       /\ \A m \in FirstMonth(chunks[at])..fetched : index[m] # NotFetched
       /\ entries = Held(index, FirstMonth(chunks[at]), fetched)

\* Whatever was selected for a chunk was selected from the listings as they still are.
SelectInv ==
  /\ \A c \in DOMAIN selected :
       /\ \A m \in Span(chunks[c]) : index[m] # NotFetched
       /\ selected[c] = Select(Held(index, FirstMonth(chunks[c]), LastMonth(chunks[c])), chunks[c])
  /\ RecoverySeesThePlan

Inv == TypeOK /\ ChunkInv /\ IndexInv /\ ListInv /\ SelectInv

\* What the types and the chunks' order say of a chunk.
LEMMA ChunkFacts ==
  ASSUME TypeOK, ChunkInv, NEW c \in DOMAIN chunks
  PROVE  LET r == chunks[c]
         IN  /\ c \in 1..Len(chunks) /\ Len(chunks) \in Nat
             /\ r.start \in Nat /\ r.end \in Nat /\ r.start < r.end /\ Duration \in Nat
             /\ r.start - Duration \in Calendar /\ r.start \in Calendar /\ r.end \in Calendar
             /\ FirstMonth(r) \in Month /\ LastMonth(r) \in Month /\ FirstMonth(r) <= LastMonth(r)
             /\ Span(r) \subseteq Month
<1> DEFINE r == chunks[c]
<1>1. c \in 1..Len(chunks) /\ Len(chunks) \in Nat /\ r \in TimeRange
  BY LenProperties, ElementOfSeq DEF TypeOK
<1>2. r.start < r.end /\ r.end <= range.end /\ range.start <= r.start
  BY DEF ChunkInv, ChunksPartition
<1>3. /\ range.start \in Nat /\ range.end \in Nat /\ Duration \in Nat
      /\ \A t \in (range.start - Duration)..range.end : t \in Calendar
  BY RangeInCalendar DEF TypeOK
<1>4. r.start \in Nat /\ r.end \in Nat
  BY <1>1 DEF TimeRange
<1> HIDE DEF r
<1>5. /\ r.start - Duration \in Calendar /\ r.start \in Calendar /\ r.end \in Calendar
      /\ r.start - Duration <= r.end
  BY <1>2, <1>3, <1>4 DEF r
<1>6. FirstMonth(r) \in Month /\ LastMonth(r) \in Month /\ FirstMonth(r) <= LastMonth(r)
  BY <1>5, MonthOfTick, MonthOrder DEF FirstMonth, LastMonth
<1>7. Span(r) \subseteq Month
  <2>1. FirstMonth(r) \in 1..(Last - 1) /\ LastMonth(r) \in 1..(Last - 1) /\ Last \in Nat
    BY <1>6, Months
  <2>2. \A m \in FirstMonth(r)..LastMonth(r) : m \in 1..(Last - 1)
    BY <2>1
  <2> QED
    BY <2>2, Months DEF Span
<1> QED
  BY <1>1, <1>2, <1>3, <1>4, <1>5, <1>6, <1>7 DEF r

LEMMA InvInit == Init => Inv
<1> SUFFICES ASSUME Init PROVE Inv
  OBVIOUS
<1>1. chunks = <<>> /\ Len(chunks) = 0 /\ DOMAIN chunks = {} /\ selected = <<>> /\ DOMAIN selected = {}
      /\ Len(selected) = 0
  BY EmptySeq, LenProperties DEF Init
<1>2. TypeOK
  <2>1. /\ range \in Ranges /\ unit \in Units /\ main = "split" /\ entries = {}
        /\ archive \subseteq File /\ index \in [Month -> (SUBSET File) \cup {NotFetched}]
    BY DEF Init
  <2>2. chunks \in Seq(TimeRange) /\ selected \in Seq(SUBSET File)
    BY <1>1, EmptySeq
  <2>3. at \in 0..Len(chunks)
    BY <1>1 DEF Init
  <2>4. fetched \in 0..Len(MonthStart) /\ published \in 0..MaxPublished
    BY Months, ConstantsOK DEF Init, Last
  <2>5. again \in [chunk : 0..Len(chunks), targets : SUBSET File]
    BY <1>1 DEF Init
  <2> QED
    BY <2>1, <2>2, <2>3, <2>4, <2>5 DEF TypeOK
<1>3. ChunkInv
  BY <1>1 DEF Init, ChunkInv, ChunksPartition
<1>4. IndexInv
  BY DEF Init, IndexInv
<1>5. ListInv
  BY <1>1 DEF Init, ListInv
<1>6. SelectInv
  BY <1>1 DEF Init, SelectInv, RecoverySeesThePlan
<1> QED
  BY <1>2, <1>3, <1>4, <1>5, <1>6 DEF Inv

-----------------------------------------------------------------------------
(* The range is split.                                                     *)

LEMMA SplitKeeps ==
  ASSUME Inv, Split
  PROVE  Inv'
<1> DEFINE n == Len(chunks)
           new == [start |-> ChunkStart, end |-> ChunkEnd(ChunkStart)]
<1>1. TypeOK /\ ChunkInv /\ IndexInv /\ ListInv /\ SelectInv
  BY DEF Inv
<1>2. /\ main = "split" /\ ChunkStart < range.end /\ chunks' = Append(chunks, new)
      /\ UNCHANGED <<range, unit, archive, index, main, at, entries, fetched, selected, again, published>>
  BY DEF Split
<1>3. selected = <<>> /\ at = 0 /\ again.chunk = 0
  BY <1>1, <1>2 DEF ListInv
<1>4. n \in Nat /\ DOMAIN chunks = 1..n /\ (n = 0 <=> chunks = <<>>)
  BY <1>1, LenProperties, EmptySeq DEF TypeOK
<1>5. /\ range.start \in Nat /\ range.end \in Nat /\ Duration \in Nat
      /\ \A t \in (range.start - Duration)..range.end : t \in Calendar /\ t \in Nat
  BY <1>1, RangeInCalendar DEF TypeOK
<1>6. ChunkStart \in range.start..range.end
  <2>1. CASE chunks = <<>>
    BY <1>2, <1>5, <2>1 DEF ChunkStart
  <2>2. CASE chunks # <<>>
    <3>1. n \in DOMAIN chunks /\ ChunkStart = chunks[n].end
      BY <1>4, <2>2 DEF ChunkStart
    <3>2. chunks[n].end <= range.end /\ range.start <= chunks[n].start /\ chunks[n].start < chunks[n].end
      BY <1>1, <3>1 DEF ChunkInv, ChunksPartition
    <3>3. chunks[n].start \in Nat /\ chunks[n].end \in Nat
      BY <1>1, <3>1, ChunkFacts
    <3> QED
      BY <1>5, <3>1, <3>2, <3>3
  <2> QED
    BY <2>1, <2>2
<1>7. ChunkStart \in Nat /\ ChunkStart \in Calendar
  <2>1. ChunkStart \in (range.start - Duration)..range.end
    BY <1>5, <1>6
  <2> QED
    BY <1>5, <2>1
<1>8. /\ ChunkEnd(ChunkStart) \in Nat /\ ChunkStart < ChunkEnd(ChunkStart)
      /\ ChunkEnd(ChunkStart) <= range.end
  <2>1. NextBoundary(ChunkStart) \in Int /\ ChunkStart < NextBoundary(ChunkStart)
    BY <1>1, <1>7, BoundaryLater DEF TypeOK
  <2> HIDE DEF ChunkStart
  <2> QED
    BY <1>2, <1>5, <1>7, <2>1 DEF ChunkEnd, Least
<1>9. /\ new \in TimeRange /\ new.start = ChunkStart /\ new.end <= range.end
      /\ new.start < new.end /\ range.start <= new.start
  BY <1>5, <1>6, <1>7, <1>8 DEF TimeRange
<1> HIDE DEF new
<1>10. /\ chunks' \in Seq(TimeRange) /\ Len(chunks') = n + 1 /\ DOMAIN chunks' = 1..(n + 1)
       /\ \A c \in 1..n : chunks'[c] = chunks[c]
       /\ chunks'[n + 1] = new
  BY <1>1, <1>2, <1>4, <1>9, AppendProperties, LenProperties DEF TypeOK
<1>11. TypeOK'
  <2>1. at' \in 0..Len(chunks')
    BY <1>2, <1>3, <1>4, <1>10
  <2>2. again' \in [chunk : 0..Len(chunks'), targets : SUBSET File]
    <3>1. again.chunk \in 0..(n + 1)
      BY <1>3, <1>4
    <3> QED
      BY <1>1, <1>2, <1>10, <3>1 DEF TypeOK
  <2> QED
    BY <1>1, <1>2, <1>10, <2>1, <2>2 DEF TypeOK, Month, TimeRange
<1>12. ChunkInv'
  <2>1. ASSUME NEW c \in 1..n
        PROVE  /\ chunks'[c].start = IF c = 1 THEN range.start ELSE chunks'[c - 1].end
               /\ chunks'[c].start < chunks'[c].end /\ chunks'[c].end <= range.end
               /\ range.start <= chunks'[c].start
    <3>1. c = 1 \/ c - 1 \in 1..n
      BY <1>4
    <3> QED
      BY <1>1, <1>4, <1>10, <3>1 DEF ChunkInv, ChunksPartition
  <2>2. /\ chunks'[n + 1].start = IF n + 1 = 1 THEN range.start ELSE chunks'[(n + 1) - 1].end
        /\ chunks'[n + 1].start < chunks'[n + 1].end /\ chunks'[n + 1].end <= range.end
        /\ range.start <= chunks'[n + 1].start
    <3>1. CASE n = 0
      BY <1>4, <1>9, <1>10, <3>1 DEF ChunkStart
    <3>2. CASE n # 0
      BY <1>4, <1>9, <1>10, <3>2 DEF ChunkStart
    <3> QED
      BY <3>1, <3>2
  <2>3. \A c \in 1..(n + 1) : c \in 1..n \/ c = n + 1
    BY <1>4
  <2> QED
    BY <1>2, <1>10, <2>1, <2>2, <2>3 DEF ChunkInv, ChunksPartition
<1>13. IndexInv'
  BY <1>1, <1>2 DEF IndexInv, Month, Directory
<1>14. ListInv'
  BY <1>2, <1>3, <1>4, <1>10, EmptySeq DEF ListInv
<1>15. SelectInv'
  BY <1>2, <1>3, EmptySeq, LenProperties DEF SelectInv, RecoverySeesThePlan
<1> QED
  BY <1>11, <1>12, <1>13, <1>14, <1>15 DEF Inv

-----------------------------------------------------------------------------
(* The files of the chunks are listed.                                     *)

\* Steps that leave the chunks as they are.
LEMMA ChunksStay ==
  ASSUME ChunkInv, main # "split", main' # "split", UNCHANGED <<range, chunks>>
  PROVE  ChunkInv'
BY DEF ChunkInv, ChunksPartition, ChunkStart

\* What was selected stays so while no listing is lost.
LEMMA SelectionsStay ==
  ASSUME SelectInv, UNCHANGED <<chunks, selected, again>>, TypeOK, ChunkInv,
         DOMAIN selected \subseteq DOMAIN chunks,
         \A m \in Month : index[m] # NotFetched => index'[m] = index[m]
  PROVE  SelectInv'
<1>1. ASSUME NEW c \in DOMAIN selected
      PROVE  /\ \A m \in Span(chunks[c]) : index'[m] # NotFetched
             /\ selected[c] = Select(Held(index', FirstMonth(chunks[c]), LastMonth(chunks[c])), chunks[c])
  <2>1. Span(chunks[c]) \subseteq Month
    BY ChunkFacts
  <2>2. \A m \in Span(chunks[c]) : index[m] # NotFetched
    BY DEF SelectInv
  <2>3. \A m \in Span(chunks[c]) : index'[m] = index[m]
    BY <2>1, <2>2
  <2>4. Held(index', FirstMonth(chunks[c]), LastMonth(chunks[c]))
          = Held(index, FirstMonth(chunks[c]), LastMonth(chunks[c]))
    BY <2>3 DEF Held, Span
  <2> QED
    BY <2>2, <2>3, <2>4 DEF SelectInv
<1>2. RecoverySeesThePlan'
  BY DEF SelectInv, RecoverySeesThePlan
<1> QED
  BY <1>1, <1>2 DEF SelectInv

LEMMA Begins ==
  ASSUME TypeOK, ChunkInv, NEW c \in DOMAIN chunks, Begin(c), UNCHANGED <<chunks, index>>
  PROVE  /\ at' = c /\ c \in 1..Len(chunks) /\ entries' = {} /\ fetched' \in 0..Len(MonthStart)
         /\ fetched' \in (FirstMonth(chunks[c]) - 1)..LastMonth(chunks[c])
         /\ \A m \in FirstMonth(chunks[c])..fetched' : FALSE
<1>1. /\ at' = c /\ entries' = {} /\ fetched' = FirstMonth(chunks[c]) - 1
  BY DEF Begin
<1>2. FirstMonth(chunks[c]) \in Month /\ LastMonth(chunks[c]) \in Month
      /\ FirstMonth(chunks[c]) <= LastMonth(chunks[c]) /\ c \in 1..Len(chunks)
  BY ChunkFacts
<1>3. FirstMonth(chunks[c]) \in 1..(Last - 1) /\ LastMonth(chunks[c]) \in 1..(Last - 1) /\ Last \in Nat
  BY <1>2, Months
<1> QED
  BY <1>1, <1>2, <1>3 DEF Last

\* An empty span lists nothing.
LEMMA NothingHeld ==
  ASSUME NEW listings, NEW lo, NEW hi, \A m \in lo..hi : FALSE
  PROVE  Held(listings, lo, hi) = {}
BY DEF Held

LEMMA EndSplitKeeps ==
  ASSUME Inv, EndSplit
  PROVE  Inv'
<1>1. TypeOK /\ ChunkInv /\ IndexInv /\ ListInv /\ SelectInv
  BY DEF Inv
<1>2. /\ main = "split" /\ ChunkStart >= range.end /\ main' = "plan" /\ Begin(1)
      /\ UNCHANGED <<range, unit, archive, index, chunks, selected, again, published>>
  BY DEF EndSplit
<1>3. selected = <<>> /\ Len(selected) = 0 /\ again.chunk = 0
  BY <1>1, <1>2, EmptySeq DEF ListInv
<1>4. range.start \in Nat /\ range.end \in Nat /\ range.start < range.end
  BY <1>1, RangeInCalendar DEF TypeOK
<1>5. chunks # <<>>
  BY <1>2, <1>4 DEF ChunkStart
<1>6. DOMAIN chunks = 1..Len(chunks) /\ Len(chunks) \in Nat \ {0} /\ 1 \in DOMAIN chunks
      /\ Len(chunks) \in DOMAIN chunks
  BY <1>1, <1>5, LenProperties, EmptySeq DEF TypeOK
<1>7. ChunkStart = range.end
  <2>1. ChunkStart = chunks[Len(chunks)].end /\ chunks[Len(chunks)].end <= range.end
    BY <1>1, <1>5, <1>6 DEF ChunkStart, ChunkInv, ChunksPartition
  <2>2. chunks[Len(chunks)].end \in Nat
    BY <1>1, <1>6, ChunkFacts
  <2> QED
    BY <1>2, <1>4, <2>1, <2>2
<1>8. /\ at' = 1 /\ 1 \in 1..Len(chunks) /\ entries' = {} /\ fetched' \in 0..Len(MonthStart)
      /\ fetched' \in (FirstMonth(chunks[1]) - 1)..LastMonth(chunks[1])
      /\ \A m \in FirstMonth(chunks[1])..fetched' : FALSE
  BY <1>1, <1>2, <1>6, Begins
<1>9. TypeOK'
  BY <1>1, <1>2, <1>6, <1>8 DEF TypeOK, Month, TimeRange
<1>10. ChunkInv'
  BY <1>1, <1>2, <1>5, <1>7 DEF ChunkInv, ChunksPartition, ChunkStart
<1>11. IndexInv'
  BY <1>1, <1>2 DEF IndexInv, Month, Directory
<1>12. ListInv'
  <2>1. Held(index', FirstMonth(chunks[1]), fetched') = {}
    BY <1>8, NothingHeld
  <2>2. Len(selected) = at' - 1 /\ Len(selected) <= Len(chunks) /\ at' \in DOMAIN chunks
    BY <1>3, <1>6, <1>8
  <2> QED
    BY <1>2, <1>3, <1>8, <2>1, <2>2 DEF ListInv
<1>13. SelectInv'
  BY <1>2, <1>3, EmptySeq, LenProperties DEF SelectInv, RecoverySeesThePlan
<1> QED
  BY <1>9, <1>10, <1>11, <1>12, <1>13 DEF Inv

\* What is known of the chunk whose files are being listed.
LEMMA ChunkAt ==
  ASSUME TypeOK, ChunkInv, ListInv, at # 0
  PROVE  /\ at \in DOMAIN chunks /\ DOMAIN chunks = 1..Len(chunks) /\ Len(chunks) \in Nat
         /\ FirstMonth(chunks[at]) \in 1..(Last - 1) /\ LastMonth(chunks[at]) \in 1..(Last - 1)
         /\ Last \in Nat /\ Month = 1..(Last - 1) /\ fetched \in Nat
         /\ fetched \in (FirstMonth(chunks[at]) - 1)..LastMonth(chunks[at])
         /\ main # "split"
<1>1. at \in DOMAIN chunks /\ DOMAIN chunks = 1..Len(chunks) /\ Len(chunks) \in Nat
  BY LenProperties DEF TypeOK
<1>2. FirstMonth(chunks[at]) \in Month /\ LastMonth(chunks[at]) \in Month
  BY <1>1, ChunkFacts
<1>3. Last \in Nat /\ Month = 1..(Last - 1)
  BY Months
<1>4. fetched \in (FirstMonth(chunks[at]) - 1)..LastMonth(chunks[at]) /\ main # "split"
  BY DEF ListInv
<1> QED
  BY <1>1, <1>2, <1>3, <1>4

LEMMA FetchMonthKeeps ==
  ASSUME Inv, FetchMonth
  PROVE  Inv'
<1> DEFINE m == fetched + 1
           r == chunks[at]
<1>1. TypeOK /\ ChunkInv /\ IndexInv /\ ListInv /\ SelectInv
  BY DEF Inv
<1>2. /\ main \in {"plan", "recover"} /\ at # 0 /\ ~Listed
      /\ index' = [index EXCEPT ![m] = Listing(m)] /\ entries' = entries \cup Listing(m)
      /\ fetched' = m
      /\ UNCHANGED <<range, unit, archive, main, chunks, at, selected, again, published>>
  BY <1>1 DEF FetchMonth, TypeOK
<1>3. /\ at \in DOMAIN chunks /\ DOMAIN chunks = 1..Len(chunks) /\ Len(chunks) \in Nat
      /\ FirstMonth(r) \in 1..(Last - 1) /\ LastMonth(r) \in 1..(Last - 1)
      /\ Last \in Nat /\ Month = 1..(Last - 1) /\ fetched \in Nat
      /\ fetched \in (FirstMonth(r) - 1)..LastMonth(r)
  BY <1>1, <1>2, ChunkAt
<1>4. m \in Month /\ m \in FirstMonth(r)..LastMonth(r)
  BY <1>2, <1>3 DEF Listed
<1>5. /\ Listing(m) \subseteq File /\ Listing(m) # NotFetched
      /\ \A f \in Listing(m) : MonthOf(f) = m
      /\ published = 0 => Listing(m) = Directory(m)
      /\ index[m] # NotFetched => Listing(m) = index[m]
  <2>1. CASE index[m] = NotFetched
    <3>1. Listing(m) = Directory(m) /\ Directory(m) \subseteq File
      BY <1>1, <2>1 DEF Listing, Directory, TypeOK
    <3>2. Directory(m) # NotFetched
      BY <3>1, ConstantsOK
    <3> QED
      BY <2>1, <3>1, <3>2 DEF Directory
  <2>2. CASE index[m] # NotFetched
    BY <1>1, <1>4, <2>2 DEF Listing, IndexInv
  <2> QED
    BY <2>1, <2>2
<1>6. /\ index'[m] = Listing(m) /\ \A k \in Month \ {m} : index'[k] = index[k]
      /\ index' \in [Month -> (SUBSET File) \cup {NotFetched}]
  BY <1>1, <1>2, <1>4, <1>5 DEF TypeOK
<1>7. \A k \in Month : index[k] # NotFetched => index'[k] = index[k]
  BY <1>5, <1>6
<1> HIDE DEF m
<1>8. TypeOK'
  <2>1. fetched' \in 0..Len(MonthStart) /\ entries' \subseteq File
    BY <1>1, <1>2, <1>3, <1>4, <1>5 DEF Last, TypeOK
  <2> QED
    BY <1>1, <1>2, <1>6, <2>1 DEF TypeOK, Month, TimeRange
<1>9. ChunkInv'
  BY <1>1, <1>2, ChunksStay
<1>10. IndexInv'
  <2>1. ASSUME NEW k \in Month, index'[k] # NotFetched
        PROVE  /\ index'[k] \subseteq File
               /\ \A f \in index'[k] : MonthOf(f) = k
               /\ published = 0 => index'[k] = Directory(k)
    BY <1>1, <1>5, <1>6, <2>1 DEF IndexInv
  <2> QED
    BY <1>2, <2>1 DEF IndexInv, Directory
<1>11. ListInv'
  <2>1. fetched' \in (FirstMonth(r) - 1)..LastMonth(r)
    BY <1>2, <1>3, <1>4
  <2>2. \A k \in FirstMonth(r)..fetched' :
          k \in Month /\ (k = m \/ k \in FirstMonth(r)..fetched)
    BY <1>2, <1>3, <1>4 DEF m
  <2>3. \A k \in FirstMonth(r)..fetched : index[k] # NotFetched
    BY <1>1, <1>2 DEF ListInv
  <2>4. \A k \in FirstMonth(r)..fetched' : index'[k] # NotFetched
    BY <1>5, <1>6, <1>7, <2>2, <2>3
  <2>5. \A k \in FirstMonth(r)..fetched : k \in Month /\ index'[k] = index[k]
                                         /\ k \in FirstMonth(r)..fetched'
    BY <1>2, <1>3, <1>7, <2>3 DEF m
  <2>6. m \in FirstMonth(r)..fetched'
    BY <1>2, <1>3, <1>4
  <2>7. entries' = Held(index', FirstMonth(r), fetched')
    <3>1. entries = Held(index, FirstMonth(r), fetched)
      BY <1>1, <1>2 DEF ListInv
    <3>2. Held(index', FirstMonth(r), fetched') = Held(index, FirstMonth(r), fetched) \cup index'[m]
      BY <2>2, <2>5, <2>6 DEF Held
    <3> QED
      BY <1>2, <1>6, <3>1, <3>2
  <2> HIDE DEF r
  <2>8. at' # 0 /\ r = chunks'[at']
    BY <1>2 DEF r
  <2>9. /\ main' = "split" => selected' = <<>> /\ at' = 0
        /\ main' = "plan" => at' \in DOMAIN chunks' /\ Len(selected') = at' - 1
        /\ main' = "recover" => Len(selected') = Len(chunks')
        /\ main' # "recover" => again'.chunk = 0
        /\ Len(selected') <= Len(chunks')
    BY <1>1, <1>2 DEF ListInv
  <2> QED
    BY <2>1, <2>4, <2>7, <2>8, <2>9 DEF ListInv
<1>12. SelectInv'
  <2>1. DOMAIN selected \subseteq DOMAIN chunks
    <3>1. Len(selected) \in Nat /\ DOMAIN selected = 1..Len(selected) /\ Len(selected) <= Len(chunks)
      BY <1>1, LenProperties DEF TypeOK, ListInv
    <3> QED
      BY <1>3, <3>1
  <2> QED
    BY <1>1, <1>2, <1>7, <2>1, SelectionsStay
<1> QED
  BY <1>8, <1>9, <1>10, <1>11, <1>12 DEF Inv

LEMMA FetchFailsKeeps ==
  ASSUME Inv, FetchFails
  PROVE  Inv'
<1>1. TypeOK /\ ChunkInv /\ IndexInv /\ ListInv /\ SelectInv
  BY DEF Inv
<1>2. /\ main = "plan" /\ main' = "failed"
      /\ UNCHANGED <<range, unit, archive, index, chunks, at, entries, fetched, selected, again, published>>
  BY DEF FetchFails
<1>3. TypeOK' /\ IndexInv'
  BY <1>1, <1>2 DEF TypeOK, IndexInv, Directory
<1>4. ChunkInv'
  BY <1>1, <1>2, ChunksStay
<1>5. ListInv'
  BY <1>1, <1>2 DEF ListInv
<1>6. SelectInv'
  BY <1>1, <1>2 DEF SelectInv, RecoverySeesThePlan
<1> QED
  BY <1>3, <1>4, <1>5, <1>6 DEF Inv

\* Once its months are listed, the entries are all that the listings hold of a chunk.
LEMMA ListedEntries ==
  ASSUME TypeOK, ChunkInv, ListInv, at # 0, Listed
  PROVE  /\ entries = Held(index, FirstMonth(chunks[at]), LastMonth(chunks[at]))
         /\ \A m \in Span(chunks[at]) : index[m] # NotFetched
<1>1. fetched = LastMonth(chunks[at])
  BY ChunkAt DEF Listed
<1> QED
  BY <1>1 DEF ListInv, Span

LEMMA PlanTargetsKeeps ==
  ASSUME Inv, PlanTargets
  PROVE  Inv'
<1> DEFINE n == Len(selected)
           targets == Select(entries, chunks[at])
<1>1. TypeOK /\ ChunkInv /\ IndexInv /\ ListInv /\ SelectInv
  BY DEF Inv
<1>2. /\ main = "plan" /\ Listed /\ selected' = Append(selected, targets)
      /\ UNCHANGED <<range, unit, archive, index, chunks, again, published>>
  BY DEF PlanTargets
<1>3. /\ at \in DOMAIN chunks /\ n = at - 1 /\ again.chunk = 0 /\ at # 0
      /\ DOMAIN chunks = 1..Len(chunks) /\ Len(chunks) \in Nat
  BY <1>1, <1>2, LenProperties DEF ListInv, TypeOK
<1>4. targets \in SUBSET File
  BY <1>1 DEF Select, TypeOK
<1>5. n \in Nat /\ DOMAIN selected = 1..n
  BY <1>1, LenProperties DEF TypeOK
<1> HIDE DEF targets
<1>6. /\ selected' \in Seq(SUBSET File) /\ Len(selected') = at /\ DOMAIN selected' = 1..at
      /\ \A c \in 1..n : selected'[c] = selected[c]
      /\ selected'[at] = targets
  <2>1. /\ selected' \in Seq(SUBSET File) /\ Len(selected') = n + 1 /\ DOMAIN selected' = 1..(n + 1)
        /\ \A c \in 1..n : selected'[c] = selected[c]
        /\ selected'[n + 1] = targets
    BY <1>1, <1>2, <1>4, <1>5, AppendProperties, LenProperties DEF TypeOK
  <2> QED
    BY <1>3, <1>5, <2>1
<1>7. SelectInv'
  <2>1. ASSUME NEW c \in 1..at
        PROVE  /\ \A m \in Span(chunks[c]) : index[m] # NotFetched
               /\ selected'[c] = Select(Held(index, FirstMonth(chunks[c]), LastMonth(chunks[c])), chunks[c])
    <3>1. CASE c = at
      BY <1>1, <1>2, <1>3, <1>6, <3>1, ListedEntries DEF targets
    <3>2. CASE c # at
      <4>1. c \in 1..n
        BY <1>3, <1>5, <3>2
      <4> QED
        BY <1>1, <1>5, <1>6, <4>1 DEF SelectInv
    <3> QED
      BY <3>1, <3>2
  <2>2. RecoverySeesThePlan'
    BY <1>2, <1>3 DEF RecoverySeesThePlan
  <2> QED
    BY <1>2, <1>6, <2>1, <2>2 DEF SelectInv
<1>8. IndexInv'
  BY <1>1, <1>2 DEF IndexInv, Directory
<1>9. CASE at < Len(chunks) /\ Begin(at + 1) /\ UNCHANGED main
  <2>1. at + 1 \in DOMAIN chunks
    BY <1>3, <1>9
  <2>2. /\ at' = at + 1 /\ entries' = {} /\ fetched' \in 0..Len(MonthStart)
        /\ fetched' \in (FirstMonth(chunks[at + 1]) - 1)..LastMonth(chunks[at + 1])
        /\ \A m \in FirstMonth(chunks[at + 1])..fetched' : FALSE
    BY <1>1, <1>2, <1>9, <2>1, Begins
  <2>3. Held(index, FirstMonth(chunks[at + 1]), fetched') = {}
    BY <2>2, NothingHeld
  <2>4. TypeOK'
    <3>1. at' \in 0..Len(chunks)
      BY <1>3, <1>9, <2>2
    <3> QED
      BY <1>1, <1>2, <1>6, <1>9, <2>2, <3>1 DEF TypeOK
  <2>5. ChunkInv'
    BY <1>1, <1>2, <1>9, ChunksStay
  <2>6. ListInv'
    <3>1. Len(selected') = at' - 1 /\ Len(selected') <= Len(chunks) /\ at' \in DOMAIN chunks
      BY <1>3, <1>6, <2>1, <2>2
    <3> QED
      BY <1>2, <1>3, <1>9, <2>2, <2>3, <3>1 DEF ListInv
  <2> QED
    BY <1>7, <1>8, <2>4, <2>5, <2>6 DEF Inv
<1>10. CASE ~(at < Len(chunks)) /\ main' = "recover" /\ at' = 0 /\ UNCHANGED <<entries, fetched>>
  <2>1. at = Len(chunks)
    BY <1>3, <1>10
  <2>2. TypeOK'
    <3>1. at' \in 0..Len(chunks)
      BY <1>3, <1>10
    <3> QED
      BY <1>1, <1>2, <1>6, <1>10, <3>1 DEF TypeOK
  <2>3. ChunkInv'
    BY <1>1, <1>2, <1>10, ChunksStay
  <2>4. ListInv'
    BY <1>2, <1>3, <1>6, <1>10, <2>1 DEF ListInv
  <2> QED
    BY <1>7, <1>8, <2>2, <2>3, <2>4 DEF Inv
<1> QED
  BY <1>9, <1>10 DEF PlanTargets

LEMMA RecoverChunkKeeps ==
  ASSUME Inv, RecoverChunk
  PROVE  Inv'
<1>1. TypeOK /\ ChunkInv /\ IndexInv /\ ListInv /\ SelectInv
  BY DEF Inv
<1>2. PICK c \in DOMAIN chunks : Begin(c)
  BY DEF RecoverChunk
<1>3. /\ main = "recover" /\ main' = "recover"
      /\ UNCHANGED <<range, unit, archive, index, chunks, selected, again, published>>
  BY DEF RecoverChunk
<1>4. /\ at' = c /\ c \in 1..Len(chunks) /\ entries' = {} /\ fetched' \in 0..Len(MonthStart)
      /\ fetched' \in (FirstMonth(chunks[c]) - 1)..LastMonth(chunks[c])
      /\ \A m \in FirstMonth(chunks[c])..fetched' : FALSE
  BY <1>1, <1>2, <1>3, Begins
<1>5. Held(index, FirstMonth(chunks[c]), fetched') = {}
  BY <1>4, NothingHeld
<1>6. TypeOK'
  <2>1. at' \in 0..Len(chunks)
    BY <1>1, <1>4, LenProperties DEF TypeOK
  <2> QED
    BY <1>1, <1>3, <1>4, <2>1 DEF TypeOK
<1>7. ChunkInv' /\ IndexInv'
  BY <1>1, <1>3, ChunksStay DEF IndexInv, Directory
<1>8. ListInv'
  BY <1>1, <1>3, <1>4, <1>5 DEF ListInv
<1>9. SelectInv'
  BY <1>1, <1>3 DEF SelectInv, RecoverySeesThePlan
<1> QED
  BY <1>6, <1>7, <1>8, <1>9 DEF Inv

LEMMA ResolveAgainKeeps ==
  ASSUME Inv, ResolveAgain
  PROVE  Inv'
<1>1. TypeOK /\ ChunkInv /\ IndexInv /\ ListInv /\ SelectInv
  BY DEF Inv
<1>2. /\ main = "recover" /\ main' = "recover" /\ at # 0 /\ Listed /\ at' = 0
      /\ again' = [chunk |-> at, targets |-> Select(entries, chunks[at])]
      /\ UNCHANGED <<range, unit, archive, index, chunks, entries, fetched, selected, published>>
  BY <1>1 DEF ResolveAgain, TypeOK
<1>3. at \in DOMAIN chunks /\ at \in 0..Len(chunks) /\ DOMAIN selected = DOMAIN chunks
      /\ Len(chunks) \in Nat
  BY <1>1, <1>2, ChunkAt, LenProperties DEF ListInv, TypeOK
<1>4. again'.chunk = at /\ again'.targets = selected[at]
  BY <1>1, <1>2, <1>3, ListedEntries DEF SelectInv
<1>5. TypeOK'
  <2>1. Select(entries, chunks[at]) \in SUBSET File
    BY <1>1 DEF Select, TypeOK
  <2>2. again' \in [chunk : 0..Len(chunks), targets : SUBSET File] /\ at' \in 0..Len(chunks)
    BY <1>2, <1>3, <2>1
  <2> QED
    BY <1>1, <1>2, <2>2 DEF TypeOK
<1>6. ChunkInv' /\ IndexInv'
  BY <1>1, <1>2, ChunksStay DEF IndexInv, Directory
<1>7. ListInv'
  BY <1>1, <1>2 DEF ListInv
<1>8. SelectInv'
  BY <1>1, <1>2, <1>4 DEF SelectInv, RecoverySeesThePlan
<1> QED
  BY <1>5, <1>6, <1>7, <1>8 DEF Inv

LEMMA PublishFileKeeps ==
  ASSUME Inv, PublishFile
  PROVE  Inv'
<1>1. TypeOK /\ ChunkInv /\ IndexInv /\ ListInv /\ SelectInv
  BY DEF Inv
<1>2. /\ published < MaxPublished /\ published' = published + 1 /\ archive' \subseteq File
      /\ UNCHANGED <<range, unit, index, main, chunks, at, entries, fetched, selected, again>>
  BY <1>1 DEF PublishFile, TypeOK
<1>3. published' \in 0..MaxPublished /\ published' # 0
  BY <1>1, <1>2, ConstantsOK DEF TypeOK
<1>4. TypeOK' /\ IndexInv'
  BY <1>1, <1>2, <1>3 DEF TypeOK, IndexInv
<1>5. ChunkInv'
  BY <1>1, <1>2 DEF ChunkInv, ChunksPartition, ChunkStart
<1>6. ListInv' /\ SelectInv'
  BY <1>1, <1>2 DEF ListInv, SelectInv, RecoverySeesThePlan
<1> QED
  BY <1>4, <1>5, <1>6 DEF Inv

LEMMA InvNext == Inv /\ [Next]_vars => Inv'
<1> SUFFICES ASSUME Inv, [Next]_vars PROVE Inv'
  OBVIOUS
<1>1. CASE Discover
  BY <1>1, SplitKeeps, EndSplitKeeps, FetchMonthKeeps, FetchFailsKeeps, PlanTargetsKeeps,
     RecoverChunkKeeps, ResolveAgainKeeps DEF Discover
<1>2. CASE PublishFile
  BY <1>2, PublishFileKeeps
<1>3. CASE UNCHANGED vars
  BY <1>3 DEF vars, Inv, TypeOK, ChunkInv, ChunksPartition, ChunkStart, IndexInv, Directory, ListInv,
              SelectInv, RecoverySeesThePlan
<1> QED
  BY <1>1, <1>2, <1>3 DEF Next

LEMMA Invariance == Spec => []Inv
BY InvInit, InvNext, PTL DEF Spec

-----------------------------------------------------------------------------
(* The theorems.                                                           *)

\* The variables of the planning of a run keep their types; the months it lists are in the
\* calendar.
THEOREM TypesAreKept == Spec => []TypeOK
BY Invariance, PTL DEF Inv

\* split_range_by_chunks cuts the range, whatever the unit and the size, into chunks that follow
\* each other without gap or overlap, none of them empty, to its end.
THEOREM RangeIsPartitioned == Spec => []ChunksPartition
BY Invariance, PTL DEF Inv, ChunkInv

\* A listing's files are those of its months.
LEMMA HeldFiles ==
  ASSUME Inv, NEW c \in DOMAIN selected
  PROVE  /\ c \in DOMAIN chunks
         /\ \A f \in Held(index, FirstMonth(chunks[c]), LastMonth(chunks[c])) :
              /\ f \in File /\ f \in Calendar /\ f \in Int
              /\ MonthOf(f) \in Span(chunks[c]) /\ f \in index[MonthOf(f)]
              /\ MonthOf(f) \in Int
<1>1. TypeOK /\ ChunkInv /\ IndexInv /\ ListInv /\ SelectInv
  BY DEF Inv
<1>2. c \in DOMAIN chunks
  <2>1. /\ Len(selected) \in Nat /\ DOMAIN selected = 1..Len(selected)
        /\ Len(chunks) \in Nat /\ DOMAIN chunks = 1..Len(chunks) /\ Len(selected) <= Len(chunks)
    BY <1>1, LenProperties DEF TypeOK, ListInv
  <2> QED
    BY <2>1
<1>3. ASSUME NEW f \in Held(index, FirstMonth(chunks[c]), LastMonth(chunks[c]))
      PROVE  /\ f \in File /\ f \in Calendar /\ f \in Int
             /\ MonthOf(f) \in Span(chunks[c]) /\ f \in index[MonthOf(f)]
             /\ MonthOf(f) \in Int
  <2>1. PICK m \in Span(chunks[c]) : f \in index[m]
    BY DEF Held, Span
  <2>2. m \in Month /\ index[m] # NotFetched
    BY <1>1, <1>2, <2>1, ChunkFacts DEF SelectInv
  <2>3. f \in File /\ MonthOf(f) = m
    BY <1>1, <2>1, <2>2 DEF IndexInv
  <2> QED
    BY <2>1, <2>2, <2>3, FilesInCalendar, Months
<1> QED
  BY <1>2, <1>3

\* For each chunk months_for_range and select_updates_for_range find every file that may have
\* messages of it, and at most one file that starts before it and one that starts after it.
THEOREM NeededFilesAreSelected == Spec => []NeededAreSelected
<1>1. Inv => NeededAreSelected
  <2> SUFFICES ASSUME Inv, NEW c \in DOMAIN selected
               PROVE  /\ published = 0 => Needed(archive, chunks[c]) \subseteq selected[c]
                      /\ \A f, g \in selected[c] :
                           /\ f < chunks[c].start /\ g < chunks[c].start => f = g
                           /\ f >= chunks[c].end /\ g >= chunks[c].end => f = g
    BY DEF NeededAreSelected
  <2> DEFINE r == chunks[c]
             S == Held(index, FirstMonth(r), LastMonth(r))
  <2>1. TypeOK /\ ChunkInv /\ IndexInv /\ SelectInv
    BY DEF Inv
  <2>2. c \in DOMAIN chunks
    BY HeldFiles
  <2>3. selected[c] = Select(S, r) /\ \A m \in Span(r) : index[m] # NotFetched
    BY <2>1 DEF SelectInv
  <2>4. /\ r.start \in Nat /\ r.end \in Nat /\ r.start < r.end /\ Duration \in Nat
        /\ r.start - Duration \in Calendar /\ r.end \in Calendar /\ Span(r) \subseteq Month
    BY <2>1, <2>2, ChunkFacts
  <2>5. \A f \in S : f \in Int
    BY HeldFiles
  <2>6. ASSUME NEW f \in selected[c], NEW g \in selected[c],
               \/ f < r.start /\ g < r.start
               \/ f >= r.end /\ g >= r.end
        PROVE  f = g
    <3> HIDE DEF S, r
    <3>1. f \in S /\ g \in S /\ f \in Int /\ g \in Int
      BY <2>3, <2>5 DEF Select
    <3>2. f <= g /\ g <= f
      BY <2>3, <2>6, <3>1 DEF Select
    <3> QED
      BY <3>1, <3>2
  <2>7. ASSUME published = 0, NEW f \in Needed(archive, r)
        PROVE  f \in selected[c]
    <3>1. PICK t \in r.start..r.end : f \in NearestBefore(archive, t) \cup NearestFrom(archive, t)
      BY DEF Needed
    <3>2. f \in archive /\ r.start - Duration <= f /\ f <= r.end
      BY <3>1 DEF Needed, NearestBefore, NearestFrom
    <3>3. f \in File /\ f \in Calendar /\ f \in Int
      BY <2>1, <3>2, FilesInCalendar DEF TypeOK
    <3>4. MonthOf(f) \in Span(r)
      <4>1. MonthOf(r.start - Duration) <= MonthOf(f) /\ MonthOf(f) <= MonthOf(r.end)
        BY <2>4, <3>2, <3>3, MonthOrder
      <4>2. MonthOf(f) \in Int
        BY <3>3, FilesInCalendar, Months
      <4> QED
        BY <4>1, <4>2 DEF Span, FirstMonth, LastMonth
    <3>5. \A m \in Span(r) : index[m] = Directory(m)
      BY <2>1, <2>3, <2>4, <2>7 DEF IndexInv
    <3>6. f \in S
      BY <3>2, <3>4, <3>5 DEF Held, Span, Directory
    <3>7. \A g \in S : g \in archive /\ g \in Int
      BY <2>5, <3>5 DEF Held, Span, Directory
    <3> HIDE DEF S, r
    <3>8. t \in Int /\ r.start <= t /\ t <= r.end
      BY <2>4
    <3>9. ASSUME NEW g \in S
          PROVE  (g < r.start => g <= f) /\ (g >= r.end => f <= g)
      <4>1. CASE f \in NearestBefore(archive, t)
        <5>1. f < t /\ (g < t => g <= f)
          BY <3>7, <4>1 DEF NearestBefore
        <5> QED
          BY <2>4, <3>3, <3>7, <3>8, <5>1
      <4>2. CASE f \in NearestFrom(archive, t)
        <5>1. f >= t /\ (g >= t => f <= g)
          BY <3>7, <4>2 DEF NearestFrom
        <5> QED
          BY <2>4, <3>3, <3>7, <3>8, <5>1
      <4> QED
        BY <3>1, <4>1, <4>2
    <3> QED
      BY <2>3, <3>6, <3>9 DEF Select
  <2> QED
    BY <2>6, <2>7
<1> QED
  BY <1>1, Invariance, PTL

\* Two chunks that meet have selected, on either side of their border, the same files.
LEMMA Borders == Inv => BordersAgree
<1> SUFFICES ASSUME Inv, NEW c \in 1..(Len(selected) - 1)
             PROVE  /\ \A f \in selected[c]     : f >= chunks[c].end => f \in selected[c + 1]
                    /\ \A f \in selected[c + 1] : f < chunks[c].end  => f \in selected[c]
  BY DEF BordersAgree
<1> DEFINE r == chunks[c]
           q == chunks[c + 1]
           S == Held(index, FirstMonth(r), LastMonth(r))
           T == Held(index, FirstMonth(q), LastMonth(q))
           b == r.end
<1>1. TypeOK /\ ChunkInv /\ SelectInv
  BY DEF Inv
<1>2. c \in DOMAIN selected /\ c + 1 \in DOMAIN selected /\ c \in Nat \ {0}
  BY <1>1, LenProperties DEF TypeOK
<1>3. c \in DOMAIN chunks /\ c + 1 \in DOMAIN chunks
  BY <1>2, HeldFiles
<1>4. q.start = b
  <2>1. (c + 1) - 1 = c /\ c + 1 # 1
    BY <1>2
  <2> QED
    BY <1>1, <1>3, <2>1 DEF ChunkInv, ChunksPartition
<1>5. selected[c] = Select(S, r) /\ selected[c + 1] = Select(T, q)
  BY <1>1, <1>2 DEF SelectInv
<1>6. /\ r.start \in Nat /\ b \in Nat /\ q.end \in Nat /\ r.start < b /\ b < q.end /\ Duration \in Nat
      /\ r.start - Duration \in Calendar /\ b - Duration \in Calendar
      /\ b \in Calendar /\ q.end \in Calendar
  BY <1>1, <1>3, <1>4, ChunkFacts
<1> DEFINE F1 == FirstMonth(r)
           L1 == LastMonth(r)
           F2 == FirstMonth(q)
           L2 == LastMonth(q)
<1>7. /\ F1 \in Int /\ L1 \in Int /\ F2 \in Int /\ L2 \in Int
      /\ F1 <= F2 /\ F2 <= L1 /\ L1 <= L2 /\ L1 = MonthOf(b)
  <2>1. F1 = MonthOf(r.start - Duration) /\ L1 = MonthOf(b) /\ F2 = MonthOf(b - Duration)
        /\ L2 = MonthOf(q.end)
    BY <1>4 DEF FirstMonth, LastMonth
  <2>2. r.start - Duration <= b - Duration /\ b - Duration <= b /\ b <= q.end
    BY <1>6
  <2>3. /\ MonthOf(r.start - Duration) \in Month /\ MonthOf(b) \in Month
        /\ MonthOf(b - Duration) \in Month /\ MonthOf(q.end) \in Month
    BY <1>6, MonthOfTick
  <2> HIDE DEF F1, F2, L1, L2
  <2>4. F1 <= F2 /\ F2 <= L1 /\ L1 <= L2
    BY <1>6, <2>1, <2>2, MonthOrder
  <2> QED
    BY <2>1, <2>3, <2>4, Months
<1>8. /\ \A f \in S : /\ f \in Calendar /\ f \in Int /\ MonthOf(f) \in F1..L1
                      /\ f \in index[MonthOf(f)] /\ MonthOf(f) \in Int
      /\ \A f \in T : /\ f \in Calendar /\ f \in Int /\ MonthOf(f) \in F2..L2
                      /\ f \in index[MonthOf(f)] /\ MonthOf(f) \in Int
  BY <1>2, HeldFiles DEF Span
<1>9. /\ \A f : f \in index[MonthOf(f)] /\ MonthOf(f) \in F1..L1 => f \in S
      /\ \A f : f \in index[MonthOf(f)] /\ MonthOf(f) \in F2..L2 => f \in T
  BY DEF Held
<1> HIDE DEF S, T, F1, L1, F2, L2, b
<1>10. ASSUME NEW f \in selected[c], f >= b
       PROVE  f \in selected[c + 1]
  <2>1. f \in S /\ (\A g \in S : g >= b => f <= g)
    BY <1>5 DEF Select, b
  <2>2. MonthOf(f) = L1
    <3>1. L1 <= MonthOf(f)
      BY <1>6, <1>7, <1>8, <1>10, <2>1, MonthOrder
    <3> QED
      BY <1>7, <1>8, <2>1, <3>1
  <2>3. f \in T
    BY <1>7, <1>8, <1>9, <2>1, <2>2
  <2>4. ASSUME NEW g \in T
        PROVE  (g < b => g <= f) /\ (g >= q.end => f <= g)
    <3>1. g < b => g <= f
      BY <1>6, <1>8, <1>10, <2>1, <2>4
    <3>2. ASSUME g >= q.end
          PROVE  f <= g
      <4>1. g >= b
        BY <1>6, <1>8, <2>4, <3>2
      <4>2. CASE MonthOf(g) <= L1
        <5>1. MonthOf(g) \in F1..L1 /\ g \in index[MonthOf(g)]
          BY <1>7, <1>8, <2>4, <4>2
        <5> QED
          BY <1>9, <2>1, <4>1, <5>1
      <4>3. CASE ~(MonthOf(g) <= L1)
        <5>1. MonthOf(f) < MonthOf(g)
          BY <1>7, <1>8, <2>2, <2>4, <4>3
        <5>2. f < g
          BY <1>8, <2>1, <2>4, <5>1, MonthsApart
        <5> QED
          BY <1>8, <2>1, <2>4, <5>2
      <4> QED
        BY <4>2, <4>3
    <3> QED
      BY <3>1, <3>2
  <2> QED
    BY <1>4, <1>5, <2>3, <2>4 DEF Select, b
<1>11. ASSUME NEW f \in selected[c + 1], f < b
       PROVE  f \in selected[c]
  <2>1. f \in T /\ (\A g \in T : g < b => g <= f)
    BY <1>4, <1>5 DEF Select
  <2>2. MonthOf(f) <= L1
    BY <1>6, <1>7, <1>8, <1>11, <2>1, MonthOrder
  <2>3. f \in S
    BY <1>7, <1>8, <1>9, <2>1, <2>2
  <2>4. ASSUME NEW g \in S
        PROVE  (g < r.start => g <= f) /\ (g >= b => f <= g)
    <3>1. g >= b => f <= g
      BY <1>6, <1>8, <1>11, <2>1, <2>4
    <3>2. ASSUME g < r.start
          PROVE  g <= f
      <4>1. g < b
        BY <1>6, <1>8, <2>4, <3>2
      <4>2. CASE F2 <= MonthOf(g)
        <5>1. MonthOf(g) \in F2..L2 /\ g \in index[MonthOf(g)]
          BY <1>7, <1>8, <2>4, <4>2
        <5> QED
          BY <1>9, <2>1, <4>1, <5>1
      <4>3. CASE ~(F2 <= MonthOf(g))
        <5>1. MonthOf(g) < MonthOf(f)
          BY <1>7, <1>8, <2>1, <2>4, <4>3
        <5>2. g < f
          BY <1>8, <2>1, <2>4, <5>1, MonthsApart
        <5> QED
          BY <1>8, <2>1, <2>4, <5>2
      <4> QED
        BY <4>2, <4>3
    <3> QED
      BY <3>1, <3>2
  <2> QED
    BY <1>5, <2>3, <2>4 DEF Select, b
<1> QED
  BY <1>10, <1>11 DEF b

\* fetch_routeviews_month_index lists a month once for the whole process: so chunks that meet read
\* the same files at their border, and a chunk that is resolved again for its recovery resolves to
\* the files of the plan, although the archive goes on publishing.
THEOREM ListingsOfOneRunAgree == Spec => []ListingsAgree
<1>1. Inv => ListingsAgree
  BY Borders DEF Inv, SelectInv, ListingsAgree
<1> QED
  BY <1>1, Invariance, PTL
=============================================================================
