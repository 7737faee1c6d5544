-------------------------- MODULE ArchiveSelection --------------------------
(***************************************************************************)
(* Which files an analysis of a Route Views collector reads: the range of   *)
(* days is split into chunks (split_range_by_chunks, cpp/src/common.cpp),   *)
(* and for each chunk the month directories it may touch are listed and the *)
(* files around it selected (cpp/src/routeviews_archive.cpp), each month    *)
(* once per process (fetch_routeviews_month_index, download_client.cpp),    *)
(* while the archive goes on to publish files.                              *)
(*                                                                          *)
(* Time is counted in ticks. The name of a file is the time it starts       *)
(* (parse_update_filename), so a file stands for that tick here.            *)
(***************************************************************************)
EXTENDS Integers, Sequences, FiniteSets

CONSTANTS
  File,          \* the files the archive may hold
  Day,           \* ticks of a day
  Duration,      \* kUpdateDurationSeconds: ticks of a file
  MonthStart,    \* MonthStart[m]: the first tick of month m
  Ranges,        \* the ranges a run may have: records [start, end) of whole days
  Units,         \* the chunk units: pairs <<"day" or "month", chunk_size>>
  NotFetched,    \* the value of a month whose listing was not fetched yet
  MaxPublished   \* bound on files published during the run

Month == 1..(Len(MonthStart) - 1)

\* Every tick the program computes with lies in the calendar.
ASSUME ConstantsOK ==
  /\ Day \in Nat \ {0} /\ Duration \in 1..(Day - 1)
  /\ MonthStart \in Seq(Nat) /\ MonthStart # <<>>
  /\ \A m \in Month : MonthStart[m] < MonthStart[m + 1]
  /\ \A m \in DOMAIN MonthStart : MonthStart[m] % Day = 0
  /\ File \subseteq MonthStart[1]..(MonthStart[Len(MonthStart)] - 1)
  /\ \A r \in Ranges :
       /\ r.start \in Nat /\ r.end \in Nat /\ r.start % Day = 0 /\ r.end % Day = 0
       /\ MonthStart[1] + Duration <= r.start /\ r.start < r.end
       /\ r.end < MonthStart[Len(MonthStart)]
  /\ \A u \in Units : u[1] \in {"day", "month"} /\ u[2] \in Nat \ {0}
  /\ \A listing \in SUBSET File : listing # NotFetched
  /\ MaxPublished \in Nat

VARIABLES
  range,      \* the range of the run
  unit,       \* chunk_unit and chunk_size
  archive,    \* the files on the server
  index,      \* the listings fetched by this process, by month
  main,       \* "split", "plan", "recover" or "failed"
  chunks,     \* split_range_by_chunks: the chunks so far
  at,         \* the chunk whose files are being listed
  entries,    \* the entries of the months listed for it
  fetched,    \* the last of these months
  selected,   \* the targets of the chunks planned
  again,      \* the chunk last resolved a second time, and the targets found then
  published   \* files published so far

vars == <<range, unit, archive, index, main, chunks, at, entries, fetched, selected, again,
          published>>

-----------------------------------------------------------------------------

\* The month of a tick (utc_year_month), and the files its directory lists.
MonthOf(t) == CHOOSE m \in Month : MonthStart[m] <= t /\ t < MonthStart[m + 1]
Directory(m) == {f \in archive : MonthOf(f) = m}
Least(a, b) == IF a < b THEN a ELSE b

\* first_day_of_next_month (the calendar ends later than any range)
FirstDayOfMonth(m) == MonthStart[Least(m, Len(MonthStart))]

NextBoundary(t) ==
  IF unit[1] = "day" THEN t + unit[2] * Day ELSE FirstDayOfMonth(MonthOf(t) + unit[2])

ChunkStart == IF chunks = <<>> THEN range.start ELSE chunks[Len(chunks)].end

\* Mutant of ChunkEnd: the last chunk is not cut at the end of the range.
ChunkEndUncut(t) == NextBoundary(t)
ChunkEnd(t) == Least(NextBoundary(t), range.end)

\* Mutant of FirstMonth: one month too early.
FirstMonthTooEarly(r) == MonthOf(r.start - Duration) - 1

\* months_for_range
FirstMonth(r) == MonthOf(r.start - Duration)
LastMonth(r)  == MonthOf(r.end)

\* Mutant of Select: the files that start inside the range.
SelectInside(files, r) == {f \in files : r.start <= f /\ f < r.end}

\* select_updates_for_range: from the last file before the range to the first at or after
\* its end.
Select(files, r) ==
  {f \in files :
     /\ \A g \in files : g < r.start => g <= f
     /\ \A g \in files : g >= r.end => f <= g}

-----------------------------------------------------------------------------

Init ==
  /\ range \in Ranges
  /\ unit \in Units
  /\ archive \in SUBSET File
  /\ index = [m \in Month |-> NotFetched]
  /\ main = "split"
  /\ chunks = <<>>
  /\ at = 0
  /\ entries = {}
  /\ fetched = 0
  /\ selected = <<>>
  /\ again = [chunk |-> 0, targets |-> {}]
  /\ published = 0

\* Listing of a chunk begins.
Begin(c) ==
  /\ at' = c
  /\ entries' = {}
  /\ fetched' = FirstMonth(chunks[c]) - 1

\* One turn of the loop of split_range_by_chunks.
Split ==
  /\ main = "split"
  /\ ChunkStart < range.end
  /\ chunks' = Append(chunks, [start |-> ChunkStart, end |-> ChunkEnd(ChunkStart)])
  /\ UNCHANGED <<range, unit, archive, index, main, at, entries, fetched, selected, again,
                 published>>

EndSplit ==
  /\ main = "split"
  /\ ChunkStart >= range.end
  /\ main' = "plan"
  /\ Begin(1)
  /\ UNCHANGED <<range, unit, archive, index, chunks, selected, again, published>>

\* Mutant of Listing: the index of a month is fetched each time it is needed.
ListingAnew(m) == Directory(m)

\* fetch_routeviews_month_index: one listing of a month serves the whole process.
Listing(m) == IF index[m] = NotFetched THEN Directory(m) ELSE index[m]

Listed == fetched >= LastMonth(chunks[at])

FetchMonth ==
  LET m == fetched + 1
  IN  /\ main \in {"plan", "recover"}
      /\ at > 0
      /\ ~Listed
      /\ index' = [index EXCEPT ![m] = Listing(m)]
      /\ entries' = entries \cup Listing(m)
      /\ fetched' = m
      /\ UNCHANGED <<range, unit, archive, main, chunks, at, selected, again, published>>

\* The index of a month cannot be fetched.
FetchFails ==
  /\ main = "plan"
  /\ ~Listed
  /\ index[fetched + 1] = NotFetched
  /\ main' = "failed"
  /\ UNCHANGED <<range, unit, archive, index, chunks, at, entries, fetched, selected, again,
                 published>>

\* collect_targets of the plan; then the next chunk.
PlanTargets ==
  /\ main = "plan"
  /\ Listed
  /\ selected' = Append(selected, Select(entries, chunks[at]))
  /\ IF at < Len(chunks)
     THEN Begin(at + 1) /\ UNCHANGED main
     ELSE main' = "recover" /\ at' = 0 /\ UNCHANGED <<entries, fetched>>
  /\ UNCHANGED <<range, unit, archive, index, chunks, again, published>>

\* download_range of a chunk that lacks source files resolves its files again, chunk after
\* chunk; the months are those of the plan.
RecoverChunk ==
  /\ main = "recover"
  /\ at = 0
  /\ \E c \in DOMAIN chunks : c > again.chunk /\ Begin(c)
  /\ UNCHANGED <<range, unit, archive, index, main, chunks, selected, again, published>>

ResolveAgain ==
  /\ main = "recover"
  /\ at > 0
  /\ Listed
  /\ again' = [chunk |-> at, targets |-> Select(entries, chunks[at])]
  /\ at' = 0
  /\ UNCHANGED <<range, unit, archive, index, main, chunks, entries, fetched, selected,
                 published>>

\* The archive publishes a file.
PublishFile ==
  /\ published < MaxPublished
  /\ \E f \in File \ archive : archive' = archive \cup {f}
  /\ published' = published + 1
  /\ UNCHANGED <<range, unit, index, main, chunks, at, entries, fetched, selected, again>>

-----------------------------------------------------------------------------

Discover ==
  \/ Split \/ EndSplit \/ FetchMonth \/ FetchFails \/ PlanTargets
  \/ RecoverChunk \/ ResolveAgain

Next == Discover \/ PublishFile

Spec == Init /\ [][Next]_vars

-----------------------------------------------------------------------------
(* Properties.                                                             *)

TimeRange == [start : Nat, end : Nat]

TypeOK ==
  /\ range \in Ranges
  /\ unit \in Units
  /\ archive \subseteq File
  /\ index \in [Month -> (SUBSET File) \cup {NotFetched}]
  /\ main \in {"split", "plan", "recover", "failed"}
  /\ chunks \in Seq(TimeRange)
  /\ at \in 0..Len(chunks)
  /\ entries \subseteq File
  /\ fetched \in 0..Len(MonthStart)
  /\ selected \in Seq(SUBSET File)
  /\ again \in [chunk : 0..Len(chunks), targets : SUBSET File]
  /\ published \in 0..MaxPublished

\* The chunks made so far follow each other from the start of the range without gap or
\* overlap, none is empty, and when all are made they end with the range; so a message of
\* the range is of one chunk, and one outside of none.
ChunksPartition ==
  /\ \A c \in DOMAIN chunks :
       /\ chunks[c].start = IF c = 1 THEN range.start ELSE chunks[c - 1].end
       /\ chunks[c].start < chunks[c].end /\ chunks[c].end <= range.end
  /\ main # "split" => ChunkStart = range.end

\* The files of S next to t on either side.
NearestBefore(S, t) == {f \in S : f < t /\ \A g \in S : g < t => g <= f}
NearestFrom(S, t)   == {f \in S : f >= t /\ \A g \in S : g >= t => f <= g}

\* The files that may have messages of r: those next to one of its times, unless they
\* lie further away than a file lasts.
Needed(S, r) ==
  {f \in UNION {NearestBefore(S, t) \cup NearestFrom(S, t) : t \in r.start..r.end} :
     r.start - Duration <= f /\ f <= r.end}

\* Each chunk gets every file that may have messages of it, across the borders of months,
\* and at most one file that starts before it and one that starts after it.
NeededAreSelected ==
  \A c \in DOMAIN selected :
    /\ published = 0 => Needed(archive, chunks[c]) \subseteq selected[c]
    /\ \A f, g \in selected[c] :
         /\ f < chunks[c].start /\ g < chunks[c].start => f = g
         /\ f >= chunks[c].end /\ g >= chunks[c].end => f = g

\* Two chunks that meet agree on the files at their border, although the archive goes on
\* publishing between their listings: what one of them reads beyond the border the other
\* reads too.
BordersAgree ==
  \A c \in 1..(Len(selected) - 1) :
    LET border == chunks[c].end
    IN  /\ \A f \in selected[c]     : f >= border => f \in selected[c + 1]
        /\ \A f \in selected[c + 1] : f < border  => f \in selected[c]

\* The recovery of a chunk resolves to the files of the plan, so that what it downloads
\* is what the chunk lacks.
RecoverySeesThePlan == again.chunk # 0 => again.targets = selected[again.chunk]

\* The listings of one run agree, although each is taken at a time of its own.
ListingsAgree == BordersAgree /\ RecoverySeesThePlan

=============================================================================
