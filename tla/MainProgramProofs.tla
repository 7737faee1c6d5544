-------------------------- MODULE MainProgramProofs --------------------------
(***************************************************************************)
(* Theorems about MainProgram, for any inputs, plugins and MRT files: the   *)
(* life of the plugin, what the record file tells, the cache builder's       *)
(* threads, the configuration, and the types.                               *)
(***************************************************************************)
EXTENDS MainProgram, NaturalFacts, FiniteSetTheorems, SequenceTheorems, TLAPS

-----------------------------------------------------------------------------
(* The life of the plugin.                                                 *)

\* Where the main thread is in download and preparse, and where it has ended.
Preparing == {"collect", "download", "check", "inspect", "join", "report"}
Leaving   == {"unwind", "destroy", "close", "exited"}

\* What exists at each place of the main thread; where an exception is on its way; and
\* which exit status has been decided.
LifeInv ==
  /\ pc \in Place
  /\ fault \in {"none", "program", "plugin"}
  /\ exit \in {NoExit, 0, 1}
  /\ handle \in {"none", "open", "closed"}
  /\ processor \in {"none", "live", "destroyed"}
  /\ engine \in BOOLEAN
  /\ fault # "none" => pc \in {"catch", "tell"}
  /\ exit # NoExit <=> pc \in Leaving
  /\ pc \in {"parse", "resolve", "open"} \cup Preparing => handle = "none" /\ processor = "none"
  /\ pc \in {"symbols", "create"} => handle = "open" /\ processor = "none"
  /\ pc \in {"engine", "run", "summary", "success", "destroy"} =>
       handle = "open" /\ processor = "live"
  /\ pc = "close" => handle = "open" /\ processor = "destroyed"
  /\ pc \in {"run", "summary", "success"} => engine
  /\ engine => processor = "live" /\ pc \in {"run", "summary", "success", "catch", "tell", "unwind"}
  /\ processor = "live" \/ fault = "plugin" => handle = "open"
  /\ processor = "destroyed" => pc \in {"close", "exited"}
  /\ pc = "exited" => processor # "live"
  /\ handle = "open" /\ processor = "none" /\ pc \in Leaving => exit = 1
  /\ pc = "exited" /\ processor = "destroyed" => handle = "closed"

LEMMA LifeInit == Init => LifeInv
BY DEF Init, LifeInv, Place, Preparing, Leaving, NoExit

\* What every step does to the places and the plugin.
LEMMA LifeNext == LifeInv /\ [Next]_vars => LifeInv'
<1> SUFFICES ASSUME LifeInv, [Next]_vars PROVE LifeInv'
  OBVIOUS
<1> USE DEF LifeInv, Place, Preparing, Leaving, NoExit, GoTo, Throw, program, plugin, preparse
<1>1. CASE ParseArgs
  BY <1>1 DEF ParseArgs
<1>2. CASE CollectTargets
  BY <1>2 DEF CollectTargets
<1>3. CASE DownloadRange
  BY <1>3 DEF DownloadRange
<1>4. CASE CheckDownload
  BY <1>4 DEF CheckDownload
<1>5. CASE InspectCaches
  BY <1>5 DEF InspectCaches
<1>6. CASE \E w \in Worker : ClaimFile(w) \/ BuildCache(w) \/ TellResult(w)
  BY <1>6 DEF ClaimFile, BuildCache, TellResult, thread
<1>7. CASE JoinBuilders
  BY <1>7 DEF JoinBuilders
<1>8. CASE ReportPreparse
  BY <1>8 DEF ReportPreparse
<1>9. CASE ResolvePlugin
  BY <1>9 DEF ResolvePlugin
<1>10. CASE OpenLibrary
  BY <1>10 DEF OpenLibrary
<1>11. CASE CheckSymbols
  BY <1>11 DEF CheckSymbols
<1>12. CASE CreateProcessor
  BY <1>12 DEF CreateProcessor, Throwing
<1>13. CASE CreateEngine
  BY <1>13 DEF CreateEngine
<1>14. CASE RunChunk
  BY <1>14 DEF RunChunk
<1>15. CASE RunFails
  BY <1>15 DEF RunFails
<1>16. CASE RunEnds
  BY <1>16 DEF RunEnds
<1>17. CASE PrintSummary
  BY <1>17 DEF PrintSummary
<1>18. CASE RecordSuccess
  BY <1>18 DEF RecordSuccess
<1>19. CASE RecordFailure
  BY <1>19 DEF RecordFailure
<1>20. CASE PrintFault
  BY <1>20 DEF PrintFault
<1>21. CASE DestroyEngine
  BY <1>21 DEF DestroyEngine
<1>22. CASE DestroyProcessor
  BY <1>22 DEF DestroyProcessor
<1>23. CASE CloseLibrary
  BY <1>23 DEF CloseLibrary
<1>24. CASE UNCHANGED vars
  BY <1>24 DEF vars
<1> QED
  BY <1>1, <1>2, <1>3, <1>4, <1>5, <1>6, <1>7, <1>8, <1>9, <1>10, <1>11, <1>12, <1>13,
     <1>14, <1>15, <1>16, <1>17, <1>18, <1>19, <1>20, <1>21, <1>22, <1>23, <1>24
     DEF Next, Exited

\* main.cpp: whatever throws, and wherever, the plugin's library is open while its code
\* runs or its exception lives, and it is closed at the end unless its constructor threw.
THEOREM PluginIsKept == Spec => []PluginOutlivesItsUse
<1>1. LifeInv => PluginOutlivesItsUse
  BY DEF LifeInv, PluginOutlivesItsUse, Leaving, Preparing, Place, NoExit
<1> QED
  BY <1>1, LifeInit, LifeNext, PTL DEF Spec
-----------------------------------------------------------------------------
(* The record file.                                                        *)

\* Before the end is decided no whole "success" stands in the file, and exit status 0 was
\* decided when one was appended, or without a processor.
RecordInv ==
  /\ records \in Seq([status : Status, whole : BOOLEAN])
  /\ exit # 0 => \A i \in 1..Len(records) : records[i] # Entry("success", TRUE)
  /\ RecordTellsTheEnd

LEMMA RecordInit == Init => RecordInv
BY EmptySeq DEF Init, RecordInv, RecordTellsTheEnd, NoExit

\* An entry that is no whole "success" leaves those before it as they are.
LEMMA AppendedEntry ==
  ASSUME RecordInv, NEW status \in Status, NEW whole \in BOOLEAN,
         records' = Append(records, Entry(status, whole))
  PROVE  /\ records' \in Seq([status : Status, whole : BOOLEAN])
         /\ Len(records') = Len(records) + 1 /\ records' # <<>>
         /\ records'[Len(records')] = Entry(status, whole)
         /\ \A i \in 1..Len(records) : records'[i] = records[i]
         /\ DOMAIN records' = 1..Len(records')
<1>1. Entry(status, whole) \in [status : Status, whole : BOOLEAN]
  BY DEF Entry
<1> QED
  BY <1>1, AppendProperties, LenProperties DEF RecordInv

\* The steps that write no record decide the exit status once, and exit status 0 only
\* without a processor.
LEMMA Unrecorded ==
  ASSUME LifeInv, [Next]_vars, ~(RunChunk \/ RecordSuccess \/ RecordFailure)
  PROVE  /\ UNCHANGED records
         /\ UNCHANGED exit \/ (exit = NoExit /\ (exit' = 1 \/ processor' = "none"))
         /\ \/ UNCHANGED processor
            \/ processor = "live" /\ processor' = "destroyed"
            \/ processor = "none" /\ processor' = "live" /\ exit = NoExit /\ exit' = NoExit
<1> USE DEF GoTo, Throw, program, plugin, preparse, LifeInv, Leaving, Preparing
<1>1. CASE \E w \in Worker : ClaimFile(w) \/ BuildCache(w) \/ TellResult(w)
  BY <1>1 DEF ClaimFile, BuildCache, TellResult, thread
<1>2. CASE ParseArgs \/ ReportPreparse
  BY <1>2 DEF ParseArgs, ReportPreparse
<1>3. CASE CollectTargets \/ DownloadRange \/ CheckDownload \/ InspectCaches \/ JoinBuilders
  BY <1>3 DEF CollectTargets, DownloadRange, CheckDownload, InspectCaches, JoinBuilders
<1>4. CASE ResolvePlugin \/ OpenLibrary \/ CheckSymbols \/ CreateProcessor \/ CreateEngine
  BY <1>4 DEF ResolvePlugin, OpenLibrary, CheckSymbols, CreateProcessor, Throwing, CreateEngine
<1>5. CASE RunFails \/ RunEnds \/ PrintSummary \/ PrintFault
  BY <1>5 DEF RunFails, RunEnds, PrintSummary, PrintFault
<1>6. CASE DestroyEngine \/ DestroyProcessor \/ CloseLibrary
  BY <1>6 DEF DestroyEngine, DestroyProcessor, CloseLibrary
<1>7. CASE UNCHANGED vars
  BY <1>7 DEF vars
<1> QED
  BY <1>1, <1>2, <1>3, <1>4, <1>5, <1>6, <1>7 DEF Next, Exited

\* Of what is recorded only RecordSuccess decides the exit status.
LEMMA RecordNext == LifeInv /\ RecordInv /\ [Next]_vars => RecordInv'
<1> SUFFICES ASSUME LifeInv, RecordInv, [Next]_vars PROVE RecordInv'
  OBVIOUS
<1>1. /\ DOMAIN records = 1..Len(records) /\ Len(records) \in Nat
      /\ processor = "none" => DOMAIN records = {}
  BY LenProperties, EmptySeq DEF RecordInv, RecordTellsTheEnd
<1>2. NoExit \notin {0, 1}
  BY DEF NoExit
<1>3. ASSUME UNCHANGED <<records, exit, processor>>
      PROVE  RecordInv'
  BY <1>3 DEF RecordInv, RecordTellsTheEnd
<1>4. ASSUME NEW status \in Status, NEW whole \in BOOLEAN, UNCHANGED <<exit, processor>>,
             records' = Append(records, Entry(status, whole)),
             exit = NoExit, processor = "live", status # "success" \/ ~whole
      PROVE  RecordInv'
  <2>1. Entry(status, whole) # Entry("success", TRUE)
    BY <1>4 DEF Entry
  <2>2. /\ records' \in Seq([status : Status, whole : BOOLEAN])
        /\ Len(records') = Len(records) + 1
        /\ records'[Len(records')] = Entry(status, whole)
        /\ \A i \in 1..Len(records) : records'[i] = records[i]
        /\ DOMAIN records' = 1..Len(records')
    BY <1>4, AppendedEntry
  <2>3. \A i \in 1..Len(records) : records[i] # Entry("success", TRUE)
    BY <1>2, <1>4 DEF RecordInv
  <2>4. \A i \in 1..Len(records') : records'[i] # Entry("success", TRUE)
    <3>1. \A i \in 1..Len(records') : i \in 1..Len(records) \/ i = Len(records')
      BY <1>1, <2>2
    <3> QED
      BY <2>1, <2>2, <2>3, <3>1
  <2> QED
    BY <1>2, <1>4, <2>2, <2>4 DEF RecordInv, RecordTellsTheEnd
<1>5. CASE RunChunk \/ RecordFailure
  <2>1. exit = NoExit /\ UNCHANGED <<exit, processor>>
    BY <1>5 DEF RunChunk, RecordFailure, LifeInv, Leaving, GoTo, Throw, plugin
  <2>2. \/ UNCHANGED records
        \/ engine /\ \E status \in {"chunk-complete", "failed"}, whole \in BOOLEAN :
                       records' = Append(records, Entry(status, whole))
    <3>1. CASE RunChunk
      BY <3>1 DEF RunChunk, GoTo, Throw, Recorded, NotOpened, SummaryThrew, LifeInv
    <3>2. CASE RecordFailure
      BY <3>2 DEF RecordFailure, Recorded, NotOpened, SummaryThrew
    <3> QED
      BY <1>5, <3>1, <3>2
  <2>3. CASE UNCHANGED records
    BY <1>3, <2>1, <2>3
  <2>4. CASE ~UNCHANGED records
    <3>1. PICK status \in {"chunk-complete", "failed"}, whole \in BOOLEAN :
            records' = Append(records, Entry(status, whole))
      BY <2>2, <2>4
    <3>2. processor = "live"
      BY <2>2, <2>4 DEF LifeInv
    <3> QED
      BY <1>4, <2>1, <3>1, <3>2 DEF Status
  <2> QED
    BY <2>3, <2>4
<1>6. CASE RecordSuccess
  <2>1. exit = NoExit /\ processor = "live" /\ UNCHANGED processor
    BY <1>6 DEF RecordSuccess, LifeInv, Leaving, plugin, Throw
  <2>2. CASE Throw("success", "program") /\ NotOpened
    BY <1>3, <2>1, <2>2 DEF NotOpened, Throw
  <2>3. CASE Throw("success", "plugin") /\ SummaryThrew("success")
    BY <1>4, <2>1, <2>3 DEF SummaryThrew, Throw, Status
  <2>4. CASE Recorded("success") /\ exit' = 0
    <3>1. PICK whole \in BOOLEAN : records' = Append(records, Entry("success", whole))
      BY <2>4 DEF Recorded
    <3>2. /\ records' \in Seq([status : Status, whole : BOOLEAN])
          /\ Len(records') = Len(records) + 1 /\ records' # <<>>
          /\ records'[Len(records')] = Entry("success", whole)
          /\ \A i \in 1..Len(records) : records'[i] = records[i]
          /\ DOMAIN records' = 1..Len(records')
      BY <3>1, AppendedEntry DEF Status
    <3>3. \A i \in 1..Len(records) : records[i] # Entry("success", TRUE)
      BY <1>2, <2>1 DEF RecordInv
    <3>4. \A i \in DOMAIN records' : records'[i] = Entry("success", TRUE) => i = Len(records')
      <4>1. \A i \in 1..Len(records') : i \in 1..Len(records) \/ i = Len(records')
        BY <1>1, <3>2
      <4> QED
        BY <3>2, <3>3, <4>1
    <3>5. records'[Len(records')].status = "success"
      BY <3>2 DEF Entry
    <3> QED
      BY <2>1, <2>4, <3>2, <3>4, <3>5 DEF RecordInv, RecordTellsTheEnd
  <2> QED
    BY <1>6, <2>2, <2>3, <2>4 DEF RecordSuccess
<1>7. CASE ~(RunChunk \/ RecordSuccess \/ RecordFailure)
  <2>1. CASE processor = "none" /\ processor' = "live" /\ exit' = NoExit
    BY <1>1, <1>2, <1>7, <2>1, Unrecorded DEF RecordInv, RecordTellsTheEnd
  <2>2. CASE ~(processor = "none" /\ processor' = "live" /\ exit' = NoExit)
    <3>1. UNCHANGED records
      BY <1>7, Unrecorded
    <3>2. exit = NoExit => \A i \in 1..Len(records) : records[i] # Entry("success", TRUE)
      BY <1>2 DEF RecordInv
    <3>3. processor' = "none" <=> processor = "none"
      BY <1>7, <2>2, Unrecorded
    <3>4. UNCHANGED exit \/ (exit = NoExit /\ (exit' = 1 \/ processor' = "none"))
      BY <1>7, Unrecorded
    <3>5. CASE UNCHANGED exit
      BY <3>1, <3>3, <3>5 DEF RecordInv, RecordTellsTheEnd
    <3>6. CASE exit = NoExit /\ exit' = 1
      <4>1. \A i \in DOMAIN records : records[i] # Entry("success", TRUE)
        BY <1>1, <3>2, <3>6
      <4>2. (records \in Seq([status : Status, whole : BOOLEAN]))'
        BY <3>1 DEF RecordInv
      <4>3. (exit # 0 => \A i \in 1..Len(records) : records[i] # Entry("success", TRUE))'
        BY <3>1, <3>2, <3>6
      <4>4. RecordTellsTheEnd'
        <5>1. processor' = "none" => records' = <<>>
          BY <3>1, <3>3 DEF RecordInv, RecordTellsTheEnd
        <5>2. exit' # 0
          BY <3>6
        <5>3. \A i \in DOMAIN records' : records'[i] # Entry("success", TRUE)
          BY <3>1, <4>1
        <5> QED
          BY <5>1, <5>2, <5>3 DEF RecordTellsTheEnd
      <4> QED
        BY <4>2, <4>3, <4>4 DEF RecordInv
    <3>7. CASE processor' = "none"
      <4>1. records = <<>> /\ DOMAIN records = {} /\ 1..Len(records) = {}
        BY <1>1, <3>3, <3>7 DEF RecordInv, RecordTellsTheEnd
      <4> QED
        BY <3>1, <3>7, <4>1 DEF RecordInv, RecordTellsTheEnd
    <3> QED
      BY <3>4, <3>5, <3>6, <3>7
  <2> QED
    BY <2>1, <2>2
<1> QED
  BY <1>5, <1>6, <1>7

\* main.cpp and the record: a whole "success" is the last entry of a run that exits with
\* 0, and exit status 0 of an analysis has "success" as the last entry.
THEOREM RecordIsTrue == Spec => []RecordTellsTheEnd
<1>1. RecordInv => RecordTellsTheEnd
  BY DEF RecordInv
<1> QED
  BY <1>1, LifeInit, LifeNext, RecordInit, RecordNext, PTL DEF Spec
-----------------------------------------------------------------------------
(* The threads of ensure_parsed_caches.                                    *)

\* SetToSeq lists a finite set, each element once.
LEMMA ListedOnce ==
  ASSUME NEW S, IsFiniteSet(S)
  PROVE  /\ SetToSeq(S) \in Seq(S)
         /\ Len(SetToSeq(S)) = Cardinality(S)
         /\ \A x \in S : \E i \in 1..Len(SetToSeq(S)) : SetToSeq(S)[i] = x
<1> DEFINE n == Cardinality(S)
<1>1. n \in Nat /\ ExistsBijection(1..n, S)
  BY FS_CardinalityType
<1>2. PICK b \in Bijection(1..n, S) : TRUE
  BY <1>1 DEF ExistsBijection
<1>3. b \in [1..n -> S] /\ IsInjective(b)
  BY <1>2 DEF Bijection, Injection
<1>4. SetToSeq(S) \in [1..n -> S] /\ IsInjective(SetToSeq(S))
  BY <1>3 DEF SetToSeq
<1>5. SetToSeq(S) \in Injection(1..n, S)
  BY <1>4 DEF Injection
<1>6. Cardinality(1..n) = n
  BY <1>1, FS_Interval
<1>7. SetToSeq(S) \in Surjection(1..n, S)
  BY <1>5, <1>6, FS_Injection
<1>8. SetToSeq(S) \in Seq(S) /\ Len(SetToSeq(S)) = n
  BY <1>1, <1>4, SeqDef, LenProperties
<1> QED
  BY <1>7, <1>8 DEF Surjection

Busy == {w \in Worker : worker[w].at \in {"build", "tell"}}
Told == summary.generated + Len(summary.failures)

WorkerState == [at : {"off", "claim", "build", "tell"}, index : Nat, built : BOOLEAN]

\* Claimed indexes are in range, past and distinct; they and the files told are those before
\* next_index; threads run only while they are waited for, and do not all end before the
\* last file is claimed.
ThreadInv ==
  /\ targets \subseteq Source /\ mrt \subseteq Source /\ caches \subseteq mrt
  /\ pending \in Seq(mrt)
  /\ next \in Nat \ {0}
  /\ worker \in [Worker -> WorkerState]
  /\ summary \in [reused : Nat, generated : Nat, failures : Seq(Source)]
  /\ \A w \in Busy : worker[w].index \in 1..Len(pending) /\ worker[w].index < next
  /\ \A v, w \in Busy : v # w => worker[v].index # worker[w].index
  /\ Told + Cardinality(Busy) = IF next > Len(pending) THEN Len(pending) ELSE next - 1
  /\ pc # "join" => \A w \in Worker : worker[w].at = "off"
  /\ pc = "join" => next > Len(pending) \/ \E w \in Worker : worker[w].at # "off"

\* There are finitely many threads, and with none of them busy the count is that of the
\* files told.
LEMMA BusyFinite ==
  /\ IsFiniteSet(Busy) /\ Cardinality(Busy) \in Nat
  /\ IsFiniteSet(Busy') /\ Cardinality(Busy') \in Nat
  /\ (\A w \in Worker : worker[w].at = "off") => Cardinality(Busy) = 0
  /\ (\A w \in Worker : worker'[w].at \in {"off", "claim"}) => Cardinality(Busy') = 0
<1>1. IsFiniteSet(Worker)
  <2> DEFINE top == 3
  <2>1. Worker = 1..top /\ 1 \in Int /\ top \in Int
    BY DEF Worker
  <2> HIDE DEF top
  <2> QED
    BY <2>1, FS_Interval
<1>2. Busy \subseteq Worker /\ Busy' \subseteq Worker
  BY DEF Busy
<1>3. IsFiniteSet(Busy) /\ IsFiniteSet(Busy')
  BY <1>1, <1>2, FS_Subset
<1>4. (\A w \in Worker : worker[w].at = "off") => Busy = {}
  BY DEF Busy
<1>5. (\A w \in Worker : worker'[w].at \in {"off", "claim"}) => Busy' = {}
  BY DEF Busy
<1> QED
  BY <1>3, <1>4, <1>5, FS_CardinalityType, FS_EmptySet

LEMMA ThreadInit == Init => ThreadInv
<1> SUFFICES ASSUME Init PROVE ThreadInv
  OBVIOUS
<1>1. Busy = {} /\ Cardinality(Busy) = 0
  BY FS_EmptySet DEF Init, Busy, Idle
<1>2. worker \in [Worker -> WorkerState] /\ \A w \in Worker : worker[w].at = "off"
  BY DEF Init, Idle, WorkerState
<1>3. pending = <<>> /\ next = 1 /\ pc = "parse" /\ pending \in Seq(mrt) /\ Len(pending) = 0
  BY EmptySeq DEF Init
<1>4. /\ summary \in [reused : Nat, generated : Nat, failures : Seq(Source)]
      /\ Told = 0
  BY EmptySeq DEF Init, NoSummary, Told
<1>5. targets \subseteq Source /\ mrt \subseteq Source /\ caches \subseteq mrt
  BY InputsOK DEF Init
<1> QED
  BY <1>1, <1>2, <1>3, <1>4, <1>5 DEF ThreadInv

\* The record of a thread that has claimed a file.
LEMMA BuildingState ==
  ASSUME NEW n \in Nat
  PROVE  LET e == [Idle EXCEPT !.at = "build", !.index = n]
         IN  e \in WorkerState /\ e.at = "build" /\ e.index = n
<1> DEFINE r1 == [Idle EXCEPT !.at = "build"]
           r2 == [r1 EXCEPT !.index = n]
<1>1. r1 \in WorkerState /\ r1.at = "build"
  BY DEF Idle, WorkerState
<1>2. r2 \in WorkerState /\ r2.at = "build" /\ r2.index = n
  <2> HIDE DEF r1
  <2> QED
    BY <1>1 DEF WorkerState
<1>3. [Idle EXCEPT !.at = "build", !.index = n] = r2
  BY Zenon
<1> QED
  BY <1>2, <1>3

\* A thread claims the next file.
LEMMA ThreadClaims ==
  ASSUME ThreadInv, NEW w \in Worker, ClaimFile(w)
  PROVE  ThreadInv'
<1> USE DEF thread, program, plugin
<1>1. pc = "join" /\ w \notin Busy /\ next \in Nat \ {0} /\ Len(pending) \in Nat
  BY LenProperties DEF ThreadInv, ClaimFile, Busy
<1>2. UNCHANGED <<targets, mrt, caches, pending, summary, pc>> /\ next' = next + 1
  BY DEF ClaimFile
<1>3. CASE next > Len(pending)
  <2>1. worker' = [worker EXCEPT ![w] = Idle]
    BY <1>3 DEF ClaimFile
  <2>2. worker' \in [Worker -> WorkerState] /\ Busy' = Busy
        /\ \A v \in Busy : worker'[v] = worker[v]
    BY <1>1, <2>1 DEF ThreadInv, Busy, Idle, WorkerState
  <2> QED
    BY <1>1, <1>2, <1>3, <2>2 DEF ThreadInv, Told
<1>4. CASE ~(next > Len(pending))
  <2> DEFINE e == [Idle EXCEPT !.at = "build", !.index = next]
  <2>1. worker' = [worker EXCEPT ![w] = e] /\ e \in WorkerState /\ e.at = "build" /\ e.index = next
    BY <1>1, <1>4, BuildingState DEF ClaimFile
  <2> HIDE DEF e
  <2>2. /\ worker' \in [Worker -> WorkerState] /\ Busy' = Busy \cup {w}
        /\ worker'[w].index = next /\ worker'[w].at = "build"
        /\ \A v \in Busy : worker'[v] = worker[v]
    BY <1>1, <2>1 DEF ThreadInv, Busy, WorkerState
  <2>3. Cardinality(Busy') = Cardinality(Busy) + 1
    BY <1>1, <2>2, BusyFinite, FS_AddElement
  <2>4. \A v \in Busy' : worker'[v].index \in 1..Len(pending) /\ worker'[v].index < next'
    BY <1>1, <1>2, <1>4, <2>2 DEF ThreadInv
  <2>5. \A u, v \in Busy' : u # v => worker'[u].index # worker'[v].index
    BY <1>1, <2>2 DEF ThreadInv
  <2>6. Told' + Cardinality(Busy') = IF next' > Len(pending) THEN Len(pending) ELSE next' - 1
    <3>1. Told \in Nat /\ Told' = Told
      BY <1>2, LenProperties DEF ThreadInv, Told
    <3> QED
      BY <1>1, <1>2, <1>4, <2>3, <3>1, BusyFinite DEF ThreadInv
  <2> QED
    BY <1>1, <1>2, <2>2, <2>4, <2>5, <2>6 DEF ThreadInv
<1> QED
  BY <1>3, <1>4

\* A cache is built or not; the file stays the thread's.
LEMMA ThreadBuilds ==
  ASSUME ThreadInv, NEW w \in Worker, BuildCache(w)
  PROVE  /\ ThreadInv'
         /\ worker[w].at = "build" /\ worker'[w].at = "tell"
         /\ worker'[w].index = worker[w].index /\ worker'[w].built \in BOOLEAN
         /\ caches' = IF worker'[w].built THEN caches \cup {pending[worker[w].index]} ELSE caches
         /\ \A v \in Worker : v # w => worker'[v] = worker[v]
<1> USE DEF thread, program, plugin
<1>1. PICK built \in BOOLEAN :
        /\ worker' = [worker EXCEPT ![w].at = "tell", ![w].built = built]
        /\ caches' = IF built THEN caches \cup {pending[worker[w].index]} ELSE caches
  BY DEF BuildCache
<1> DEFINE told  == [worker EXCEPT ![w].at = "tell"]
           after == [told EXCEPT ![w].built = built]
<1>2. /\ pc = "join" /\ w \in Busy /\ worker[w].at = "build"
      /\ worker \in [Worker -> WorkerState] /\ pending \in Seq(mrt)
  BY DEF ThreadInv, BuildCache, Busy
<1>3. /\ told \in [Worker -> WorkerState] /\ told[w].at = "tell"
      /\ told[w].index = worker[w].index
      /\ \A v \in Worker : v # w => told[v] = worker[v]
  BY <1>2 DEF WorkerState
<1>4. /\ after \in [Worker -> WorkerState] /\ after[w].at = "tell" /\ after[w].built = built
      /\ after[w].index = worker[w].index
      /\ \A v \in Worker : v # w => after[v] = worker[v]
  <2> HIDE DEF told
  <2> QED
    BY <1>3 DEF WorkerState
<1>5. worker' = after
  BY <1>1, Zenon
<1> HIDE DEF told, after
<1>6. UNCHANGED <<targets, mrt, pending, next, summary, pc>>
  BY DEF BuildCache
<1>7. Busy' = Busy
  BY <1>2, <1>4, <1>5 DEF Busy
<1>8. \A v \in Busy : worker'[v].index = worker[v].index
  BY <1>4, <1>5 DEF Busy
<1>9. pending[worker[w].index] \in mrt
  BY <1>2, ElementOfSeq DEF ThreadInv
<1>10. caches' \subseteq mrt'
  BY <1>1, <1>6, <1>9 DEF ThreadInv
<1>11. ThreadInv'
  <2>1. /\ \A v \in Busy' : worker'[v].index \in 1..Len(pending) /\ worker'[v].index < next
        /\ \A u, v \in Busy' : u # v => worker'[u].index # worker'[v].index
    BY <1>7, <1>8 DEF ThreadInv
  <2>2. Told' = Told
    BY <1>6 DEF Told
  <2>3. worker' \in [Worker -> WorkerState] /\ \E v \in Worker : worker'[v].at # "off"
    BY <1>4, <1>5
  <2> QED
    BY <1>2, <1>6, <1>7, <1>10, <2>1, <2>2, <2>3 DEF ThreadInv
<1>12. caches' = IF worker'[w].built THEN caches \cup {pending[worker[w].index]} ELSE caches
  BY <1>1, <1>4, <1>5
<1> QED
  BY <1>2, <1>4, <1>5, <1>11, <1>12

\* A thread tells its result, and its file counts as told.
LEMMA ThreadTells ==
  ASSUME ThreadInv, NEW w \in Worker, TellResult(w)
  PROVE  ThreadInv'
<1> USE DEF thread, program, plugin
<1>1. /\ pc = "join" /\ w \in Busy /\ worker[w].at = "tell"
      /\ worker \in [Worker -> WorkerState] /\ pending \in Seq(mrt)
  BY DEF ThreadInv, TellResult, Busy
<1>2. UNCHANGED <<targets, mrt, pending, next, caches, pc>>
  BY DEF TellResult
<1>3. AfterFile(w) \in WorkerState /\ AfterFile(w).at = "claim"
  BY DEF AfterFile, Idle, WorkerState
<1>4. worker' = [worker EXCEPT ![w] = AfterFile(w)]
  BY DEF TellResult
<1>5. /\ worker' \in [Worker -> WorkerState] /\ worker'[w].at = "claim"
      /\ \A v \in Worker : v # w => worker'[v] = worker[v]
  BY <1>1, <1>3, <1>4
<1>6. Busy' = Busy \ {w}
  BY <1>5 DEF Busy
<1>7. Cardinality(Busy') = Cardinality(Busy) - 1
  BY <1>1, <1>6, BusyFinite, FS_RemoveElement
<1>8. /\ summary' \in [reused : Nat, generated : Nat, failures : Seq(Source)]
      /\ Told' = Told + 1 /\ Told \in Nat
  <2>1. /\ summary \in [reused : Nat, generated : Nat, failures : Seq(Source)]
        /\ Len(summary.failures) \in Nat
    BY LenProperties DEF ThreadInv
  <2>2. pending[worker[w].index] \in Source
    BY <1>1, ElementOfSeq DEF ThreadInv
  <2>3. CASE worker[w].built
    <3>1. summary' = [summary EXCEPT !.generated = @ + 1]
      BY <2>3 DEF TellResult
    <3> QED
      BY <2>1, <3>1 DEF Told
  <2>4. CASE ~worker[w].built
    <3>1. summary' = [summary EXCEPT !.failures = Append(@, pending[worker[w].index])]
      BY <2>4 DEF TellResult
    <3>2. /\ Append(summary.failures, pending[worker[w].index]) \in Seq(Source)
          /\ Len(Append(summary.failures, pending[worker[w].index])) = Len(summary.failures) + 1
      BY <2>1, <2>2, AppendProperties
    <3> DEFINE f == Append(summary.failures, pending[worker[w].index])
    <3>3. summary' = [summary EXCEPT !.failures = f] /\ f \in Seq(Source)
          /\ Len(f) = Len(summary.failures) + 1
      BY <3>1, <3>2
    <3> HIDE DEF f
    <3>4. /\ summary' \in [reused : Nat, generated : Nat, failures : Seq(Source)]
          /\ summary'.generated = summary.generated /\ summary'.failures = f
      BY <2>1, <3>3
    <3>5. summary.generated \in Nat
      BY <2>1
    <3>6. Told' = summary.generated + Len(f)
      BY <3>4 DEF Told
    <3> QED
      BY <2>1, <3>3, <3>4, <3>5, <3>6 DEF Told
  <2> QED
    BY <2>3, <2>4
<1>9. /\ \A v \in Busy' : worker'[v].index \in 1..Len(pending) /\ worker'[v].index < next
      /\ \A u, v \in Busy' : u # v => worker'[u].index # worker'[v].index
  BY <1>5, <1>6 DEF ThreadInv, Busy
<1>10. Told' + Cardinality(Busy') = IF next > Len(pending) THEN Len(pending) ELSE next - 1
  <2>1. Told + Cardinality(Busy) = IF next > Len(pending) THEN Len(pending) ELSE next - 1
    BY DEF ThreadInv
  <2> QED
    BY <1>7, <1>8, <2>1, BusyFinite
<1> QED
  BY <1>1, <1>2, <1>5, <1>8, <1>9, <1>10 DEF ThreadInv

\* The threads start on the files without a cache.
LEMMA ThreadStarts ==
  ASSUME ThreadInv, InspectCaches
  PROVE  /\ ThreadInv'
         /\ Len(pending') = Cardinality((targets \cap mrt) \ caches)
         /\ \A t \in (targets \cap mrt) \ caches : \E i \in 1..Len(pending') : pending'[i] = t
         /\ summary'.reused = Cardinality(targets \cap mrt \cap caches)
         /\ summary'.generated = 0 /\ summary'.failures = <<>> /\ next' = 1
         /\ Len(pending') = 0 <=> (targets \cap mrt) \ caches = {}
<1> DEFINE files == (targets \cap mrt) \ caches
           kept  == targets \cap mrt \cap caches
           number == Number(config.own["parser_workers"])
<1>1. /\ files \subseteq Source /\ kept \subseteq Source /\ files \subseteq mrt
      /\ UNCHANGED <<targets, mrt, caches>> /\ next' = 1
      /\ pc' = IF files = {} THEN "report" ELSE "join"
  BY DEF ThreadInv, InspectCaches, GoTo
<1>2. /\ IsFiniteSet(files) /\ Cardinality(files) \in Nat /\ Cardinality(kept) \in Nat
      /\ Cardinality(files) = 0 <=> files = {}
  BY <1>1, InputsOK, FS_Subset, FS_CardinalityType, FS_EmptySet
<1>3. pending' = SetToSeq(files)
  BY DEF InspectCaches
<1> HIDE DEF files
<1>4. /\ pending' \in Seq(files) /\ Len(pending') = Cardinality(files)
      /\ \A t \in files : \E i \in 1..Len(pending') : pending'[i] = t
  BY <1>2, <1>3, ListedOnce
<1>5. pending' \in Seq(mrt')
  BY <1>1, <1>4, SeqMonotonic
<1>6. summary' = [NoSummary EXCEPT !.reused = Cardinality(kept)]
  BY DEF InspectCaches
<1>7. /\ summary' \in [reused : Nat, generated : Nat, failures : Seq(Source)]
      /\ summary'.reused = Cardinality(kept)
      /\ summary'.generated = 0 /\ summary'.failures = <<>> /\ Len(summary'.failures) = 0
  <2> HIDE DEF kept
  <2> QED
    BY <1>2, <1>6, EmptySeq DEF NoSummary
<1>8. number >= 1 /\ number \in Nat
  BY DEF Number
<1>9. worker' = [w \in Worker |-> IF w <= number /\ w <= Len(pending')
                                  THEN [Idle EXCEPT !.at = "claim"] ELSE Idle]
  BY DEF InspectCaches
<1>10. /\ [Idle EXCEPT !.at = "claim"] \in WorkerState /\ [Idle EXCEPT !.at = "claim"].at = "claim"
       /\ Idle \in WorkerState /\ Idle.at = "off"
  BY DEF Idle, WorkerState
<1> HIDE DEF number
<1>11. /\ worker' \in [Worker -> WorkerState]
       /\ \A w \in Worker : worker'[w].at \in {"off", "claim"}
       /\ Len(pending') = 0 => \A w \in Worker : worker'[w].at = "off"
       /\ Len(pending') # 0 => worker'[1].at = "claim" /\ 1 \in Worker
  BY <1>2, <1>4, <1>8, <1>9, <1>10 DEF Worker
<1>12. Busy' = {} /\ Cardinality(Busy') = 0
  BY <1>11, BusyFinite DEF Busy
<1>13. Told' = 0
  BY <1>7 DEF Told
<1>14. ThreadInv'
  <2>1. pc' = "join" <=> Len(pending') # 0
    BY <1>1, <1>2, <1>4
  <2>2. targets' \subseteq Source /\ mrt' \subseteq Source /\ caches' \subseteq mrt'
    BY <1>1 DEF ThreadInv
  <2>3. Len(pending') \in Nat /\ (IF 1 > Len(pending') THEN Len(pending') ELSE 1 - 1) = 0
    BY <1>2, <1>4
  <2> QED
    BY <1>1, <1>5, <1>7, <1>11, <1>12, <1>13, <2>1, <2>2, <2>3 DEF ThreadInv
<1> QED
  BY <1>1, <1>2, <1>4, <1>7, <1>14 DEF files

\* What the steps of the threads change, and what the others leave.
LEMMA OtherSteps ==
  ASSUME LifeInv, ThreadInv, [Next]_vars, ~InspectCaches,
         ~\E w \in Worker : ClaimFile(w) \/ BuildCache(w) \/ TellResult(w)
  PROVE  /\ UNCHANGED <<caches, pending, next, worker, summary>>
         /\ targets' \subseteq Source /\ mrt \subseteq mrt' /\ mrt' \subseteq Source
         /\ targets' = targets \/ pc = "collect"
         /\ mrt' = mrt \/ pc = "download"
         /\ pc' # "join" \/ pc = "join" 
<1> USE DEF GoTo, Throw, program, plugin, preparse
<1>1. targets \subseteq Source /\ mrt \subseteq Source
  BY DEF ThreadInv
<1>2. CASE ParseArgs \/ CheckDownload \/ JoinBuilders \/ ReportPreparse
  BY <1>1, <1>2 DEF ParseArgs, CheckDownload, JoinBuilders, ReportPreparse
<1>3. CASE CollectTargets
  BY <1>1, <1>3 DEF CollectTargets, Listing
<1>4. CASE DownloadRange
  <2>1. CASE Throw("download", "program") /\ UNCHANGED mrt
    BY <1>1, <1>4, <2>1 DEF DownloadRange
  <2>2. CASE ~(Throw("download", "program") /\ UNCHANGED mrt)
    <3>1. PICK listed \in Listing :
            \E downloaded \in SUBSET (listed \ mrt) : mrt' = mrt \cup downloaded
      BY <1>4, <2>2 DEF DownloadRange
    <3>2. mrt \subseteq mrt' /\ mrt' \subseteq Source
      BY <1>1, <3>1 DEF Listing
    <3> QED
      BY <1>1, <1>4, <2>2, <3>2 DEF DownloadRange
  <2> QED
    BY <2>1, <2>2
<1>5. CASE ResolvePlugin \/ OpenLibrary \/ CheckSymbols \/ CreateProcessor \/ CreateEngine
  BY <1>1, <1>5 DEF ResolvePlugin, OpenLibrary, CheckSymbols, CreateProcessor, Throwing, CreateEngine
<1>6. CASE RunChunk \/ RunFails \/ RunEnds \/ PrintSummary \/ PrintFault
  BY <1>1, <1>6 DEF RunChunk, RunFails, RunEnds, PrintSummary, PrintFault
<1>7. CASE RecordSuccess \/ RecordFailure
  BY <1>1, <1>7 DEF RecordSuccess, RecordFailure
<1>8. CASE DestroyEngine \/ DestroyProcessor \/ CloseLibrary
  BY <1>1, <1>8 DEF DestroyEngine, DestroyProcessor, CloseLibrary
<1>9. CASE UNCHANGED vars
  BY <1>1, <1>9 DEF vars
<1> QED
  BY <1>2, <1>3, <1>4, <1>5, <1>6, <1>7, <1>8, <1>9 DEF Next, Exited

LEMMA ThreadNext == LifeInv /\ ThreadInv /\ [Next]_vars => ThreadInv'
<1> SUFFICES ASSUME LifeInv, ThreadInv, [Next]_vars PROVE ThreadInv'
  OBVIOUS
<1>1. CASE \E w \in Worker : ClaimFile(w) \/ BuildCache(w) \/ TellResult(w)
  BY <1>1, ThreadClaims, ThreadBuilds, ThreadTells
<1>2. CASE InspectCaches
  BY <1>2, ThreadStarts
<1>3. CASE ~InspectCaches /\ ~\E w \in Worker : ClaimFile(w) \/ BuildCache(w) \/ TellResult(w)
  <2>1. /\ UNCHANGED <<caches, pending, next, worker, summary>>
        /\ targets' \subseteq Source /\ mrt \subseteq mrt' /\ mrt' \subseteq Source
        /\ pc' # "join" \/ pc = "join"
    BY <1>3, OtherSteps
  <2>2. pending' \in Seq(mrt')
    BY <2>1, SeqMonotonic DEF ThreadInv
  <2>3. pc' # "join" => \A w \in Worker : worker[w].at = "off"
    <3>1. CASE pc = "join"
      <4>1. JoinBuilders \/ pc' = pc
        BY <1>3, <3>1 DEF Next, vars, Exited, ParseArgs, CollectTargets, DownloadRange, CheckDownload,
           InspectCaches, ReportPreparse, ResolvePlugin, OpenLibrary, CheckSymbols, CreateProcessor,
           Throwing, CreateEngine, RunChunk, RunFails, RunEnds, PrintSummary, RecordSuccess,
           RecordFailure, PrintFault, DestroyEngine, DestroyProcessor, CloseLibrary, GoTo, Throw
      <4> QED
        BY <3>1, <4>1 DEF JoinBuilders
    <3>2. CASE pc # "join"
      BY <3>2 DEF ThreadInv
    <3> QED
      BY <3>1, <3>2
  <2>4. Busy' = Busy /\ Told' = Told
    BY <2>1 DEF Busy, Told
  <2> QED
    BY <2>1, <2>2, <2>3, <2>4 DEF ThreadInv
<1> QED
  BY <1>1, <1>2, <1>3

\* ensure_parsed_caches: whichever files fail, no file is built by two threads at once,
\* every one is told once, and when the threads are joined none was left out.
THEOREM FilesAreShared == Spec => []EveryFileIsTried
<1>1. ThreadInv => EveryFileIsTried
  <2> SUFFICES ASSUME ThreadInv PROVE EveryFileIsTried
    OBVIOUS
  <2>1. Told + Cardinality(Busy) = IF next > Len(pending) THEN Len(pending) ELSE next - 1
    BY DEF ThreadInv
  <2>2. pc = "join" /\ (\A w \in Worker : worker[w].at = "off") => Told = Len(pending)
    <3> SUFFICES ASSUME pc = "join", \A w \in Worker : worker[w].at = "off"
                 PROVE  Told = Len(pending)
      OBVIOUS
    <3>1. Cardinality(Busy) = 0
      BY BusyFinite
    <3>2. next > Len(pending)
      BY DEF ThreadInv
    <3>3. Told \in Nat
      BY LenProperties DEF ThreadInv, Told
    <3> QED
      BY <2>1, <3>1, <3>2, <3>3
  <2> QED
    BY <2>1, <2>2 DEF EveryFileIsTried, ThreadInv, Busy, Told
<1> QED
  BY <1>1, LifeInit, LifeNext, ThreadInit, ThreadNext, PTL DEF Spec

-----------------------------------------------------------------------------
(* Exit status 0 of a preparse.                                            *)

\* Where no file of the range is known.
Rangeless == {"parse", "resolve", "open", "symbols", "create", "engine", "run", "summary",
              "success"}

\* Where the threads have been started, and where they have done all.
Reported == pc = "report" \/ (exit = 0 /\ targets # {})
Started  == pc = "join" \/ Reported

\* The files of the range are those with a cache and those pending; a file whose index is
\* past is cached, in the hands of a thread or a failure.
FilesInv ==
  /\ pc \in Rangeless => targets = {}
  /\ pc = "inspect" \/ Started => targets \subseteq mrt
  /\ Started => /\ summary.reused + Len(pending) = Cardinality(targets)
                /\ \A t \in targets : t \in caches \/ \E i \in 1..Len(pending) : pending[i] = t
  /\ summary.failures = <<>> => \A i \in 1..Len(pending) : i < next =>
       pending[i] \in caches \/ \E w \in Busy : worker[w].index = i
  /\ \A w \in Worker : worker[w].at = "tell" /\ worker[w].built =>
       pending[worker[w].index] \in caches
  /\ Reported => targets \subseteq caches /\ summary.generated = Len(pending)

LEMMA FilesInit == Init => FilesInv
BY EmptySeq DEF Init, FilesInv, Started, Reported, Idle, NoExit

\* How the main thread comes to the places that FilesInv speaks of.
LEMMA Arrivals ==
  ASSUME LifeInv, [Next]_vars, ~InspectCaches
  PROVE  /\ pc' \in Rangeless => pc \in Rangeless
         /\ pc' = "inspect" => pc = "inspect" \/ Missing = {}
         /\ pc' = "join" => pc = "join"
         /\ pc' = "report" => pc = "report" \/ (pc = "join" /\ JoinBuilders /\ summary.failures = <<>>)
         /\ exit' = 0 => exit = 0 \/ pc = "report" \/ pc \in Rangeless
<1> USE DEF GoTo, Throw, program, plugin, preparse, LifeInv, Rangeless
<1>1. CASE \E w \in Worker : ClaimFile(w) \/ BuildCache(w) \/ TellResult(w)
  BY <1>1 DEF ClaimFile, BuildCache, TellResult, thread
<1>2. CASE ParseArgs \/ ReportPreparse
  BY <1>2 DEF ParseArgs, ReportPreparse
<1>3. CASE CollectTargets \/ DownloadRange \/ CheckDownload \/ JoinBuilders
  BY <1>3 DEF CollectTargets, DownloadRange, CheckDownload, JoinBuilders
<1>4. CASE ResolvePlugin \/ OpenLibrary \/ CheckSymbols \/ CreateProcessor \/ CreateEngine
  BY <1>4 DEF ResolvePlugin, OpenLibrary, CheckSymbols, CreateProcessor, Throwing, CreateEngine
<1>5. CASE RunChunk \/ RunFails \/ RunEnds \/ PrintSummary \/ PrintFault
  BY <1>5 DEF RunChunk, RunFails, RunEnds, PrintSummary, PrintFault
<1>6. CASE RecordSuccess \/ RecordFailure
  BY <1>6 DEF RecordSuccess, RecordFailure
<1>7. CASE DestroyEngine \/ DestroyProcessor \/ CloseLibrary
  BY <1>7 DEF DestroyEngine, DestroyProcessor, CloseLibrary
<1>8. CASE UNCHANGED vars
  BY <1>8 DEF vars
<1> QED
  BY <1>1, <1>2, <1>3, <1>4, <1>5, <1>6, <1>7, <1>8 DEF Next, Exited

\* Inspection divides the files of the range into those with a cache and those pending.
LEMMA FilesInspected ==
  ASSUME LifeInv, ThreadInv, FilesInv, InspectCaches
  PROVE  FilesInv'
<1> DEFINE files == (targets \cap mrt) \ caches
           kept  == targets \cap mrt \cap caches
<1>1. /\ Len(pending') = Cardinality(files)
      /\ \A t \in files : \E i \in 1..Len(pending') : pending'[i] = t
      /\ summary'.reused = Cardinality(kept)
      /\ summary'.generated = 0 /\ next' = 1
      /\ Len(pending') = 0 <=> files = {}
  BY ThreadStarts
<1>2. /\ pc = "inspect" /\ pc' = IF files = {} THEN "report" ELSE "join"
      /\ UNCHANGED <<targets, mrt, caches, exit>> /\ exit # 0
  BY DEF InspectCaches, GoTo, LifeInv, Leaving, NoExit
<1>3. targets \subseteq mrt /\ IsFiniteSet(targets)
  BY <1>2, InputsOK, FS_Subset DEF FilesInv, ThreadInv
<1>4. files = targets \ caches /\ kept = targets \cap caches
  BY <1>3
<1>5. Cardinality(kept) + Cardinality(files) = Cardinality(targets)
  <2>1. IsFiniteSet(targets \cap caches)
    BY <1>3, FS_Intersection
  <2>2. Cardinality(targets) \in Nat /\ Cardinality(targets \cap caches) \in Nat
    BY <1>3, <2>1, FS_CardinalityType
  <2>3. Cardinality(targets \ caches) = Cardinality(targets) - Cardinality(targets \cap caches)
    BY <1>3, FS_Difference
  <2> HIDE DEF files, kept
  <2> QED
    BY <1>4, <2>2, <2>3
<1>6. \A w \in Worker : worker'[w].at \in {"off", "claim"}
  BY DEF InspectCaches, Idle
<1> HIDE DEF files, kept
<1>7. \A t \in targets : t \in caches \/ \E i \in 1..Len(pending') : pending'[i] = t
  BY <1>1, <1>4
<1>8. pc' = "report" => targets \subseteq caches /\ summary'.generated = Len(pending')
  BY <1>1, <1>2, <1>4
<1>9. \A i \in 1..Len(pending') : ~(i < next')
  BY <1>1
<1>10. ThreadInv'
  BY ThreadStarts
<1> QED
  BY <1>1, <1>2, <1>3, <1>5, <1>6, <1>7, <1>8, <1>9 DEF FilesInv, Started, Reported, Rangeless

\* The threads take the pending files one by one.
LEMMA FilesWorked ==
  ASSUME LifeInv, ThreadInv, FilesInv, NEW w \in Worker,
         ClaimFile(w) \/ BuildCache(w) \/ TellResult(w)
  PROVE  FilesInv'
<1>1. pc = "join" /\ exit # 0 /\ worker \in [Worker -> WorkerState] /\ next \in Nat
  BY DEF ClaimFile, BuildCache, TellResult, LifeInv, Leaving, NoExit, ThreadInv
<1>2. UNCHANGED <<targets, mrt, pending, pc, exit>>
  BY DEF ClaimFile, BuildCache, TellResult, thread
<1>3. /\ Started /\ Started' /\ ~Reported' /\ pc' \notin Rangeless
      /\ Len(pending) \in Nat /\ targets \subseteq mrt
      /\ summary.reused + Len(pending) = Cardinality(targets)
      /\ \A t \in targets : t \in caches \/ \E i \in 1..Len(pending) : pending[i] = t
  BY <1>1, <1>2, LenProperties DEF Started, Reported, Rangeless, FilesInv, ThreadInv
<1>4. CASE ClaimFile(w)
  <2>1. UNCHANGED <<caches, summary>> /\ next' = next + 1
    BY <1>4 DEF ClaimFile
  <2> DEFINE e == [Idle EXCEPT !.at = "build", !.index = next]
             next_state == IF next > Len(pending) THEN Idle ELSE e
  <2>2. worker' = [worker EXCEPT ![w] = next_state]
    BY <1>4 DEF ClaimFile
  <2>3. /\ e \in WorkerState /\ e.at = "build" /\ e.index = next
        /\ Idle \in WorkerState /\ Idle.at = "off"
    BY <1>1, BuildingState DEF Idle, WorkerState
  <2> HIDE DEF e
  <2>4. /\ worker'[w] = next_state /\ worker'[w].at # "tell"
        /\ \A v \in Worker : v # w => worker'[v] = worker[v]
        /\ w \notin Busy
    BY <1>1, <1>4, <2>2, <2>3 DEF ClaimFile, Busy
  <2> HIDE DEF next_state
  <2>5. \A v \in Busy : v \in Busy' /\ worker'[v] = worker[v]
    BY <2>4 DEF Busy
  <2>6. ASSUME NEW i \in 1..Len(pending), i < next', summary.failures = <<>>
        PROVE  pending[i] \in caches \/ \E v \in Busy' : worker'[v].index = i
    <3>1. CASE i < next
      <4>1. pending[i] \in caches \/ \E v \in Busy : worker[v].index = i
        BY <2>6, <3>1 DEF FilesInv
      <4> QED
        BY <2>5, <4>1
    <3>2. CASE i = next
      <4>1. worker'[w].at = "build" /\ worker'[w].index = i
        BY <1>1, <1>3, <2>3, <2>4, <3>2 DEF next_state
      <4> QED
        BY <4>1 DEF Busy
    <3> QED
      BY <1>1, <2>1, <2>6, <3>1, <3>2
  <2>7. \A v \in Worker : worker'[v].at = "tell" /\ worker'[v].built =>
          pending[worker'[v].index] \in caches
    BY <2>4 DEF FilesInv
  <2> QED
    BY <1>2, <1>3, <2>1, <2>6, <2>7 DEF FilesInv
<1>5. CASE BuildCache(w)
  <2>1. UNCHANGED <<next, summary>>
    BY <1>5 DEF BuildCache
  <2>2. /\ worker'[w].at = "tell" /\ worker[w].at = "build"
        /\ worker'[w].index = worker[w].index /\ worker'[w].built \in BOOLEAN
        /\ caches' = IF worker'[w].built THEN caches \cup {pending[worker[w].index]} ELSE caches
        /\ \A v \in Worker : v # w => worker'[v] = worker[v]
    BY <1>5, ThreadBuilds
  <2>3. caches \subseteq caches' /\ (worker'[w].built => pending[worker[w].index] \in caches')
    BY <2>2
  <2>4. \A v \in Busy : v \in Busy' /\ worker'[v].index = worker[v].index
    BY <2>2 DEF Busy
  <2>5. \A v \in Worker : worker'[v].at = "tell" /\ worker'[v].built =>
          pending[worker'[v].index] \in caches'
    BY <2>2, <2>3 DEF FilesInv
  <2>6. summary.failures = <<>> => \A i \in 1..Len(pending) : i < next =>
          pending[i] \in caches' \/ \E v \in Busy' : worker'[v].index = i
    BY <2>3, <2>4 DEF FilesInv
  <2>7. \A t \in targets : t \in caches' \/ \E i \in 1..Len(pending) : pending[i] = t
    BY <1>3, <2>3
  <2> QED
    BY <1>2, <1>3, <2>1, <2>5, <2>6, <2>7 DEF FilesInv
<1>6. CASE TellResult(w)
  <2>1. UNCHANGED <<next, caches>> /\ worker[w].at = "tell"
    BY <1>6 DEF TellResult
  <2>2. summary \in [reused : Nat, generated : Nat, failures : Seq(Source)]
    BY DEF ThreadInv
  <2>3. /\ summary'.reused = summary.reused
        /\ summary'.failures = <<>> => summary.failures = <<>> /\ worker[w].built
    <3>1. CASE worker[w].built
      BY <1>6, <2>2, <3>1 DEF TellResult
    <3>2. CASE ~worker[w].built
      <4> DEFINE f == Append(summary.failures, pending[worker[w].index])
      <4>1. summary' = [summary EXCEPT !.failures = f]
        BY <1>6, <3>2 DEF TellResult
      <4>2. f # <<>>
        <5>1. w \in Busy /\ pending[worker[w].index] \in Source
          BY <2>1, ElementOfSeq DEF Busy, ThreadInv
        <5> QED
          BY <2>2, <5>1, AppendProperties
      <4> HIDE DEF f
      <4> QED
        BY <2>2, <4>1, <4>2
    <3> QED
      BY <3>1, <3>2
  <2>4. /\ worker'[w].at = "claim"
        /\ \A v \in Worker : v # w => worker'[v] = worker[v]
    BY <1>1, <1>6 DEF TellResult, AfterFile, Idle
  <2>5. \A v \in Busy : v = w \/ (v \in Busy' /\ worker'[v] = worker[v])
    BY <2>4 DEF Busy
  <2>6. \A v \in Worker : worker'[v].at = "tell" /\ worker'[v].built =>
          pending[worker'[v].index] \in caches
    BY <2>4 DEF FilesInv
  <2>7. summary'.failures = <<>> => \A i \in 1..Len(pending) : i < next =>
          pending[i] \in caches \/ \E v \in Busy' : worker'[v].index = i
    BY <2>1, <2>3, <2>5 DEF FilesInv
  <2> QED
    BY <1>2, <1>3, <2>1, <2>3, <2>6, <2>7 DEF FilesInv
<1> QED
  BY <1>4, <1>5, <1>6

\* When the threads are joined and none has failed, every file of the range has its cache.
LEMMA FilesJoined ==
  ASSUME ThreadInv, FilesInv, JoinBuilders, summary.failures = <<>>
  PROVE  targets \subseteq caches /\ summary.generated = Len(pending)
<1>1. /\ pc = "join" /\ Started /\ \A w \in Worker : worker[w].at = "off"
  BY DEF JoinBuilders, GoTo, Throw, Started
<1>2. Busy = {} /\ Cardinality(Busy) = 0 /\ next > Len(pending)
  BY <1>1, BusyFinite DEF Busy, ThreadInv
<1>3. \A i \in 1..Len(pending) : i < next
  BY <1>2, LenProperties DEF ThreadInv
<1>4. \A i \in 1..Len(pending) : pending[i] \in caches
  BY <1>2, <1>3 DEF FilesInv
<1>5. targets \subseteq caches
  BY <1>1, <1>4 DEF FilesInv
<1>6. Told = Len(pending)
  <2>1. Told \in Nat
    BY LenProperties DEF ThreadInv, Told
  <2> QED
    BY <1>2, <2>1 DEF ThreadInv
<1>7. Len(summary.failures) = 0 /\ summary.generated \in Nat
  BY EmptySeq DEF ThreadInv
<1> QED
  BY <1>5, <1>6, <1>7 DEF Told

LEMMA FilesNext == LifeInv /\ ThreadInv /\ FilesInv /\ [Next]_vars => FilesInv'
<1> SUFFICES ASSUME LifeInv, ThreadInv, FilesInv, [Next]_vars PROVE FilesInv'
  OBVIOUS
<1>1. CASE \E w \in Worker : ClaimFile(w) \/ BuildCache(w) \/ TellResult(w)
  BY <1>1, FilesWorked
<1>2. CASE InspectCaches
  BY <1>2, FilesInspected
<1>3. CASE ~InspectCaches /\ ~\E w \in Worker : ClaimFile(w) \/ BuildCache(w) \/ TellResult(w)
  <2>1. /\ UNCHANGED <<caches, pending, next, worker, summary>>
        /\ mrt \subseteq mrt'
        /\ targets' = targets \/ pc = "collect"
        /\ mrt' = mrt \/ pc = "download"
    BY <1>3, OtherSteps
  <2>2. /\ pc' \in Rangeless => pc \in Rangeless
        /\ pc' = "inspect" => pc = "inspect" \/ Missing = {}
        /\ pc' = "join" => pc = "join"
        /\ pc' = "report" => pc = "report" \/ (pc = "join" /\ JoinBuilders /\ summary.failures = <<>>)
        /\ exit' = 0 => exit = 0 \/ pc = "report" \/ pc \in Rangeless
    BY <1>3, Arrivals
  <2>3. Reported' => UNCHANGED targets /\ (Reported \/ (JoinBuilders /\ summary.failures = <<>>))
    BY <2>1, <2>2 DEF Reported, FilesInv, LifeInv, Rangeless, Leaving, NoExit
  <2>4. Started' => UNCHANGED targets /\ Started
    BY <2>1, <2>2, <2>3 DEF Started, Reported, JoinBuilders, GoTo, Throw
  <2>5. pc' \in Rangeless => targets' = {}
    BY <2>1, <2>2 DEF Rangeless, FilesInv
  <2>6. pc' = "inspect" \/ Started' => targets' \subseteq mrt'
    <3>1. CASE Started'
      BY <2>1, <2>4, <3>1 DEF FilesInv
    <3>2. CASE pc' = "inspect"
      <4>1. targets \subseteq mrt
        BY <2>2, <3>2 DEF Missing, FilesInv
      <4>2. pc # "collect"
        BY <1>3, <3>2 DEF Next, vars, Exited, ParseArgs, CollectTargets, DownloadRange, CheckDownload,
           JoinBuilders, ReportPreparse, ResolvePlugin, OpenLibrary, CheckSymbols, CreateProcessor,
           Throwing, CreateEngine, RunChunk, RunFails, RunEnds, PrintSummary, RecordSuccess,
           RecordFailure, PrintFault, DestroyEngine, DestroyProcessor, CloseLibrary, GoTo, Throw
      <4> QED
        BY <2>1, <4>1, <4>2
    <3> QED
      BY <3>1, <3>2
  <2>7. Reported' => targets' \subseteq caches' /\ summary'.generated = Len(pending')
    BY <2>1, <2>3, FilesJoined DEF FilesInv
  <2>8. Busy' = Busy
    BY <2>1 DEF Busy
  <2> QED
    BY <2>1, <2>4, <2>5, <2>6, <2>7, <2>8 DEF FilesInv
<1> QED
  BY <1>1, <1>2, <1>3

\* run_download_and_preparse: exit status 0 means that every file of the range is on disk
\* with a cache, and that the summary's numbers add up to the range.
THEOREM PreparseKeepsItsWord == Spec => []PreparseIsWhole
<1>1. ThreadInv /\ FilesInv => PreparseIsWhole
  <2> SUFFICES ASSUME ThreadInv, FilesInv, exit = 0, targets # {}
               PROVE  /\ targets \subseteq mrt \cap caches
                      /\ summary.reused + summary.generated = Cardinality(targets)
    BY DEF PreparseIsWhole
  <2> QED
    BY DEF FilesInv, Started, Reported
<1> QED
  BY <1>1, LifeInit, LifeNext, ThreadInit, ThreadNext, FilesInit, FilesNext, PTL DEF Spec

-----------------------------------------------------------------------------
(* The fold of FoldLeft, as steps over the numbers of a sequence.          *)

\* The table of a fold of F from base over the sets of numbers up to n, the greatest
\* number last.
IsFoldTable(it, n, Acc, base, F) ==
  /\ it \in [SUBSET (1..n) -> Acc]
  /\ \A s \in SUBSET (1..n) : it[s] = IF s = {} THEN base ELSE F[<<Max(s), it[s \ {Max(s)}]>>]

\* Such a table exists.
LEMMA FoldTable ==
  ASSUME NEW n \in Nat, NEW Acc, NEW base \in Acc, NEW F \in [(1..n) \X Acc -> Acc]
  PROVE  \E it : IsFoldTable(it, n, Acc, base, F)
<1> DEFINE E == {m \in Nat : m <= n => \E it : IsFoldTable(it, m, Acc, base, F)}
<1>1. 0 \in E
  <2> DEFINE it == [s \in SUBSET (1..0) |-> base]
  <2>1. \A s \in SUBSET (1..0) : s = {}
    OBVIOUS
  <2>2. IsFoldTable(it, 0, Acc, base, F)
    BY <2>1 DEF IsFoldTable
  <2> QED
    BY <2>2
<1>2. ASSUME NEW m \in Nat, m \in E
      PROVE  m + 1 \in E
  <2> SUFFICES ASSUME m + 1 <= n PROVE \E it : IsFoldTable(it, m + 1, Acc, base, F)
    OBVIOUS
  <2>1. PICK it : IsFoldTable(it, m, Acc, base, F)
    BY <1>2
  <2> DEFINE new == [s \in SUBSET (1..(m + 1)) |->
                       IF m + 1 \in s THEN F[<<m + 1, it[s \ {m + 1}]>>] ELSE it[s]]
  <2>2. \A s \in SUBSET (1..(m + 1)) :
          /\ s \ {m + 1} \in SUBSET (1..m)
          /\ m + 1 \notin s => s \in SUBSET (1..m)
    OBVIOUS
  <2>3. new \in [SUBSET (1..(m + 1)) -> Acc]
    <3>1. \A s \in SUBSET (1..m) : it[s] \in Acc
      BY <2>1 DEF IsFoldTable
    <3>2. m + 1 \in 1..n
      OBVIOUS
    <3>3. \A s \in SUBSET (1..(m + 1)) : new[s] \in Acc
      BY <2>2, <3>1, <3>2
    <3> QED
      BY <3>3
  <2>4. ASSUME NEW s \in SUBSET (1..(m + 1))
        PROVE  new[s] = IF s = {} THEN base ELSE F[<<Max(s), new[s \ {Max(s)}]>>]
    <3>1. CASE m + 1 \in s
      <4>1. Max(s) = m + 1
        <5>1. \A y \in s : m + 1 >= y
          OBVIOUS
        <5>2. \A x \in s : x >= m + 1 => x = m + 1
          OBVIOUS
        <5> QED
          BY <3>1, <5>1, <5>2 DEF Max
      <4>2. m + 1 \notin s \ {m + 1} /\ s \ {m + 1} \in SUBSET (1..m)
            /\ s \ {m + 1} \in SUBSET (1..(m + 1))
        BY <2>2
      <4>3. new[s \ {m + 1}] = it[s \ {m + 1}]
        BY <4>2
      <4>4. new[s] = F[<<m + 1, it[s \ {m + 1}]>>]
        BY <3>1
      <4> QED
        BY <3>1, <4>1, <4>3, <4>4
    <3>2. CASE m + 1 \notin s
      <4>1. s \in SUBSET (1..m) /\ s \ {Max(s)} \in SUBSET (1..m) /\ m + 1 \notin s \ {Max(s)}
            /\ s \ {Max(s)} \in SUBSET (1..(m + 1))
        BY <2>2, <3>2
      <4>2. new[s] = it[s] /\ new[s \ {Max(s)}] = it[s \ {Max(s)}]
        BY <3>2, <4>1
      <4>3. it[s] = IF s = {} THEN base ELSE F[<<Max(s), it[s \ {Max(s)}]>>]
        BY <2>1, <4>1 DEF IsFoldTable
      <4> QED
        BY <4>2, <4>3
    <3> QED
      BY <3>1, <3>2
  <2> HIDE DEF new
  <2>5. IsFoldTable(new, m + 1, Acc, base, F)
    BY <2>3, <2>4 DEF IsFoldTable
  <2> QED
    BY <2>5
<1> HIDE DEF E
<1>3. n \in E
  BY <1>1, <1>2, NatSetInduction
<1> QED
  BY <1>3 DEF E

\* The greatest of some numbers up to n.
LEMMA GreatestBelow ==
  ASSUME NEW n \in Nat, NEW s \in SUBSET (1..n), s # {}
  PROVE  Max(s) \in s /\ \A y \in s : Max(s) >= y
<1> DEFINE D == {n - y : y \in s}
<1>0. \A y \in s : y \in 1..n
  OBVIOUS
<1>1. D \subseteq Nat /\ D # {}
  <2>1. \A y \in s : n - y \in Nat
    BY <1>0
  <2> QED
    BY <2>1
<1>2. PICK d \in D : \A e \in D : d <= e
  <2> HIDE DEF D
  <2> QED
    BY <1>1, LeastNatural
<1>3. PICK x \in s : d = n - x
  BY <1>2
<1>4. ASSUME NEW y \in s
      PROVE  x >= y
  <2>1. n - y \in D /\ y \in 1..n /\ x \in 1..n
    BY <1>0
  <2>2. n - x <= n - y
    BY <1>2, <1>3, <2>1
  <2> QED
    BY <2>1, <2>2
<1> QED
  BY <1>3, <1>4 DEF Max

\* The greatest of the numbers up to k, and those before it.
LEMMA GreatestIsLast ==
  ASSUME NEW k \in Nat, k # 0
  PROVE  Max(1..k) = k /\ (1..k) \ {k} = 1..(k - 1) /\ 1..k # {}
<1>1. k \in 1..k /\ \A y \in 1..k : k >= y
  OBVIOUS
<1>2. \A x \in 1..k : x >= k => x = k
  OBVIOUS
<1> QED
  BY <1>1, <1>2 DEF Max

\* g solves the equation of that fold, at least where what it builds on is of the type.
SolvesFold(g, n, Acc, base, F) ==
  /\ g[{}] = base
  /\ \A s \in SUBSET (1..n) : s # {} /\ g[s \ {Max(s)}] \in Acc =>
       g[s] = F[<<Max(s), g[s \ {Max(s)}]>>]

\* r is what the fold comes to after each number.
FoldRun(r, g, n, Acc, base, F) ==
  /\ r \in [0..n -> Acc]
  /\ r[0] = base /\ r[n] = g[1..n]
  /\ \A k \in 1..n : r[k] = F[<<k, r[k - 1]>>]

\* The fold is a run through the numbers.
LEMMA FoldSteps ==
  ASSUME NEW n \in Nat, NEW Acc, NEW base \in Acc, NEW F \in [(1..n) \X Acc -> Acc], NEW g,
         SolvesFold(g, n, Acc, base, F)
  PROVE  \E r : FoldRun(r, g, n, Acc, base, F)
<1> DEFINE r == [k \in 0..n |-> g[1..k]]
           A == {k \in Nat : k <= n => g[1..k] \in Acc}
<1>1. g[1..0] = base
  <2>1. 1..0 = {}
    OBVIOUS
  <2> QED
    BY <2>1 DEF SolvesFold
<1>2. ASSUME NEW k \in 1..n, g[1..(k - 1)] \in Acc
      PROVE  g[1..k] = F[<<k, g[1..(k - 1)]>>] /\ g[1..k] \in Acc
  <2>0. k \in Nat /\ k # 0 /\ 1..k \in SUBSET (1..n)
    OBVIOUS
  <2>1. Max(1..k) = k /\ (1..k) \ {k} = 1..(k - 1) /\ 1..k # {} /\ 1..k \in SUBSET (1..n)
    BY <2>0, GreatestIsLast
  <2>2. g[1..k] = F[<<k, g[1..(k - 1)]>>]
    BY <1>2, <2>1 DEF SolvesFold
  <2> QED
    BY <1>2, <2>2
<1>3. 0 \in A
  BY <1>1
<1>4. ASSUME NEW k \in Nat, k \in A
      PROVE  k + 1 \in A
  <2> SUFFICES ASSUME k + 1 <= n PROVE g[1..(k + 1)] \in Acc
    OBVIOUS
  <2>1. k + 1 \in 1..n /\ (k + 1) - 1 = k /\ g[1..k] \in Acc
    BY <1>4
  <2> QED
    BY <1>2, <2>1
<1> HIDE DEF A
<1>5. \A k \in Nat : k \in A
  BY <1>3, <1>4, NatSetInduction
<1>6. \A k \in 0..n : g[1..k] \in Acc
  BY <1>5 DEF A
<1>7. ASSUME NEW k \in 1..n
      PROVE  r[k] = F[<<k, r[k - 1]>>]
  <2>1. k - 1 \in 0..n /\ k \in 0..n
    OBVIOUS
  <2> QED
    BY <1>2, <1>6, <2>1
<1>8. r \in [0..n -> Acc] /\ r[0] = base /\ r[n] = g[1..n]
  <2>1. 0 \in 0..n /\ n \in 0..n
    OBVIOUS
  <2> QED
    BY <1>1, <1>6, <2>1
<1> HIDE DEF r
<1> QED
  BY <1>7, <1>8 DEF FoldRun

-----------------------------------------------------------------------------
(* What config.json and the command line come to.                          *)

Configs == [own : [Key -> STRING], cache : [CacheKey -> STRING], download_only : BOOLEAN]
Scans   == {"ok", "error", "help"} \X (DOMAIN Option \cup {""}) \X Configs

\* The options are the keys but output_dir, and no two are written alike.
LEMMA OptionFacts ==
  /\ DOMAIN Option = Key \ {"output_dir"}
  /\ \A key \in DOMAIN Option : /\ Option[key] \in STRING /\ IsOption(Option[key])
                                /\ KeyOf(Option[key]) = key
                                /\ key # ""
  /\ \A word : IsOption(word) => /\ KeyOf(word) \in DOMAIN Option /\ Option[KeyOf(word)] = word
                                  /\ word \notin {"--download-only", "--help"}
<1>1. DOMAIN Option = Key \ {"output_dir"}
  BY DEF Option
<1>2. DOMAIN Option = {"parser_workers", "limit", "download_workers", "processor_plugin", "chunk_size"}
  BY <1>1 DEF Key, AnalysisKey, CacheKey
<1>3. \A key \in Key \ {"output_dir"} : Option[key] =
         CASE key = "parser_workers"   -> "--parser-workers"
           [] key = "limit"            -> "--limit"
           [] key = "download_workers" -> "--download-workers"
           [] key = "processor_plugin" -> "--processor-plugin"
           [] key = "chunk_size"       -> "--chunk-size"
  BY DEF Option
<1>4. /\ Option["parser_workers"] = "--parser-workers" /\ Option["limit"] = "--limit"
      /\ Option["download_workers"] = "--download-workers"
      /\ Option["processor_plugin"] = "--processor-plugin"
      /\ Option["chunk_size"] = "--chunk-size"
  BY <1>1, <1>2, <1>3
<1>5. ASSUME NEW key \in DOMAIN Option
      PROVE  /\ Option[key] \in STRING /\ key # ""
             /\ Option[key] \notin {"--download-only", "--help"}
             /\ \A other \in DOMAIN Option : Option[other] = Option[key] => other = key
  <2>1. Option[key] \in {"--parser-workers", "--limit", "--download-workers",
                           "--processor-plugin", "--chunk-size"}
    BY <1>2, <1>4, Zenon
  <2>2. key # "" /\ Option[key] \in STRING /\ Option[key] \notin {"--download-only", "--help"}
    <3>1. key # ""
      BY <1>2
    <3>2. Option[key] \in STRING
      BY <2>1, WordsOK
    <3>3. Option[key] \notin {"--download-only", "--help"}
      BY <2>1
    <3> QED
      BY <3>1, <3>2, <3>3
  <2>3. \A other \in DOMAIN Option : Option[other] = Option[key] => other = key
    <3>1. CASE key = "parser_workers"
      BY <1>2, <1>4, <3>1
    <3>2. CASE key = "limit"
      BY <1>2, <1>4, <3>2
    <3>3. CASE key = "download_workers"
      BY <1>2, <1>4, <3>3
    <3>4. CASE key = "processor_plugin"
      BY <1>2, <1>4, <3>4
    <3>5. CASE key = "chunk_size"
      BY <1>2, <1>4, <3>5
    <3> QED
      BY <1>2, <3>1, <3>2, <3>3, <3>4, <3>5
  <2> QED
    BY <2>1, <2>2, <2>3
<1>6. \A key \in DOMAIN Option : IsOption(Option[key]) /\ KeyOf(Option[key]) = key
  BY <1>5 DEF IsOption, KeyOf
<1>7. \A word : IsOption(word) => KeyOf(word) \in DOMAIN Option /\ Option[KeyOf(word)] = word
  BY Zenon DEF IsOption, KeyOf
<1>8. \A word : IsOption(word) => word \notin {"--download-only", "--help"}
  BY <1>5, <1>7
<1> QED
  BY <1>1, <1>5, <1>6, <1>7, <1>8

\* One option takes a value.
LEMMA OwnValue ==
  ASSUME NEW values \in Configs, NEW key \in Key, NEW word \in STRING,
         NEW new, new = [values EXCEPT !.own[key] = word]
  PROVE  /\ new \in Configs
         /\ new.own = [values.own EXCEPT ![key] = word]
         /\ new.cache = values.cache /\ new.download_only = values.download_only
BY DEF Configs

\* One key of the section cache takes a value.
LEMMA CacheValue ==
  ASSUME NEW values \in Configs, NEW key \in CacheKey, NEW word \in STRING,
         NEW new, new = [values EXCEPT !.cache[key] = word]
  PROVE  /\ new \in Configs
         /\ new.cache = [values.cache EXCEPT ![key] = word]
         /\ new.own = values.own /\ new.download_only = values.download_only
BY DEF Configs

\* A scanned word leaves a scan.
LEMMA ScannedType ==
  ASSUME NEW scan \in Scans, NEW word \in STRING
  PROVE  Scanned(scan, word) \in Scans
<1>1. PICK status \in {"ok", "error", "help"}, option \in DOMAIN Option \cup {""}, values \in Configs :
        scan = <<status, option, values>>
  <2> DEFINE S == {"ok", "error", "help"}
             O == DOMAIN Option \cup {""}
  <2>1. scan \in S \X O \X Configs
    BY DEF Scans
  <2> HIDE DEF S, O
  <2>2. \E status \in S, option \in O, values \in Configs : scan = <<status, option, values>>
    BY <2>1
  <2> QED
    BY <2>2 DEF S, O
<1>2. \A s \in {"ok", "error", "help"}, o \in DOMAIN Option \cup {""}, c \in Configs : <<s, o, c>> \in Scans
  BY DEF Scans
<1>3. scan[1] = status /\ scan[2] = option /\ scan[3] = values
  BY <1>1
<1>4. CASE status # "ok"
  BY <1>3, <1>4 DEF Scanned
<1>5. CASE status = "ok" /\ option # ""
  <2>1. option \in Key
    BY <1>5, OptionFacts
  <2>2. [values EXCEPT !.own[option] = word] \in Configs
    BY <2>1, OwnValue
  <2>3. Scanned(scan, word) = IF option \in Text \/ word \in Numeral
             THEN <<"ok", "", [values EXCEPT !.own[option] = word]>>
             ELSE <<"error", "", values>>
    BY <1>3, <1>5 DEF Scanned
  <2> QED
    BY <1>2, <2>2, <2>3
<1>6. CASE status = "ok" /\ option = ""
  <2>1. [values EXCEPT !.download_only = TRUE] \in Configs
    BY DEF Configs
  <2>2. IsOption(word) => KeyOf(word) \in DOMAIN Option
    BY OptionFacts
  <2>3. \/ IsOption(word) /\ Scanned(scan, word) = <<"ok", KeyOf(word), values>>
        \/ Scanned(scan, word) = <<"ok", "", [values EXCEPT !.download_only = TRUE]>>
        \/ Scanned(scan, word) = <<"help", "", values>>
        \/ Scanned(scan, word) = <<"error", "", values>>
    <3>1. CASE IsOption(word)
      <4>1. word \notin {"--download-only", "--help"}
        BY <3>1, OptionFacts
      <4> QED
        BY <1>3, <1>6, <3>1, <4>1 DEF Scanned
    <3>2. CASE ~IsOption(word) /\ word = "--download-only"
      BY <1>3, <1>6, <3>2 DEF Scanned
    <3>3. CASE ~IsOption(word) /\ word = "--help"
      BY <1>3, <1>6, <3>3 DEF Scanned
    <3>4. CASE ~IsOption(word) /\ word # "--download-only" /\ word # "--help"
      BY <1>3, <1>6, <3>4 DEF Scanned
    <3> QED
      BY <3>1, <3>2, <3>3, <3>4
  <2> QED
    BY <1>2, <2>1, <2>2, <2>3
<1> QED
  BY <1>4, <1>5, <1>6

\* All words scanned.
ScannedAll(base, words) == FoldLeft(Scanned, base, words)

\* The words are scanned one after another.
LEMMA ScanInTurn ==
  ASSUME NEW words \in Seq(STRING), NEW base \in Scans
  PROVE  \E r : /\ r \in [0..Len(words) -> Scans]
                /\ r[0] = base /\ r[Len(words)] = ScannedAll(base, words)
                /\ \A k \in 1..Len(words) : r[k] = Scanned(r[k - 1], words[k])
<1>1. PICK n \in Nat : n = Len(words) /\ DOMAIN words = 1..n
  BY LenProperties
<1> DEFINE F == [q \in (1..n) \X Scans |-> Scanned(q[2], words[q[1]])]
           Equation(g) == g = [s \in SUBSET DOMAIN words |->
             IF s = {} THEN base ELSE Scanned(g[s \ {Max(s)}], words[Max(s)])]
           fold == CHOOSE g : Equation(g)
<1>2. \A k \in 1..n : words[k] \in STRING
  BY <1>1, ElementOfSeq
<1>3. \A k \in 1..n, c \in Scans : F[<<k, c>>] = Scanned(c, words[k]) /\ F[<<k, c>>] \in Scans
  BY <1>2, ScannedType
<1>4. F \in [(1..n) \X Scans -> Scans]
  BY <1>2, ScannedType
<1> HIDE DEF F
<1>5. PICK it : IsFoldTable(it, n, Scans, base, F)
  BY <1>4, FoldTable
<1>6. Equation(it)
  <2>1. ASSUME NEW s \in SUBSET (1..n), s # {}
        PROVE  F[<<Max(s), it[s \ {Max(s)}]>>] = Scanned(it[s \ {Max(s)}], words[Max(s)])
    <3>1. Max(s) \in 1..n /\ it[s \ {Max(s)}] \in Scans
      BY <1>5, <2>1, GreatestBelow DEF IsFoldTable
    <3> QED
      BY <1>3, <3>1
  <2>2. it = [s \in SUBSET (1..n) |-> it[s]]
    BY <1>5 DEF IsFoldTable
  <2>3. \A s \in SUBSET (1..n) : it[s] =
          IF s = {} THEN base ELSE Scanned(it[s \ {Max(s)}], words[Max(s)])
    BY <1>5, <2>1 DEF IsFoldTable
  <2> QED
    BY <1>1, <2>2, <2>3, Zenon
<1>7. Equation(fold)
  BY <1>6, Zenon
<1>8. ScannedAll(base, words) = fold[1..n]
  BY <1>1, Zenon DEF ScannedAll, FoldLeft, MapThenFoldSet
<1> HIDE DEF fold
<1>9. \A s \in SUBSET (1..n) : fold[s] =
        IF s = {} THEN base ELSE Scanned(fold[s \ {Max(s)}], words[Max(s)])
  BY <1>1, <1>7
<1>10. SolvesFold(fold, n, Scans, base, F)
  BY <1>3, <1>9, GreatestBelow DEF SolvesFold
<1>11. PICK r : FoldRun(r, fold, n, Scans, base, F)
  BY <1>4, <1>10, FoldSteps
<1>12. /\ r \in [0..n -> Scans] /\ r[0] = base /\ r[n] = fold[1..n]
       /\ \A k \in 1..n : r[k] = F[<<k, r[k - 1]>>]
  BY <1>11 DEF FoldRun
<1>13. ASSUME NEW k \in 1..n
       PROVE  r[k] = Scanned(r[k - 1], words[k])
  <2>1. r[k - 1] \in Scans
    BY <1>12
  <2> QED
    BY <1>3, <1>12, <2>1
<1> QED
  BY <1>1, <1>8, <1>11, <1>12, <1>13

\* A section of config.json whose entries are right.
Sections == {section \in [name : {"analysis", "cache"}, entries : Seq(STRING \X STRING)] :
               \A j \in 1..Len(section.entries) : EntryOK(section.name, section.entries[j])}

\* apply_analysis_value and apply_cache_value.
WithEntry(name, values, entry) ==
  IF name = "analysis" THEN [values EXCEPT !.own[entry[1]] = ConfigValue(entry[1], entry[2])]
                       ELSE [values EXCEPT !.cache[entry[1]] = ConfigValue(entry[1], entry[2])]

\* An entry of a section, and what it does.
LEMMA EntryFacts ==
  ASSUME NEW section \in Sections, NEW k \in 1..Len(section.entries), NEW c \in Configs
  PROVE  LET e == section.entries[k]
             v == ConfigValue(e[1], e[2])
             new == WithEntry(section.name, c, e)
         IN  /\ e \in STRING \X STRING /\ v \in STRING /\ Len(e) = 2
             /\ new \in Configs /\ new.download_only = c.download_only
             /\ section.name = "analysis" =>
                  e[1] \in AnalysisKey /\ new.own = [c.own EXCEPT ![e[1]] = v] /\ new.cache = c.cache
             /\ section.name = "cache" =>
                  e[1] \in CacheKey /\ new.cache = [c.cache EXCEPT ![e[1]] = v] /\ new.own = c.own
<1> DEFINE e == section.entries[k]
           v == ConfigValue(e[1], e[2])
<1>1. /\ section.name \in {"analysis", "cache"} /\ section.entries \in Seq(STRING \X STRING)
      /\ EntryOK(section.name, e)
  BY DEF Sections
<1>2. e \in STRING \X STRING
  BY <1>1, ElementOfSeq
<1>3. e[1] \in STRING /\ e[2] \in STRING /\ Len(e) = 2
  BY <1>2
<1>4. v \in STRING
  <2>1. "-1" \in STRING
    BY WordsOK
  <2> QED
    BY <1>3, <2>1 DEF ConfigValue
<1>5. e[1] \in SectionKeys(section.name)
  BY <1>1 DEF EntryOK
<1> HIDE DEF e
<1> DEFINE new == WithEntry(section.name, c, e)
<1> HIDE DEF v
<1>6. section.name = "analysis" =>
        /\ e[1] \in AnalysisKey /\ new.own = [c.own EXCEPT ![e[1]] = v] /\ new.cache = c.cache
        /\ new \in Configs /\ new.download_only = c.download_only
  <2> HAVE section.name = "analysis"
  <2>1. e[1] \in AnalysisKey /\ e[1] \in Key
    BY <1>5 DEF SectionKeys, Key
  <2>2. new = [c EXCEPT !.own[e[1]] = v]
    BY DEF WithEntry, v
  <2>3. PICK key \in Key : key = e[1]
    BY <2>1
  <2>4. PICK word \in STRING : word = v
    BY <1>4
  <2>5. PICK result : result = new
    OBVIOUS
  <2> HIDE DEF new
  <2>6. /\ result \in Configs /\ result.own = [c.own EXCEPT ![key] = word]
        /\ result.cache = c.cache /\ result.download_only = c.download_only
    <3>1. result = [c EXCEPT !.own[key] = word]
      BY <2>2, <2>3, <2>4, <2>5
    <3>2. result \in Configs
      BY <3>1, OwnValue
    <3>3. result.own = [c.own EXCEPT ![key] = word]
      BY <3>1, OwnValue
    <3>4. result.cache = c.cache /\ result.download_only = c.download_only
      BY <3>1, OwnValue
    <3> QED
      BY <3>2, <3>3, <3>4
  <2> QED
    BY <2>1, <2>3, <2>4, <2>5, <2>6
<1>7. section.name = "cache" =>
        /\ e[1] \in CacheKey /\ new.cache = [c.cache EXCEPT ![e[1]] = v] /\ new.own = c.own
        /\ new \in Configs /\ new.download_only = c.download_only
  <2> HAVE section.name = "cache"
  <2>1. e[1] \in CacheKey /\ section.name # "analysis"
    BY <1>5 DEF SectionKeys
  <2>2. new = [c EXCEPT !.cache[e[1]] = v]
    BY <2>1 DEF WithEntry, v
  <2>3. PICK key \in CacheKey : key = e[1]
    BY <2>1
  <2>4. PICK word \in STRING : word = v
    BY <1>4
  <2>5. PICK result : result = new
    OBVIOUS
  <2> HIDE DEF new
  <2>6. /\ result \in Configs /\ result.cache = [c.cache EXCEPT ![key] = word]
        /\ result.own = c.own /\ result.download_only = c.download_only
    <3>1. result = [c EXCEPT !.cache[key] = word]
      BY <2>2, <2>3, <2>4, <2>5
    <3>2. result \in Configs
      BY <3>1, CacheValue
    <3>3. result.cache = [c.cache EXCEPT ![key] = word]
      BY <3>1, CacheValue
    <3>4. result.own = c.own /\ result.download_only = c.download_only
      BY <3>1, CacheValue
    <3> QED
      BY <3>2, <3>3, <3>4
  <2> QED
    BY <2>1, <2>3, <2>4, <2>5, <2>6
<1>8. new \in Configs /\ new.download_only = c.download_only
  BY <1>1, <1>6, <1>7
<1> HIDE DEF new
<1> QED
  BY <1>2, <1>3, <1>4, <1>6, <1>7, <1>8 DEF e, v, new

\* The entries of a section are applied one after another.
LEMMA EntriesInTurn ==
  ASSUME NEW section \in Sections, NEW base \in Configs
  PROVE  \E r : /\ r \in [0..Len(section.entries) -> Configs]
                /\ r[0] = base /\ r[Len(section.entries)] = WithSection(base, section)
                /\ \A k \in 1..Len(section.entries) :
                     r[k] = WithEntry(section.name, r[k - 1], section.entries[k])
<1>0. section.entries \in Seq(STRING \X STRING)
  BY DEF Sections
<1>1. PICK n \in Nat : n = Len(section.entries) /\ DOMAIN section.entries = 1..n
  BY <1>0, LenProperties
<1> DEFINE Op(c, e) == WithEntry(section.name, c, e)
           F == [q \in (1..n) \X Configs |-> Op(q[2], section.entries[q[1]])]
           Equation(g) == g = [s \in SUBSET DOMAIN section.entries |->
             IF s = {} THEN base ELSE Op(g[s \ {Max(s)}], section.entries[Max(s)])]
           fold == CHOOSE g : Equation(g)
<1>2. WithSection(base, section) = fold[1..n]
  BY <1>1, Zenon DEF WithSection, WithEntry, FoldLeft, MapThenFoldSet
<1>3. \A k \in 1..n, c \in Configs : Op(c, section.entries[k]) \in Configs
  BY <1>1, EntryFacts
<1> HIDE DEF Op
<1>4. /\ F \in [(1..n) \X Configs -> Configs]
      /\ \A k \in 1..n, c \in Configs : F[<<k, c>>] = Op(c, section.entries[k])
  BY <1>3
<1> HIDE DEF F
<1>5. PICK it : IsFoldTable(it, n, Configs, base, F)
  BY <1>4, FoldTable
<1>6. Equation(it)
  <2>1. ASSUME NEW s \in SUBSET (1..n), s # {}
        PROVE  F[<<Max(s), it[s \ {Max(s)}]>>] = Op(it[s \ {Max(s)}], section.entries[Max(s)])
    <3>1. Max(s) \in 1..n /\ it[s \ {Max(s)}] \in Configs
      BY <1>5, <2>1, GreatestBelow DEF IsFoldTable
    <3> QED
      BY <1>4, <3>1
  <2>2. it = [s \in SUBSET (1..n) |-> it[s]]
    BY <1>5 DEF IsFoldTable
  <2>3. \A s \in SUBSET (1..n) : it[s] =
          IF s = {} THEN base ELSE Op(it[s \ {Max(s)}], section.entries[Max(s)])
    BY <1>5, <2>1 DEF IsFoldTable
  <2> QED
    BY <1>1, <2>2, <2>3, Zenon
<1>7. Equation(fold)
  BY <1>6, Zenon
<1> HIDE DEF fold
<1>8. \A s \in SUBSET (1..n) : fold[s] =
        IF s = {} THEN base ELSE Op(fold[s \ {Max(s)}], section.entries[Max(s)])
  BY <1>1, <1>7
<1>9. SolvesFold(fold, n, Configs, base, F)
  BY <1>4, <1>8, GreatestBelow DEF SolvesFold
<1>10. PICK r : FoldRun(r, fold, n, Configs, base, F)
  BY <1>4, <1>9, FoldSteps
<1>11. /\ r \in [0..n -> Configs] /\ r[0] = base /\ r[n] = fold[1..n]
       /\ \A k \in 1..n : r[k] = F[<<k, r[k - 1]>>]
  BY <1>10 DEF FoldRun
<1>12. ASSUME NEW k \in 1..n
       PROVE  r[k] = WithEntry(section.name, r[k - 1], section.entries[k])
  <2>1. r[k - 1] \in Configs
    BY <1>11
  <2> QED
    BY <1>4, <1>11, <2>1 DEF Op
<1> QED
  BY <1>1, <1>2, <1>11, <1>12

\* So is the section.
LEMMA SectionsInTurn ==
  ASSUME NEW file, file \in Seq(Sections), Len(file) = 2, NEW base \in Configs
  PROVE  /\ \A s \in Sections, c \in Configs : WithSection(c, s) \in Configs
         /\ FoldLeft(WithSection, base, file) = WithSection(WithSection(base, file[1]), file[2])
<1>1. \A s \in Sections, c \in Configs : WithSection(c, s) \in Configs
  <2> SUFFICES ASSUME NEW s \in Sections, NEW c \in Configs PROVE WithSection(c, s) \in Configs
    OBVIOUS
  <2>1. PICK r : r \in [0..Len(s.entries) -> Configs] /\ r[Len(s.entries)] = WithSection(c, s)
    BY EntriesInTurn
  <2>2. Len(s.entries) \in Nat
    BY LenProperties DEF Sections
  <2> QED
    BY <2>1, <2>2
<1>2. PICK n \in Nat : n = 2
  OBVIOUS
<1>3. /\ DOMAIN file = 1..n /\ 1 \in 1..n /\ 2 \in 1..n
      /\ \A k \in 1..n : file[k] \in Sections
  BY <1>2, LenProperties, ElementOfSeq
<1> DEFINE F == [q \in (1..n) \X Configs |-> WithSection(q[2], file[q[1]])]
           Equation(g) == g = [s \in SUBSET DOMAIN file |->
             IF s = {} THEN base ELSE WithSection(g[s \ {Max(s)}], file[Max(s)])]
           fold == CHOOSE g : Equation(g)
<1>4. FoldLeft(WithSection, base, file) = fold[1..n]
  BY <1>3, Zenon DEF FoldLeft, MapThenFoldSet
<1>5. /\ F \in [(1..n) \X Configs -> Configs]
      /\ \A k \in 1..n, c \in Configs : F[<<k, c>>] = WithSection(c, file[k])
  BY <1>1, <1>3
<1> HIDE DEF F
<1>6. PICK it : IsFoldTable(it, n, Configs, base, F)
  BY <1>5, FoldTable
<1>7. Equation(it)
  <2>1. ASSUME NEW s \in SUBSET (1..n), s # {}
        PROVE  F[<<Max(s), it[s \ {Max(s)}]>>] = WithSection(it[s \ {Max(s)}], file[Max(s)])
    <3>1. Max(s) \in 1..n /\ it[s \ {Max(s)}] \in Configs
      BY <1>6, <2>1, GreatestBelow DEF IsFoldTable
    <3> QED
      BY <1>5, <3>1
  <2>2. it = [s \in SUBSET (1..n) |-> it[s]]
    BY <1>6 DEF IsFoldTable
  <2>3. \A s \in SUBSET (1..n) : it[s] =
          IF s = {} THEN base ELSE WithSection(it[s \ {Max(s)}], file[Max(s)])
    BY <1>6, <2>1 DEF IsFoldTable
  <2> QED
    BY <1>3, <2>2, <2>3, Zenon
<1>8. Equation(fold)
  BY <1>7, Zenon
<1> HIDE DEF fold
<1>9. \A s \in SUBSET (1..n) : fold[s] =
        IF s = {} THEN base ELSE WithSection(fold[s \ {Max(s)}], file[Max(s)])
  BY <1>3, <1>8
<1>10. SolvesFold(fold, n, Configs, base, F)
  BY <1>5, <1>9, GreatestBelow DEF SolvesFold
<1>11. PICK r : FoldRun(r, fold, n, Configs, base, F)
  BY <1>5, <1>10, FoldSteps
<1>12. /\ r \in [0..n -> Configs] /\ r[0] = base /\ r[n] = fold[1..n]
       /\ \A k \in 1..n : r[k] = F[<<k, r[k - 1]>>]
  BY <1>11 DEF FoldRun
<1>13. r[1] = WithSection(base, file[1]) /\ r[1] \in Configs
  BY <1>2, <1>3, <1>5, <1>12
<1>14. r[2] = WithSection(r[1], file[2])
  BY <1>2, <1>3, <1>5, <1>12, <1>13
<1> QED
  BY <1>1, <1>2, <1>4, <1>12, <1>13, <1>14

\* What was set again and again has the value it was given last.
LEMMA LastGiven ==
  ASSUME NEW n \in Nat, NEW G \in SUBSET (1..n), NEW v, NEW w,
         \A k \in 1..n : v[k] = IF k \in G THEN w[k] ELSE v[k - 1]
  PROVE  \/ G = {} /\ v[n] = v[0]
         \/ \E i \in G : (\A j \in G : j <= i) /\ v[n] = w[i]
<1> DEFINE Latest(k) == \/ (\A j \in G : ~(j <= k)) /\ v[k] = v[0]
                      \/ \E i \in G : (\A j \in G : j <= k => j <= i) /\ i <= k /\ v[k] = w[i]
           A == {k \in Nat : k <= n => Latest(k)}
<1>0. \A j \in G : j \in 1..n
  OBVIOUS
<1>1. 0 \in A
  BY <1>0
<1>2. ASSUME NEW k \in Nat, k \in A
      PROVE  k + 1 \in A
  <2> SUFFICES ASSUME k + 1 <= n PROVE Latest(k + 1)
    OBVIOUS
  <2>1. Latest(k) /\ k + 1 \in 1..n /\ (k + 1) - 1 = k
    BY <1>2
  <2>2. CASE k + 1 \in G
    BY <1>0, <2>1, <2>2
  <2>3. CASE k + 1 \notin G
    <3>1. \A j \in G : j <= k + 1 => j <= k
      BY <1>0, <2>3
    <3>2. v[k + 1] = v[k]
      BY <2>1, <2>3
    <3>3. CASE (\A j \in G : ~(j <= k)) /\ v[k] = v[0]
      BY <3>1, <3>2, <3>3
    <3>4. CASE \E i \in G : (\A j \in G : j <= k => j <= i) /\ i <= k /\ v[k] = w[i]
      <4>1. PICK i \in G : (\A j \in G : j <= k => j <= i) /\ i <= k /\ v[k] = w[i]
        BY <3>4
      <4>2. i <= k + 1 /\ v[k + 1] = w[i]
        BY <1>0, <3>2, <4>1
      <4>3. \A j \in G : j <= k + 1 => j <= i
        BY <3>1, <4>1
      <4> QED
        BY <4>2, <4>3
    <3> QED
      BY <2>1, <3>3, <3>4
  <2> QED
    BY <2>2, <2>3
<1> HIDE DEF A
<1>3. n \in A
  BY <1>1, <1>2, NatSetInduction
<1>4. Latest(n)
  BY <1>3 DEF A
<1>5. \A j \in G : j <= n
  BY <1>0
<1>6. CASE (\A j \in G : ~(j <= n)) /\ v[n] = v[0]
  BY <1>5, <1>6
<1>7. CASE \E i \in G : (\A j \in G : j <= n => j <= i) /\ i <= n /\ v[n] = w[i]
  BY <1>5, <1>7
<1> QED
  BY <1>4, <1>6, <1>7

\* The pairs of s that give the key a value; LastOf takes the last.
Given(s, key) == {i \in DOMAIN s : s[i][1] = key /\ Len(s[i]) = 2}

\* What LastOf takes, without the choice.
LEMMA LastOfIs ==
  ASSUME NEW s, NEW n \in Nat, DOMAIN s = 1..n, NEW key, NEW otherwise
  PROVE  /\ Given(s, key) = {} => LastOf(s, key, otherwise) = otherwise
         /\ \A i \in Given(s, key) : (\A j \in Given(s, key) : j <= i) =>
              LastOf(s, key, otherwise) = s[i][2]
<1> DEFINE given == Given(s, key)
<1>1. LastOf(s, key, otherwise) =
        IF given = {} THEN otherwise ELSE s[CHOOSE i \in given : \A j \in given : j <= i][2]
  BY Zenon DEF LastOf, Given
<1>2. given \in SUBSET (1..n)
  BY DEF Given
<1> HIDE DEF given
<1>3. ASSUME NEW i \in given, \A j \in given : j <= i
      PROVE  (CHOOSE k \in given : \A j \in given : j <= k) = i
  <2>1. ASSUME NEW k \in given, \A j \in given : j <= k
        PROVE  k = i
    <3>1. k <= i /\ i <= k /\ k \in 1..n /\ i \in 1..n
      BY <1>2, <1>3, <2>1
    <3> QED
      BY <3>1
  <2> QED
    BY <1>3, <2>1
<1>4. given = {} => LastOf(s, key, otherwise) = otherwise
  BY <1>1
<1>5. \A i \in given : (\A j \in given : j <= i) => LastOf(s, key, otherwise) = s[i][2]
  BY <1>1, <1>3
<1> QED
  BY <1>4, <1>5 DEF given

\* The value of a key in the entries of a section, or its default.
Written(entries, key) == ConfigValue(key, LastOf(entries, key, Defaults[key]))

\* The defaults are values that are read as they are.
LEMMA DefaultsAreValues ==
  /\ Defaults \in [Key -> STRING] /\ Untouched \in Configs
  /\ \A key \in Key : ConfigValue(key, Defaults[key]) = Defaults[key]
<1>1. Key = {"parser_workers", "limit", "download_workers", "processor_plugin", "chunk_size",
             "output_dir"}
  BY DEF Key, AnalysisKey, CacheKey
<1>2. /\ "3" \in STRING /\ "-1" \in STRING /\ "" \in STRING /\ "1" \in STRING
      /\ "bgpdata" \in STRING
  BY WordsOK
<1>3. /\ Defaults["parser_workers"] = "3" /\ Defaults["limit"] = "-1"
      /\ Defaults["download_workers"] = "3" /\ Defaults["processor_plugin"] = ""
      /\ Defaults["chunk_size"] = "1" /\ Defaults["output_dir"] = "bgpdata"
      /\ Defaults = [key \in Key |-> Defaults[key]]
  <2>1. DOMAIN Defaults = Key
    BY <1>1 DEF Defaults
  <2> QED
    BY <2>1 DEF Defaults
<1>4. \A key \in Key : Defaults[key] \in STRING
  BY <1>1, <1>2, <1>3
<1>5. Defaults \in [Key -> STRING]
  BY <1>3, <1>4
<1>6. Untouched \in Configs
  BY <1>4, <1>5 DEF Untouched, Configs, Key
<1>7. \A key \in Key : ConfigValue(key, Defaults[key]) = Defaults[key]
  BY <1>1, <1>3 DEF ConfigValue
<1> QED
  BY <1>5, <1>6, <1>7

\* What a section does to a configuration.
LEMMA SectionIsRead ==
  ASSUME NEW section \in Sections, NEW base \in Configs
  PROVE  /\ WithSection(base, section) \in Configs
         /\ WithSection(base, section).download_only = base.download_only
         /\ section.name = "analysis" =>
              /\ WithSection(base, section).cache = base.cache
              /\ \A key \in Key : base.own[key] = Defaults[key] =>
                   WithSection(base, section).own[key] = Written(section.entries, key)
         /\ section.name = "cache" =>
              /\ WithSection(base, section).own = base.own
              /\ \A key \in CacheKey : base.cache[key] = Defaults[key] =>
                   WithSection(base, section).cache[key] = Written(section.entries, key)
<1> DEFINE s == section.entries
<1>0. s \in Seq(STRING \X STRING) /\ section.name \in {"analysis", "cache"}
  BY DEF Sections
<1>1. PICK n \in Nat : n = Len(s) /\ DOMAIN s = 1..n
  BY <1>0, LenProperties
<1>2. PICK r : /\ r \in [0..n -> Configs]
               /\ r[0] = base /\ r[n] = WithSection(base, section)
               /\ \A k \in 1..n : r[k] = WithEntry(section.name, r[k - 1], s[k])
  BY <1>1, EntriesInTurn
<1> DEFINE entry(k) == s[k]
           value(k) == ConfigValue(s[k][1], s[k][2])
<1>3. ASSUME NEW k \in 1..n
      PROVE  /\ r[k].download_only = r[k - 1].download_only
             /\ Len(s[k]) = 2
             /\ section.name = "analysis" =>
                  /\ r[k].cache = r[k - 1].cache /\ s[k][1] \in AnalysisKey
                  /\ r[k].own = [r[k - 1].own EXCEPT ![s[k][1]] = value(k)]
             /\ section.name = "cache" =>
                  /\ r[k].own = r[k - 1].own /\ s[k][1] \in CacheKey
                  /\ r[k].cache = [r[k - 1].cache EXCEPT ![s[k][1]] = value(k)]
  <2>1. r[k - 1] \in Configs /\ r[k] = WithEntry(section.name, r[k - 1], s[k])
    BY <1>2
  <2> QED
    BY <1>1, <2>1, EntryFacts
<1> HIDE DEF s, value
<1>4. \A k \in 0..n : r[k] \in Configs
  BY <1>2
<1> DEFINE Kept(k) == /\ r[k].download_only = base.download_only
                      /\ section.name = "analysis" => r[k].cache = base.cache
                      /\ section.name = "cache" => r[k].own = base.own
           A == {k \in Nat : k <= n => Kept(k)}
<1>5. Kept(n)
  <2>1. 0 \in A
    BY <1>2
  <2>2. ASSUME NEW k \in Nat, k \in A
        PROVE  k + 1 \in A
    <3> SUFFICES ASSUME k + 1 <= n PROVE Kept(k + 1)
      OBVIOUS
    <3>1. Kept(k) /\ k + 1 \in 1..n /\ (k + 1) - 1 = k
      BY <2>2
    <3> QED
      BY <1>3, <3>1
  <2> HIDE DEF A
  <2>3. n \in A
    BY <2>1, <2>2, NatSetInduction
  <2> QED
    BY <2>3 DEF A
<1>6. ASSUME NEW key \in Key, NEW v,
             \A k \in 1..n : v[k] = IF s[k][1] = key THEN value(k) ELSE v[k - 1],
             v[0] = Defaults[key]
      PROVE  v[n] = Written(s, key)
  <2> DEFINE G == Given(s, key)
             w == [k \in 1..n |-> value(k)]
  <2>1. G \in SUBSET (1..n) /\ \A k \in 1..n : k \in G <=> s[k][1] = key
    BY <1>1, <1>3 DEF Given
  <2>2. \A k \in 1..n : v[k] = IF k \in G THEN w[k] ELSE v[k - 1]
    BY <1>6, <2>1
  <2> HIDE DEF w, G
  <2>3. \/ G = {} /\ v[n] = v[0]
        \/ \E i \in G : (\A j \in G : j <= i) /\ v[n] = w[i]
    BY <2>1, <2>2, LastGiven
  <2>4. CASE G = {} /\ v[n] = v[0]
    <3>1. LastOf(s, key, Defaults[key]) = Defaults[key]
      BY <1>1, <2>4, LastOfIs DEF G
    <3> QED
      BY <1>6, <2>4, <3>1, DefaultsAreValues DEF Written
  <2>5. CASE \E i \in G : (\A j \in G : j <= i) /\ v[n] = w[i]
    <3>1. PICK i \in G : (\A j \in G : j <= i) /\ v[n] = w[i]
      BY <2>5
    <3>2. LastOf(s, key, Defaults[key]) = s[i][2]
      BY <1>1, <3>1, LastOfIs DEF G
    <3>3. w[i] = ConfigValue(key, s[i][2])
      BY <2>1, <3>1 DEF w, value
    <3> QED
      BY <3>1, <3>2, <3>3 DEF Written
  <2> QED
    BY <2>3, <2>4, <2>5
<1>7. ASSUME section.name = "analysis", NEW key \in Key, base.own[key] = Defaults[key]
      PROVE  r[n].own[key] = Written(s, key)
  <2> DEFINE v == [k \in 0..n |-> r[k].own[key]]
  <2>1. ASSUME NEW k \in 1..n
        PROVE  v[k] = IF s[k][1] = key THEN value(k) ELSE v[k - 1]
    <3>1. k - 1 \in 0..n /\ k \in 0..n
      OBVIOUS
    <3>2. r[k - 1].own \in [Key -> STRING]
      BY <1>4, <3>1 DEF Configs
    <3>3. r[k].own = [r[k - 1].own EXCEPT ![s[k][1]] = value(k)] /\ s[k][1] \in Key
      BY <1>3, <1>7 DEF Key
    <3>4. r[k].own[key] = IF s[k][1] = key THEN value(k) ELSE r[k - 1].own[key]
      BY <3>2, <3>3
    <3> QED
      BY <3>1, <3>4
  <2>2. v[0] = Defaults[key]
    BY <1>2, <1>7
  <2>3. v[n] = r[n].own[key]
    OBVIOUS
  <2> HIDE DEF v
  <2> QED
    BY <1>6, <2>1, <2>2, <2>3
<1>8. ASSUME section.name = "cache", NEW key \in CacheKey, base.cache[key] = Defaults[key]
      PROVE  r[n].cache[key] = Written(s, key)
  <2> DEFINE v == [k \in 0..n |-> r[k].cache[key]]
  <2>1. ASSUME NEW k \in 1..n
        PROVE  v[k] = IF s[k][1] = key THEN value(k) ELSE v[k - 1]
    <3>1. k - 1 \in 0..n /\ k \in 0..n
      OBVIOUS
    <3>2. r[k - 1].cache \in [CacheKey -> STRING]
      BY <1>4, <3>1 DEF Configs
    <3>3. r[k].cache = [r[k - 1].cache EXCEPT ![s[k][1]] = value(k)] /\ s[k][1] \in CacheKey
      BY <1>3, <1>8
    <3>4. r[k].cache[key] = IF s[k][1] = key THEN value(k) ELSE r[k - 1].cache[key]
      BY <3>2, <3>3
    <3> QED
      BY <3>1, <3>4
  <2>2. v[0] = Defaults[key] /\ key \in Key
    BY <1>2, <1>8 DEF Key
  <2>3. v[n] = r[n].cache[key]
    OBVIOUS
  <2> HIDE DEF v
  <2> QED
    BY <1>6, <2>1, <2>2, <2>3
<1>9. r[n] \in Configs
  BY <1>4
<1> QED
  BY <1>2, <1>5, <1>7, <1>8, <1>9 DEF s

\* The entries of the section of that name.
EntriesOf(file, name) == (CHOOSE s \in ToSet(file) : s.name = name).entries

\* A file that is right has the two sections, in one order or the other.
LEMMA TwoSections ==
  ASSUME NEW file \in Seq([name : STRING, entries : Seq(STRING \X STRING)]), FileOK(file)
  PROVE  /\ file \in Seq(Sections) /\ Len(file) = 2 /\ file[1] \in Sections /\ file[2] \in Sections
         /\ \/ file[1].name = "analysis" /\ file[2].name = "cache"
            \/ file[1].name = "cache" /\ file[2].name = "analysis"
         /\ EntriesOf(file, file[1].name) = file[1].entries
         /\ EntriesOf(file, file[2].name) = file[2].entries
<1>1. Len(file) = 2 /\ DOMAIN file = {1, 2}
  <2>1. Len(file) = 2 /\ DOMAIN file = 1..2
    BY LenProperties DEF FileOK
  <2> QED
    BY <2>1
<1>2. {file[i].name : i \in {1, 2}} = {"analysis", "cache"}
  BY <1>1 DEF FileOK
<1>3. \/ file[1].name = "analysis" /\ file[2].name = "cache"
      \/ file[1].name = "cache" /\ file[2].name = "analysis"
  <2>1. file[1].name \in {"analysis", "cache"} /\ file[2].name \in {"analysis", "cache"}
    BY <1>2
  <2>2. "analysis" \in {file[i].name : i \in {1, 2}} /\ "cache" \in {file[i].name : i \in {1, 2}}
    BY <1>2
  <2>3. "analysis" # "cache"
    OBVIOUS
  <2> QED
    BY <2>1, <2>2, <2>3
<1>4. ASSUME NEW i \in {1, 2}
      PROVE  file[i] \in Sections /\ EntriesOf(file, file[i].name) = file[i].entries
  <2>1. file[i] \in [name : STRING, entries : Seq(STRING \X STRING)]
    <3>1. i \in 1..Len(file)
      BY <1>1
    <3> QED
      BY <3>1, ElementOfSeq
  <2>2. file[i].name \in {"analysis", "cache"}
    BY <1>3
  <2>3. DOMAIN file[i].entries = 1..Len(file[i].entries)
    BY <2>1, LenProperties
  <2>4. \A j \in 1..Len(file[i].entries) : EntryOK(file[i].name, file[i].entries[j])
    BY <1>1, <2>3 DEF FileOK
  <2>5. file[i] \in [name : {"analysis", "cache"}, entries : Seq(STRING \X STRING)]
    BY <2>1, <2>2
  <2>6. file[i] \in ToSet(file) /\ \A s \in ToSet(file) : s.name = file[i].name => s = file[i]
    <3>1. ToSet(file) = {file[1], file[2]}
      BY <1>1 DEF ToSet
    <3> QED
      BY <1>3, <3>1
  <2> QED
    BY <2>4, <2>5, <2>6 DEF Sections, EntriesOf
<1>5. file \in Seq(Sections)
  <2>1. DOMAIN file = 1..2 /\ file = [i \in 1..2 |-> file[i]]
    BY <1>1, LenProperties
  <2>2. \A i \in 1..2 : file[i] \in Sections
    BY <1>4
  <2>3. PICK n \in Nat : n = 2
    OBVIOUS
  <2>4. file \in [1..n -> Sections]
    BY <2>1, <2>2, <2>3
  <2> QED
    BY <2>4, SeqDef
<1> QED
  BY <1>1, <1>3, <1>4, <1>5

\* What config.json comes to, in either order of its sections.
LEMMA LoadedAsWritten ==
  ASSUME NEW file \in Seq([name : STRING, entries : Seq(STRING \X STRING)]), FileOK(file)
  PROVE  /\ LoadedFile(file) \in Configs /\ LoadedFile(file).download_only = FALSE
         /\ \A key \in AnalysisKey :
              LoadedFile(file).own[key] = Written(EntriesOf(file, "analysis"), key)
         /\ \A key \in ModeKey :
              LoadedFile(file).cache[key] = Written(EntriesOf(file, "cache"), key)
         /\ LoadedFile(file).own["download_workers"] =
              Written(EntriesOf(file, "cache"), "download_workers")
         /\ LoadedFile(file).own["output_dir"] =
              AbsoluteRoot(Written(EntriesOf(file, "cache"), "output_dir"))
<1> DEFINE read == FoldLeft(WithSection, Untouched, file)
           first == WithSection(Untouched, file[1])
<1>1. /\ file \in Seq(Sections) /\ Len(file) = 2 /\ file[1] \in Sections /\ file[2] \in Sections
      /\ \/ file[1].name = "analysis" /\ file[2].name = "cache"
         \/ file[1].name = "cache" /\ file[2].name = "analysis"
      /\ EntriesOf(file, file[1].name) = file[1].entries
      /\ EntriesOf(file, file[2].name) = file[2].entries
  BY TwoSections
<1>2. /\ Untouched \in Configs /\ Untouched.download_only = FALSE
      /\ \A key \in Key : Untouched.own[key] = Defaults[key]
      /\ \A key \in CacheKey : Untouched.cache[key] = Defaults[key]
  BY DefaultsAreValues DEF Untouched
<1>3. read = WithSection(first, file[2])
  BY <1>1, <1>2, SectionsInTurn
<1>4. first \in Configs /\ first.download_only = FALSE
  BY <1>1, <1>2, SectionIsRead
<1>5. /\ read \in Configs /\ read.download_only = FALSE
      /\ \A key \in Key : read.own[key] = Written(EntriesOf(file, "analysis"), key)
      /\ \A key \in CacheKey : read.cache[key] = Written(EntriesOf(file, "cache"), key)
  <2> HIDE DEF read
  <2>1. CASE file[1].name = "analysis" /\ file[2].name = "cache"
    <3>1. /\ \A key \in Key : first.own[key] = Written(EntriesOf(file, "analysis"), key)
          /\ first.cache = Untouched.cache
      BY <1>1, <1>2, <2>1, SectionIsRead
    <3> HIDE DEF first
    <3>2. \A key \in CacheKey : first.cache[key] = Defaults[key]
      BY <1>2, <3>1
    <3>3. /\ read.own = first.own
          /\ \A key \in CacheKey : read.cache[key] = Written(EntriesOf(file, "cache"), key)
      BY <1>1, <1>3, <1>4, <2>1, <3>2, SectionIsRead
    <3>4. read \in Configs /\ read.download_only = FALSE
      BY <1>1, <1>3, <1>4, SectionIsRead
    <3> QED
      BY <3>1, <3>3, <3>4
  <2>2. CASE file[1].name = "cache" /\ file[2].name = "analysis"
    <3>1. /\ \A key \in CacheKey : first.cache[key] = Written(EntriesOf(file, "cache"), key)
          /\ first.own = Untouched.own
      BY <1>1, <1>2, <2>2, SectionIsRead
    <3> HIDE DEF first
    <3>2. \A key \in Key : first.own[key] = Defaults[key]
      BY <1>2, <3>1
    <3>3. /\ read.cache = first.cache
          /\ \A key \in Key : read.own[key] = Written(EntriesOf(file, "analysis"), key)
      BY <1>1, <1>3, <1>4, <2>2, <3>2, SectionIsRead
    <3>4. read \in Configs /\ read.download_only = FALSE
      BY <1>1, <1>3, <1>4, SectionIsRead
    <3> QED
      BY <3>1, <3>3, <3>4
  <2> QED
    BY <1>1, <2>1, <2>2
<1> DEFINE root == AbsoluteRoot(read.cache["output_dir"])
<1>6. LoadedFile(file) = [read EXCEPT !.cache["output_dir"] = root, !.own["output_dir"] = root,
                                      !.own["download_workers"] = read.cache["download_workers"]]
  BY Zenon DEF LoadedFile
<1> HIDE DEF read
<1>7. /\ "output_dir" \in CacheKey /\ "output_dir" \in Key /\ "output_dir" \notin AnalysisKey
      /\ "download_workers" \in CacheKey /\ "download_workers" \in Key
      /\ "download_workers" \notin AnalysisKey
      /\ AnalysisKey \subseteq Key /\ ModeKey \subseteq CacheKey /\ "output_dir" \notin ModeKey
  BY DEF CacheKey, AnalysisKey, Key, ModeKey
<1>8. read.own \in [Key -> STRING] /\ read.cache \in [CacheKey -> STRING]
  BY <1>5 DEF Configs
<1>9. root \in STRING
  <2>1. "/repo/bgpdata" \in STRING
    BY WordsOK
  <2> QED
    BY <1>7, <1>8, <2>1 DEF AbsoluteRoot
<1>10. /\ LoadedFile(file).own = [read.own EXCEPT !["output_dir"] = root,
                                    !["download_workers"] = read.cache["download_workers"]]
       /\ LoadedFile(file).cache = [read.cache EXCEPT !["output_dir"] = root]
       /\ LoadedFile(file).download_only = read.download_only
       /\ LoadedFile(file) = [own |-> LoadedFile(file).own, cache |-> LoadedFile(file).cache,
                              download_only |-> LoadedFile(file).download_only]
  <2> HIDE DEF root
  <2> QED
    BY <1>5, <1>6 DEF Configs
<1> HIDE DEF root
<1>11. LoadedFile(file).own \in [Key -> STRING] /\ LoadedFile(file).cache \in [CacheKey -> STRING]
  BY <1>7, <1>8, <1>9, <1>10, SMTT(40)
<1>12. LoadedFile(file) \in Configs
  BY <1>5, <1>10, <1>11 DEF Configs
<1>13. \A key \in AnalysisKey : LoadedFile(file).own[key] = read.own[key]
  BY <1>7, <1>8, <1>10
<1>14. \A key \in ModeKey : LoadedFile(file).cache[key] = read.cache[key]
  BY <1>7, <1>8, <1>10
<1>15. /\ LoadedFile(file).own["output_dir"] = root
       /\ LoadedFile(file).own["download_workers"] = read.cache["download_workers"]
  BY <1>7, <1>8, <1>10
<1> QED
  BY <1>5, <1>7, <1>10, <1>12, <1>13, <1>14, <1>15 DEF root

\* What a key comes to without the command line, apart from the directory of config.json.
FromFile(file, asks, key) ==
  Written(IF key \in CacheKey \ {"parser_workers", "limit"} \/ (key \in ModeKey /\ asks)
          THEN EntriesOf(file, "cache") ELSE EntriesOf(file, "analysis"), key)

\* InMode: what config.json comes to in the mode of the command line.
LEMMA ModeIsKept ==
  ASSUME NEW file \in Seq([name : STRING, entries : Seq(STRING \X STRING)]), FileOK(file),
         NEW argv
  PROVE  LET start == InMode(LoadedFile(file), argv)
         IN  /\ start \in Configs /\ start.download_only = AsksForDownload(argv)
             /\ \A key \in Key \ {"output_dir"} :
                  start.own[key] = FromFile(file, AsksForDownload(argv), key)
             /\ start.own["output_dir"] =
                  AbsoluteRoot(FromFile(file, AsksForDownload(argv), "output_dir"))
<1> DEFINE loaded == LoadedFile(file)
           start == InMode(loaded, argv)
           asks == AsksForDownload(argv)
<1>1. /\ loaded \in Configs /\ loaded.download_only = FALSE
      /\ \A key \in AnalysisKey : loaded.own[key] = Written(EntriesOf(file, "analysis"), key)
      /\ \A key \in ModeKey : loaded.cache[key] = Written(EntriesOf(file, "cache"), key)
      /\ loaded.own["download_workers"] = Written(EntriesOf(file, "cache"), "download_workers")
      /\ loaded.own["output_dir"] = AbsoluteRoot(Written(EntriesOf(file, "cache"), "output_dir"))
  BY LoadedAsWritten
<1>2. asks \in BOOLEAN
  BY DEF AsksForDownload
<1>3. start = IF ~asks THEN loaded
              ELSE [loaded EXCEPT
                     !.own = [k \in Key |-> IF k \in ModeKey THEN loaded.cache[k] ELSE loaded.own[k]],
                     !.download_only = TRUE]
  BY DEF InMode
<1> HIDE DEF loaded, start, asks
<1>4. loaded.own \in [Key -> STRING] /\ loaded.cache \in [CacheKey -> STRING]
  BY <1>1 DEF Configs
<1>5. /\ Key = AnalysisKey \cup {"download_workers", "output_dir"}
      /\ ModeKey \subseteq CacheKey /\ "output_dir" \in CacheKey \ {"parser_workers", "limit"}
      /\ "download_workers" \in CacheKey \ {"parser_workers", "limit"}
      /\ "download_workers" \in ModeKey /\ "output_dir" \notin ModeKey
      /\ \A key \in AnalysisKey : key \notin CacheKey \ {"parser_workers", "limit"}
      /\ ModeKey \subseteq Key
  BY DEF Key, AnalysisKey, CacheKey, ModeKey
<1>6. start.own = [k \in Key |-> IF asks /\ k \in ModeKey THEN loaded.cache[k] ELSE loaded.own[k]]
  <2>1. CASE ~asks
    BY <1>3, <1>4, <2>1
  <2>2. CASE asks
    BY <1>1, <1>3, <2>2 DEF Configs
  <2> QED
    BY <1>2, <2>1, <2>2
<1>7. start \in Configs /\ start.download_only = asks
  <2>1. CASE ~asks
    BY <1>1, <1>2, <1>3, <2>1
  <2>2. CASE asks
    <3>1. \A k \in Key : (IF k \in ModeKey THEN loaded.cache[k] ELSE loaded.own[k]) \in STRING
      BY <1>4, <1>5
    <3>2. [k \in Key |-> IF k \in ModeKey THEN loaded.cache[k] ELSE loaded.own[k]] \in [Key -> STRING]
      BY <3>1
    <3> QED
      BY <1>1, <1>2, <1>3, <2>2, <3>2 DEF Configs
  <2> QED
    BY <1>2, <2>1, <2>2
<1>8. ASSUME NEW key \in Key \ {"output_dir"}
      PROVE  start.own[key] = FromFile(file, asks, key)
  <2>1. CASE key \in AnalysisKey
    <3>1. CASE asks /\ key \in ModeKey
      BY <1>1, <1>6, <3>1 DEF FromFile
    <3>2. CASE ~(asks /\ key \in ModeKey)
      BY <1>1, <1>5, <1>6, <2>1, <3>2 DEF FromFile
    <3> QED
      BY <3>1, <3>2
  <2>2. CASE key = "download_workers"
    BY <1>1, <1>5, <1>6, <2>2 DEF FromFile
  <2> QED
    BY <1>5, <2>1, <2>2
<1>9. start.own["output_dir"] = AbsoluteRoot(FromFile(file, asks, "output_dir"))
  <2>1. "output_dir" \in Key
    BY <1>5
  <2>2. start.own["output_dir"] = loaded.own["output_dir"]
    BY <1>5, <1>6, <2>1
  <2> QED
    BY <1>1, <1>5, <2>2 DEF FromFile
<1> QED
  BY <1>7, <1>8, <1>9 DEF start, loaded, asks

Argument  == ((DOMAIN Option) \X STRING) \cup [1..1 -> STRING]
Arguments == {a \in Seq(Argument) :
                \A j \in DOMAIN a : Len(a[j]) = 1 /\ IsOption(a[j][1]) => j = Len(a)}

\* The words of an argument.
WordsOf(argument) == IF Len(argument) = 2 THEN <<Option[argument[1]], argument[2]>> ELSE argument

\* An argument is an option with its value or a single word.
LEMMA ArgumentFacts ==
  ASSUME NEW a \in Argument
  PROVE  /\ WordsOf(a) \in Seq(STRING)
         /\ \/ /\ Len(a) = 2 /\ a[1] \in DOMAIN Option /\ a[2] \in STRING
               /\ Len(WordsOf(a)) = 2 /\ WordsOf(a)[1] = Option[a[1]] /\ WordsOf(a)[2] = a[2]
            \/ /\ Len(a) = 1 /\ a[1] \in STRING
               /\ Len(WordsOf(a)) = 1 /\ WordsOf(a)[1] = a[1]
<1>1. CASE a \in (DOMAIN Option) \X STRING
  <2>1. Len(a) = 2 /\ a[1] \in DOMAIN Option /\ a[2] \in STRING
    <3> DEFINE O == DOMAIN Option
    <3>1. a \in O \X STRING
      BY <1>1
    <3> HIDE DEF O
    <3>2. a[1] \in O /\ a[2] \in STRING /\ a = <<a[1], a[2]>>
      BY <3>1
    <3>3. Len(a) = 2
      BY <3>2
    <3> QED
      BY <3>2, <3>3 DEF O
  <2>2. Option[a[1]] \in STRING
    BY <2>1, OptionFacts
  <2>3. WordsOf(a) = <<Option[a[1]], a[2]>>
    BY <2>1 DEF WordsOf
  <2> QED
    BY <2>1, <2>2, <2>3
<1>2. CASE a \in [1..1 -> STRING]
  <2>1. PICK n \in Nat : n = 1
    OBVIOUS
  <2>2. a \in [1..n -> STRING]
    BY <1>2, <2>1
  <2>3. a \in Seq(STRING) /\ DOMAIN a = 1..n
    BY <2>2, SeqDef
  <2>4. Len(a) = 1 /\ a[1] \in STRING
    BY <2>1, <2>2, <2>3, LenProperties
  <2>5. WordsOf(a) = a
    BY <2>4 DEF WordsOf
  <2> QED
    BY <2>3, <2>4, <2>5
<1> QED
  BY <1>1, <1>2 DEF Argument

\* Where the words of each argument are among the words.
LEMMA WordsInTurn ==
  ASSUME NEW arguments \in Seq(Argument)
  PROVE  \E f : /\ f \in [0..Len(arguments) -> Seq(STRING)]
                /\ f[0] = <<>> /\ f[Len(arguments)] = Words(arguments)
                /\ \A k \in 1..Len(arguments) : f[k] = f[k - 1] \o WordsOf(arguments[k])
<1>1. PICK n \in Nat : n = Len(arguments) /\ DOMAIN arguments = 1..n
  BY LenProperties
<1> DEFINE parts == [i \in DOMAIN arguments |-> WordsOf(arguments[i])]
           Acc == Seq(STRING)
           F == [q \in (1..n) \X Acc |-> q[2] \o WordsOf(arguments[q[1]])]
<1>2. \A k \in 1..n : arguments[k] \in Argument /\ WordsOf(arguments[k]) \in Acc
  BY <1>1, ElementOfSeq, ArgumentFacts
<1>3. /\ F \in [(1..n) \X Acc -> Acc]
      /\ \A k \in 1..n, c \in Acc : F[<<k, c>>] = c \o WordsOf(arguments[k])
  BY <1>2, ConcatProperties
<1>4. <<>> \in Acc
  BY EmptySeq
<1> HIDE DEF F, Acc
<1>5. PICK it : IsFoldTable(it, n, Acc, <<>>, F)
  BY <1>3, <1>4, FoldTable
<1>6. SolvesFold(it, n, Acc, <<>>, F)
  <2>1. \A s \in SUBSET (1..n) : it[s] = IF s = {} THEN <<>> ELSE F[<<Max(s), it[s \ {Max(s)}]>>]
    BY <1>5 DEF IsFoldTable
  <2>2. it[{}] = <<>>
    BY <2>1
  <2>3. \A s \in SUBSET (1..n) : s # {} /\ it[s \ {Max(s)}] \in Acc =>
          it[s] = F[<<Max(s), it[s \ {Max(s)}]>>]
    BY <2>1
  <2> QED
    BY <2>2, <2>3 DEF SolvesFold
<1>7. PICK f : FoldRun(f, it, n, Acc, <<>>, F)
  BY <1>3, <1>4, <1>6, FoldSteps
<1>8. /\ f \in [0..n -> Acc] /\ f[0] = <<>>
      /\ \A k \in 1..n : f[k] = f[k - 1] \o WordsOf(arguments[k])
  <2>1. f \in [0..n -> Acc] /\ f[0] = <<>> /\ \A k \in 1..n : f[k] = F[<<k, f[k - 1]>>]
    BY <1>7 DEF FoldRun
  <2>2. \A k \in 1..n : f[k - 1] \in Acc
    BY <2>1
  <2> QED
    BY <1>3, <2>1, <2>2
<1>9. Len(parts) = n /\ \A k \in 1..n : parts[k] = WordsOf(arguments[k])
  <2>1. parts = [i \in 1..n |-> WordsOf(arguments[i])]
    BY <1>1
  <2>2. parts \in [1..n -> Acc]
    BY <1>2, <2>1
  <2>3. parts \in Seq(Acc) /\ DOMAIN parts = 1..n
    BY <2>2, SeqDef
  <2>4. Len(parts) = n
    BY <2>3, LenProperties
  <2> QED
    BY <2>1, <2>4
<1>10. Words(arguments) = FlattenSeq(parts)
  BY Zenon DEF Words, WordsOf
<1> HIDE DEF parts
<1> DEFINE Equation(g) == g = [i \in 1..Len(parts) |-> IF i = 1 THEN parts[i] ELSE g[i - 1] \o parts[i]]
           flat == CHOOSE g : Equation(g)
<1>11. FlattenSeq(parts) = IF Len(parts) = 0 THEN parts ELSE flat[Len(parts)]
  BY Zenon DEF FlattenSeq
<1>12. Equation(flat)
  <2> DEFINE g == [i \in 1..n |-> f[i]]
  <2>1. \A i \in 1..n : g[i] = IF i = 1 THEN parts[i] ELSE g[i - 1] \o parts[i]
    <3> SUFFICES ASSUME NEW i \in 1..n
                 PROVE  g[i] = IF i = 1 THEN parts[i] ELSE g[i - 1] \o parts[i]
      OBVIOUS
    <3>1. f[i] = f[i - 1] \o WordsOf(arguments[i]) /\ parts[i] = WordsOf(arguments[i])
      BY <1>8, <1>9
    <3>2. CASE i = 1
      <4>1. f[i] = <<>> \o parts[i]
        <5>1. i - 1 = 0
          BY <3>2
        <5> QED
          BY <1>8, <3>1, <5>1
      <4>2. parts[i] \in Seq(STRING)
        BY <1>2, <3>1 DEF Acc
      <4>3. f[i] = parts[i]
        BY <4>1, <4>2, ConcatEmptySeq
      <4> QED
        BY <3>2, <4>3
    <3>3. CASE i # 1
      <4>1. i - 1 \in 1..n
        BY <3>3
      <4> QED
        BY <3>1, <3>3, <4>1
    <3> QED
      BY <3>2, <3>3
  <2>2. g = [i \in 1..n |-> g[i]]
    OBVIOUS
  <2> HIDE DEF g
  <2>3. Equation(g)
    BY <1>9, <2>1, <2>2
  <2> HIDE DEF Equation
  <2> QED
    BY <2>3, Zenon
<1> HIDE DEF flat
<1>13. Words(arguments) = f[n]
  <2>1. CASE n = 0
    <3>1. Words(arguments) = parts /\ parts = <<>>
      <4>1. parts \in Seq(Acc) /\ Len(parts) = 0
        <5>1. parts \in [1..n -> Acc]
          BY <1>1, <1>2 DEF parts
        <5> QED
          BY <1>9, <2>1, <5>1, SeqDef
      <4> QED
        BY <1>10, <1>11, <4>1, EmptySeq
    <3> QED
      BY <1>8, <2>1, <3>1
  <2>2. CASE n # 0
    <3> DEFINE A == {k \in Nat : k + 1 <= n => flat[k + 1] = f[k + 1]}
    <3>1. \A i \in 1..n : flat[i] = IF i = 1 THEN parts[i] ELSE flat[i - 1] \o parts[i]
      BY <1>9, <1>12
    <3>2. 0 \in A
      <4>1. 1 \in 1..n /\ flat[1] = parts[1]
        BY <2>2, <3>1
      <4>2. f[1] = <<>> \o WordsOf(arguments[1]) /\ parts[1] = WordsOf(arguments[1])
        BY <1>8, <1>9, <4>1
      <4>3. parts[1] \in Seq(STRING)
        BY <1>2, <4>1, <4>2 DEF Acc
      <4> QED
        BY <4>1, <4>2, <4>3, ConcatEmptySeq
    <3>3. ASSUME NEW k \in Nat, k \in A
          PROVE  k + 1 \in A
      <4> SUFFICES ASSUME (k + 1) + 1 <= n PROVE flat[(k + 1) + 1] = f[(k + 1) + 1]
        OBVIOUS
      <4>1. (k + 1) + 1 \in 1..n /\ ((k + 1) + 1) - 1 = k + 1 /\ (k + 1) + 1 # 1
        OBVIOUS
      <4>2. flat[k + 1] = f[k + 1]
        BY <3>3
      <4> QED
        <5> DEFINE i == (k + 1) + 1
        <5>1. i \in 1..n /\ i - 1 = k + 1 /\ i # 1
          BY <4>1
        <5> HIDE DEF i
        <5>2. flat[i] = flat[i - 1] \o parts[i]
          BY <3>1, <5>1
        <5>3. f[i] = f[i - 1] \o parts[i]
          BY <1>8, <1>9, <5>1
        <5> QED
          BY <4>2, <5>1, <5>2, <5>3 DEF i
    <3> HIDE DEF A
    <3>4. \A k \in Nat : k \in A
      BY <3>2, <3>3, NatSetInduction
    <3>5. n - 1 \in Nat /\ (n - 1) + 1 = n
      BY <2>2
    <3>6. flat[n] = f[n]
      BY <3>4, <3>5 DEF A
    <3> QED
      BY <1>9, <1>10, <1>11, <2>2, <3>6
  <2> QED
    BY <2>1, <2>2
<1> QED
  BY <1>1, <1>8, <1>13 DEF Acc

\* What comes before stays where it is as more words are added.
LEMMA WordsStay ==
  ASSUME NEW arguments \in Seq(Argument), NEW n \in Nat, n = Len(arguments),
         NEW f \in [0..n -> Seq(STRING)],
         \A k \in 1..n : f[k] = f[k - 1] \o WordsOf(arguments[k])
  PROVE  /\ \A k \in 0..n : Len(f[k]) \in Nat
         /\ \A k \in 1..n :
              /\ Len(f[k]) = Len(f[k - 1]) + Len(WordsOf(arguments[k]))
              /\ Len(f[k]) <= Len(f[n])
              /\ \A p \in 1..Len(WordsOf(arguments[k])) :
                   f[n][Len(f[k - 1]) + p] = WordsOf(arguments[k])[p]
<1>1. \A k \in 0..n : f[k] \in Seq(STRING) /\ Len(f[k]) \in Nat
  BY LenProperties
<1>2. ASSUME NEW k \in 1..n
      PROVE  /\ k - 1 \in 0..n /\ k \in 0..n
             /\ arguments[k] \in Argument
             /\ WordsOf(arguments[k]) \in Seq(STRING) /\ Len(WordsOf(arguments[k])) \in 1..2
             /\ Len(f[k]) = Len(f[k - 1]) + Len(WordsOf(arguments[k]))
             /\ \A p \in 1..Len(f[k - 1]) : f[k][p] = f[k - 1][p]
             /\ \A p \in 1..Len(WordsOf(arguments[k])) :
                  f[k][Len(f[k - 1]) + p] = WordsOf(arguments[k])[p]
  <2> DEFINE w == WordsOf(arguments[k])
             u == f[k - 1]
  <2>1. k - 1 \in 0..n /\ k \in 0..n
    OBVIOUS
  <2>2. arguments[k] \in Argument
    BY ElementOfSeq
  <2>3. w \in Seq(STRING) /\ Len(w) \in 1..2
    BY <2>2, ArgumentFacts
  <2>4. u \in Seq(STRING) /\ Len(u) \in Nat /\ Len(w) \in Nat
    BY <1>1, <2>1, <2>3
  <2>5. f[k] = u \o w
    OBVIOUS
  <2> HIDE DEF u, w
  <2>6. /\ Len(u \o w) = Len(u) + Len(w)
        /\ \A i \in 1..(Len(u) + Len(w)) :
             (u \o w)[i] = IF i <= Len(u) THEN u[i] ELSE w[i - Len(u)]
    BY <2>3, <2>4, ConcatProperties
  <2>7. \A p \in 1..Len(u) : f[k][p] = u[p]
    BY <2>4, <2>5, <2>6
  <2>8. ASSUME NEW p \in 1..Len(w)
        PROVE  f[k][Len(u) + p] = w[p]
    <3>1. Len(u) + p \in 1..(Len(u) + Len(w)) /\ ~(Len(u) + p <= Len(u)) /\ (Len(u) + p) - Len(u) = p
      BY <2>4
    <3> QED
      BY <2>5, <2>6, <3>1
  <2> QED
    BY <2>1, <2>2, <2>3, <2>5, <2>6, <2>7, <2>8 DEF u, w
<1> DEFINE Stays(j) == \A k \in 1..n : k <= j =>
             Len(f[k]) <= Len(f[j]) /\ \A p \in 1..Len(f[k]) : f[j][p] = f[k][p]
           A == {j \in Nat : j <= n => Stays(j)}
<1>3. 0 \in A
  OBVIOUS
<1>4. ASSUME NEW j \in Nat, j \in A
      PROVE  j + 1 \in A
  <2> SUFFICES ASSUME j + 1 <= n PROVE Stays(j + 1)
    OBVIOUS
  <2>1. Stays(j) /\ j + 1 \in 1..n /\ (j + 1) - 1 = j /\ j \in 0..n /\ j + 1 \in 0..n
    BY <1>4
  <2>a. PICK x \in Nat, y \in Nat, z \in 1..2 :
          x = Len(f[j]) /\ y = Len(f[j + 1]) /\ z = Len(WordsOf(arguments[j + 1]))
    <3>1. Len(f[j]) \in Nat /\ Len(f[j + 1]) \in Nat
      BY <1>1, <2>1
    <3>2. Len(WordsOf(arguments[j + 1])) \in 1..2
      BY <1>2, <2>1
    <3> QED
      BY <3>1, <3>2, Zenon
  <2>b. \A p \in 1..Len(f[j]) : f[j + 1][p] = f[j][p]
    <3>1. \A p \in 1..Len(f[(j + 1) - 1]) : f[j + 1][p] = f[(j + 1) - 1][p]
      BY <1>2, <2>1, Zenon
    <3> QED
      BY <2>1, <3>1, Zenon
  <2>c. y = x + z
    <3>1. Len(f[j + 1]) = Len(f[(j + 1) - 1]) + Len(WordsOf(arguments[j + 1]))
      BY <1>2, <2>1, Zenon
    <3>2. Len(f[j + 1]) = Len(f[j]) + Len(WordsOf(arguments[j + 1]))
      BY <2>1, <3>1, Zenon
    <3> QED
      BY <2>a, <3>2, Zenon
  <2>d. x <= y
    BY <2>c
  <2>2. /\ Len(f[j]) <= Len(f[j + 1])
        /\ \A p \in 1..Len(f[j]) : f[j + 1][p] = f[j][p]
    BY <2>a, <2>b, <2>d, Zenon
  <2> SUFFICES ASSUME NEW k \in 1..n, k <= j + 1
               PROVE  Len(f[k]) <= Len(f[j + 1]) /\ \A p \in 1..Len(f[k]) : f[j + 1][p] = f[k][p]
    OBVIOUS
  <2>3. Len(f[k]) \in Nat /\ Len(f[j]) \in Nat /\ Len(f[j + 1]) \in Nat
    BY <1>1, <2>1
  <2>4. CASE k = j + 1
    BY <2>3, <2>4
  <2>5. CASE k <= j
    <3>1. Len(f[k]) <= Len(f[j]) /\ \A p \in 1..Len(f[k]) : f[j][p] = f[k][p]
      BY <2>1, <2>5
    <3>2. \A p \in 1..Len(f[k]) : p \in 1..Len(f[j])
      BY <2>3, <3>1
    <3> QED
      BY <2>2, <2>3, <3>1, <3>2
  <2> QED
    BY <2>4, <2>5
<1> HIDE DEF A
<1>5. n \in A
  BY <1>3, <1>4, NatSetInduction
<1>6. Stays(n)
  BY <1>5 DEF A
<1>7. ASSUME NEW k \in 1..n, NEW p \in 1..Len(WordsOf(arguments[k]))
      PROVE  f[n][Len(f[k - 1]) + p] = WordsOf(arguments[k])[p]
  <2>a. PICK x \in Nat, y \in Nat, z \in 1..2 :
          x = Len(f[k - 1]) /\ y = Len(f[k]) /\ z = Len(WordsOf(arguments[k])) /\ y = x + z
    <3>1. Len(f[k - 1]) \in Nat /\ Len(f[k]) \in Nat
      BY <1>1, <1>2
    <3>2. /\ Len(WordsOf(arguments[k])) \in 1..2
          /\ Len(f[k]) = Len(f[k - 1]) + Len(WordsOf(arguments[k]))
      BY <1>2
    <3> QED
      BY <3>1, <3>2, Zenon
  <2>1. x + p \in 1..y
    BY <2>a
  <2>2. f[n][x + p] = f[k][x + p]
    <3>1. \A q \in 1..Len(f[k]) : f[n][q] = f[k][q]
      BY <1>6
    <3> QED
      BY <2>1, <2>a, <3>1, Zenon
  <2>3. f[k][x + p] = WordsOf(arguments[k])[p]
    BY <1>2, <2>a, Zenon
  <2> QED
    BY <2>a, <2>2, <2>3, Zenon
<1>8. \A k \in 1..n : Len(f[k]) <= Len(f[n])
  BY <1>6
<1> QED
  BY <1>1, <1>2, <1>7, <1>8

\* No option waits for its value.
Nothing == ""

\* The parts of a scan.
Scan(status, option, values) == <<status, option, values>>
StatusOf(scan) == scan[1]
WaitsFor(scan) == scan[2]
ConfigOf(scan) == scan[3]

\* The name of an option is something.
LEMMA SomeOption == \A key \in DOMAIN Option : key # Nothing
BY OptionFacts, Zenon DEF Nothing

\* A scan is its parts, and they have their types.
LEMMA ScanParts ==
  /\ \A status, option, values :
       /\ StatusOf(Scan(status, option, values)) = status
       /\ WaitsFor(Scan(status, option, values)) = option
       /\ ConfigOf(Scan(status, option, values)) = values
  /\ \A scan \in Scans : ConfigOf(scan) \in Configs
  /\ \A values \in Configs : Scan("ok", Nothing, values) \in Scans
<1>1. \A status, option, values :
        /\ StatusOf(Scan(status, option, values)) = status
        /\ WaitsFor(Scan(status, option, values)) = option
        /\ ConfigOf(Scan(status, option, values)) = values
  BY DEF Scan, StatusOf, WaitsFor, ConfigOf
<1> DEFINE S == {"ok", "error", "help"}
           O == DOMAIN Option \cup {Nothing}
<1>2. "ok" \in S /\ Nothing \in O
  OBVIOUS
<1>3. Scans = S \X O \X Configs
  BY Zenon DEF Scans, Nothing
<1> HIDE DEF S, O
<1>4. \A scan \in Scans : ConfigOf(scan) \in Configs
  BY <1>3 DEF ConfigOf
<1>5. \A values \in Configs : Scan("ok", Nothing, values) \in Scans
  BY <1>2, <1>3 DEF Scan
<1> QED
  BY <1>1, <1>4, <1>5

\* One turn of the loop over the words.
LEMMA ScannedIs ==
  ASSUME NEW scan, NEW word
  PROVE  /\ StatusOf(scan) # "ok" => Scanned(scan, word) = scan
         /\ StatusOf(scan) = "ok" /\ WaitsFor(scan) # Nothing =>
              Scanned(scan, word) =
                IF WaitsFor(scan) \in Text \/ word \in Numeral
                THEN Scan("ok", Nothing, [ConfigOf(scan) EXCEPT !.own[WaitsFor(scan)] = word])
                ELSE Scan("error", Nothing, ConfigOf(scan))
         /\ StatusOf(scan) = "ok" /\ WaitsFor(scan) = Nothing =>
              /\ IsOption(word) => Scanned(scan, word) = Scan("ok", KeyOf(word), ConfigOf(scan))
              /\ word = "--download-only" =>
                   Scanned(scan, word) = Scan("ok", Nothing, [ConfigOf(scan) EXCEPT !.download_only = TRUE])
              /\ ~IsOption(word) /\ word = "--help" =>
                   Scanned(scan, word) = Scan("help", Nothing, ConfigOf(scan))
              /\ ~IsOption(word) /\ word \notin {"--help", "--download-only"} =>
                   Scanned(scan, word) = Scan("error", Nothing, ConfigOf(scan))
<1> DEFINE s == scan[1]
           o == scan[2]
           c == scan[3]
           c1 == [c EXCEPT !.own[o] = word]
           c2 == [c EXCEPT !.download_only = TRUE]
<1>1. Scanned(scan, word) =
        CASE s # "ok" -> scan
          [] s = "ok" /\ o # Nothing ->
               IF o \in Text \/ word \in Numeral THEN <<"ok", Nothing, c1>> ELSE <<"error", Nothing, c>>
          [] s = "ok" /\ o = Nothing /\ IsOption(word) -> <<"ok", KeyOf(word), c>>
          [] s = "ok" /\ o = Nothing /\ word = "--download-only" -> <<"ok", Nothing, c2>>
          [] s = "ok" /\ o = Nothing /\ word = "--help" -> <<"help", Nothing, c>>
          [] OTHER -> <<"error", Nothing, c>>
  BY Zenon DEF Scanned, Nothing
<1>2. word = "--download-only" \/ word = "--help" => ~IsOption(word)
  BY OptionFacts
<1>3. s = StatusOf(scan) /\ o = WaitsFor(scan) /\ c = ConfigOf(scan)
  BY Zenon DEF StatusOf, WaitsFor, ConfigOf
<1> HIDE DEF s, o, c
<1>4. c1 = [ConfigOf(scan) EXCEPT !.own[WaitsFor(scan)] = word]
      /\ c2 = [ConfigOf(scan) EXCEPT !.download_only = TRUE]
  BY <1>3, Zenon
<1> HIDE DEF c1, c2
<1>5. s # "ok" => Scanned(scan, word) = scan
  BY <1>1
<1>6. s = "ok" /\ o # Nothing => Scanned(scan, word) =
        IF o \in Text \/ word \in Numeral THEN <<"ok", Nothing, c1>> ELSE <<"error", Nothing, c>>
  BY <1>1
<1>7. s = "ok" /\ o = Nothing /\ IsOption(word) => Scanned(scan, word) = <<"ok", KeyOf(word), c>>
  BY <1>1, <1>2
<1>8. s = "ok" /\ o = Nothing /\ word = "--download-only" => Scanned(scan, word) = <<"ok", Nothing, c2>>
  BY <1>1, <1>2
<1>9. s = "ok" /\ o = Nothing /\ word = "--help" => Scanned(scan, word) = <<"help", Nothing, c>>
  BY <1>1, <1>2
<1>10. s = "ok" /\ o = Nothing /\ ~IsOption(word) /\ word \notin {"--help", "--download-only"} =>
         Scanned(scan, word) = <<"error", Nothing, c>>
  BY <1>1
<1> QED
  BY <1>3, <1>4, <1>5, <1>6, <1>7, <1>8, <1>9, <1>10, Zenon DEF Scan

\* Since the end is good, everything before it was.
LEMMA GoodToTheEnd ==
  ASSUME NEW L \in Nat, NEW r, NEW words,
         \A k \in 1..L : r[k] = Scanned(r[k - 1], words[k]),
         StatusOf(r[L]) = "ok"
  PROVE  \A k \in 0..L : StatusOf(r[k]) = "ok"
<1> DEFINE A == {k \in Nat : k <= L => StatusOf(r[L - k]) = "ok"}
<1>1. 0 \in A
  <2>1. L - 0 = L
    OBVIOUS
  <2> QED
    BY <2>1
<1>2. ASSUME NEW k \in Nat, k \in A
      PROVE  k + 1 \in A
  <2> SUFFICES ASSUME k + 1 <= L PROVE StatusOf(r[L - (k + 1)]) = "ok"
    OBVIOUS
  <2>1. L - k \in 1..L /\ (L - k) - 1 = L - (k + 1)
    OBVIOUS
  <2>2. StatusOf(r[L - k]) = "ok"
    BY <1>2
  <2>3. r[L - k] = Scanned(r[L - (k + 1)], words[L - k])
    BY <2>1
  <2>4. StatusOf(r[L - (k + 1)]) # "ok" => r[L - k] = r[L - (k + 1)]
    BY <2>3, ScannedIs
  <2> QED
    BY <2>2, <2>4
<1> HIDE DEF A
<1>3. \A k \in Nat : k \in A
  BY <1>1, <1>2, NatSetInduction
<1> SUFFICES ASSUME NEW k \in 0..L PROVE StatusOf(r[k]) = "ok"
  OBVIOUS
<1>4. L - k \in Nat /\ L - k <= L /\ L - (L - k) = k
  OBVIOUS
<1>5. L - k \in A
  BY <1>3, <1>4
<1>6. StatusOf(r[L - (L - k)]) = "ok"
  BY <1>4, <1>5 DEF A
<1> QED
  BY <1>4, <1>6

\* After the option and its value the scan is as before, but for the value.
Takes(after, before, key, value) ==
  /\ WaitsFor(after) = Nothing /\ key \in Key
  /\ ConfigOf(after).download_only = ConfigOf(before).download_only
  /\ ConfigOf(after).own = [ConfigOf(before).own EXCEPT ![key] = value]

\* An option and its value are scanned, and all is well.
LEMMA ValueScanned ==
  ASSUME NEW before \in Scans, StatusOf(before) = "ok", WaitsFor(before) = Nothing,
         NEW key \in DOMAIN Option, NEW value \in STRING,
         NEW after, after = Scanned(Scanned(before, Option[key]), value), StatusOf(after) = "ok"
  PROVE  Takes(after, before, key, value)
<1> DEFINE new == [ConfigOf(before) EXCEPT !.own[key] = value]
<1>1. ConfigOf(before) \in Configs
  BY ScanParts
<1>2. IsOption(Option[key]) /\ KeyOf(Option[key]) = key /\ key # Nothing /\ key \in Key
  BY OptionFacts, SomeOption
<1>3. new.own = [ConfigOf(before).own EXCEPT ![key] = value]
      /\ new.download_only = ConfigOf(before).download_only
  BY <1>1, <1>2, OwnValue
<1>4. PICK middle : middle = Scanned(before, Option[key])
  OBVIOUS
<1>5. middle = Scan("ok", key, ConfigOf(before))
  <2>1. middle = Scan("ok", KeyOf(Option[key]), ConfigOf(before))
    BY <1>2, <1>4, ScannedIs, Zenon
  <2> QED
    BY <1>2, <2>1, Zenon
<1>6. StatusOf(middle) = "ok" /\ WaitsFor(middle) = key /\ ConfigOf(middle) = ConfigOf(before)
  BY <1>5, ScanParts
<1>7. after = Scanned(middle, value)
  BY <1>4, Zenon
<1>8. after = IF key \in Text \/ value \in Numeral THEN Scan("ok", Nothing, new)
                                                  ELSE Scan("error", Nothing, ConfigOf(before))
  BY <1>2, <1>6, <1>7, ScannedIs, ZenonT(40)
<1> HIDE DEF new
<1>9. StatusOf(Scan("error", Nothing, ConfigOf(before))) = "error" /\ "error" # "ok"
  BY ScanParts
<1>10. after = Scan("ok", Nothing, new)
  BY <1>8, <1>9, Zenon
<1>11. WaitsFor(after) = Nothing /\ ConfigOf(after) = new
  BY <1>10, ScanParts
<1> QED
  BY <1>2, <1>3, <1>11, Zenon DEF Takes

\* A word that is no value is scanned, and all is well.
LEMMA WordScanned ==
  ASSUME NEW before \in Scans, StatusOf(before) = "ok", WaitsFor(before) = Nothing, NEW word \in STRING,
         NEW after, after = Scanned(before, word), StatusOf(after) = "ok",
         IsOption(word) => WaitsFor(after) = Nothing
  PROVE  /\ WaitsFor(after) = Nothing /\ ConfigOf(after).own = ConfigOf(before).own
         /\ \/ ConfigOf(after).download_only = ConfigOf(before).download_only
            \/ word = "--download-only" /\ ConfigOf(after).download_only = TRUE
<1> DEFINE new == [ConfigOf(before) EXCEPT !.download_only = TRUE]
<1>1. ConfigOf(before) \in Configs
  BY ScanParts
<1>2. new.own = ConfigOf(before).own /\ new.download_only = TRUE
  BY <1>1 DEF Configs
<1> HIDE DEF new
<1>3. ~IsOption(word)
  <2> SUFFICES ASSUME IsOption(word) PROVE FALSE
    OBVIOUS
  <2>1. KeyOf(word) \in DOMAIN Option
    BY OptionFacts
  <2>2. after = Scan("ok", KeyOf(word), ConfigOf(before))
    BY ScannedIs, Zenon
  <2>3. KeyOf(word) # Nothing
    BY <2>1, SomeOption
  <2>4. WaitsFor(after) = KeyOf(word)
    BY <2>2, ScanParts
  <2> QED
    BY <2>3, <2>4, Zenon
<1>4. word = "--download-only"
  <2>1. word # "--help"
    <3> SUFFICES ASSUME word = "--help" PROVE FALSE
      OBVIOUS
    <3>1. after = Scan("help", Nothing, ConfigOf(before))
      BY <1>3, ScannedIs, Zenon
    <3>2. StatusOf(after) = "help" /\ "help" # "ok"
      BY <3>1, ScanParts
    <3> QED
      BY <3>2, Zenon
  <2>2. ASSUME word \notin {"--help", "--download-only"}
        PROVE  FALSE
    <3>1. after = Scan("error", Nothing, ConfigOf(before))
      BY <1>3, <2>2, ScannedIs, Zenon
    <3>2. StatusOf(after) = "error" /\ "error" # "ok"
      BY <3>1, ScanParts
    <3> QED
      BY <3>2, Zenon
  <2> QED
    BY <2>1, <2>2, Zenon
<1>5. after = Scan("ok", Nothing, new)
  BY <1>4, ScannedIs, Zenon DEF new
<1>6. WaitsFor(after) = Nothing /\ ConfigOf(after) = new
  BY <1>5, ScanParts
<1> QED
  BY <1>2, <1>4, <1>6, Zenon

\* c is the scan of a good command line after each of its n arguments.
Progress(c, arguments, n, start) ==
  /\ c[0] = Scan("ok", Nothing, start)
  /\ \A k \in 0..n : c[k] \in Scans /\ StatusOf(c[k]) = "ok"
  /\ \A k \in 1..n : WaitsFor(c[k - 1]) = Nothing =>
       /\ WaitsFor(c[k]) = Nothing
       /\ \/ ConfigOf(c[k]).download_only = ConfigOf(c[k - 1]).download_only
          \/ ConfigOf(c[k]).download_only = TRUE /\ AsksForDownload(Words(arguments))
       /\ Len(arguments[k]) = 2 =>
            ConfigOf(c[k]).own = [ConfigOf(c[k - 1]).own EXCEPT ![arguments[k][1]] = arguments[k][2]]
       /\ Len(arguments[k]) # 2 => ConfigOf(c[k]).own = ConfigOf(c[k - 1]).own

\* f says where the words of each argument are.
Layout(f, arguments, n) ==
  /\ n \in Nat /\ n = Len(arguments) /\ DOMAIN arguments = 1..n
  /\ f \in [0..n -> Seq(STRING)] /\ f[0] = <<>> /\ f[n] = Words(arguments)
  /\ \A k \in 1..n : f[k] = f[k - 1] \o WordsOf(arguments[k])

\* r is the scan of L words, and all is well.
GoodRun(r, words, L, start) ==
  /\ L \in Nat /\ L = Len(words) /\ r \in [0..L -> Scans] /\ r[0] = Scan("ok", Nothing, start)
  /\ StatusOf(r[L]) = "ok" /\ WaitsFor(r[L]) = Nothing
  /\ \A k \in 1..L : r[k] = Scanned(r[k - 1], words[k])

\* The scan after each argument, of the scan after each word.
LEMMA ArgumentsInTurn ==
  ASSUME NEW arguments \in Arguments, NEW n \in Nat, NEW L \in Nat, NEW start \in Configs,
         NEW f, Layout(f, arguments, n), NEW r, GoodRun(r, f[n], L, start)
  PROVE  Progress([k \in 0..n |-> r[Len(f[k])]], arguments, n, start)
<1> DEFINE c == [k \in 0..n |-> r[Len(f[k])]]
<1>0. arguments \in Seq(Argument)
  BY DEF Arguments
<1>1. /\ \A k \in 0..n : Len(f[k]) \in Nat
      /\ \A k \in 1..n :
           /\ Len(f[k]) = Len(f[k - 1]) + Len(WordsOf(arguments[k]))
           /\ Len(f[k]) <= L
           /\ \A p \in 1..Len(WordsOf(arguments[k])) :
                f[n][Len(f[k - 1]) + p] = WordsOf(arguments[k])[p]
  BY <1>0, WordsStay DEF Layout, GoodRun
<1>2. Len(f[0]) = 0
  BY EmptySeq DEF Layout
<1>3. \A k \in 0..L : StatusOf(r[k]) = "ok" /\ r[k] \in Scans
  <2>1. \A k \in 0..L : StatusOf(r[k]) = "ok"
    BY GoodToTheEnd DEF GoodRun
  <2> QED
    BY <2>1 DEF GoodRun
<1>4. ASSUME NEW k \in 0..n
      PROVE  Len(f[k]) \in 0..L
  <2>1. CASE k = 0
    BY <1>2, <2>1
  <2>2. CASE k # 0
    <3>1. k \in 1..n
      BY <2>2
    <3>2. Len(f[k]) \in Nat /\ Len(f[k]) <= L
      BY <1>1, <3>1
    <3> QED
      BY <3>2
  <2> QED
    BY <2>1, <2>2
<1>5. \A k \in 0..n : c[k] \in Scans /\ StatusOf(c[k]) = "ok" /\ c[k] = r[Len(f[k])]
  BY <1>3, <1>4
<1>6. c[0] = Scan("ok", Nothing, start)
  BY <1>2 DEF GoodRun
<1> HIDE DEF c
<1>7. ASSUME NEW k \in 1..n, WaitsFor(c[k - 1]) = Nothing
      PROVE  /\ WaitsFor(c[k]) = Nothing
             /\ \/ ConfigOf(c[k]).download_only = ConfigOf(c[k - 1]).download_only
                \/ ConfigOf(c[k]).download_only = TRUE /\ AsksForDownload(Words(arguments))
             /\ Len(arguments[k]) = 2 =>
                  ConfigOf(c[k]).own = [ConfigOf(c[k - 1]).own EXCEPT ![arguments[k][1]] = arguments[k][2]]
             /\ Len(arguments[k]) # 2 => ConfigOf(c[k]).own = ConfigOf(c[k - 1]).own
  <2>1. PICK a \in Argument : a = arguments[k]
    <3>1. n = Len(arguments)
      BY DEF Layout
    <3> QED
      BY <1>0, <3>1, ElementOfSeq
  <2>2. PICK b \in Nat : b = Len(f[k - 1])
    <3>1. k - 1 \in 0..n
      OBVIOUS
    <3> QED
      BY <1>1, <3>1
  <2>3. PICK before \in Scans : before = c[k - 1] /\ before = r[b] /\ StatusOf(before) = "ok" /\ WaitsFor(before) = Nothing
    BY <1>5, <1>7, <2>2
  <2>4. CASE Len(a) = 2
    <3>1. /\ a[1] \in DOMAIN Option /\ a[2] \in STRING /\ Len(WordsOf(a)) = 2
          /\ WordsOf(a)[1] = Option[a[1]] /\ WordsOf(a)[2] = a[2]
      BY <2>4, ArgumentFacts
    <3>2. 1 \in 1..2 /\ 2 \in 1..2
      OBVIOUS
    <3>3. Len(f[k]) = b + 2 /\ b + 2 <= L /\ f[n][b + 1] = Option[a[1]] /\ f[n][b + 2] = a[2]
      <4>1. /\ Len(f[k]) = b + Len(WordsOf(a)) /\ Len(f[k]) <= L
            /\ \A p \in 1..Len(WordsOf(a)) : f[n][b + p] = WordsOf(a)[p]
        BY <1>1, <2>1, <2>2, Zenon
      <4> QED
        BY <3>1, <3>2, <4>1
    <3>4. b + 1 \in 1..L /\ b + 2 \in 1..L /\ (b + 1) - 1 = b /\ (b + 2) - 1 = b + 1
      BY <3>3
    <3>5. r[b + 1] = Scanned(before, Option[a[1]])
      BY <2>3, <3>3, <3>4 DEF GoodRun
    <3>6. r[b + 2] = Scanned(r[b + 1], a[2])
      BY <3>3, <3>4 DEF GoodRun
    <3>7. PICK after : after = c[k] /\ after = r[b + 2] /\ StatusOf(after) = "ok"
      BY <1>5, <3>3
    <3>8. after = Scanned(Scanned(before, Option[a[1]]), a[2])
      BY <3>5, <3>6, <3>7
    <3>9. /\ WaitsFor(after) = Nothing /\ ConfigOf(after).download_only = ConfigOf(before).download_only
          /\ ConfigOf(after).own = [ConfigOf(before).own EXCEPT ![a[1]] = a[2]]
      <4>1. a[1] \in DOMAIN Option /\ a[2] \in STRING /\ StatusOf(after) = "ok"
        BY <3>1, <3>7
      <4> QED
        <5>1. Takes(after, before, a[1], a[2])
          BY <2>3, <3>8, <4>1, ValueScanned
        <5> QED
          BY <5>1, Zenon DEF Takes
    <3> QED
      BY <2>1, <2>3, <2>4, <3>7, <3>9
  <2>5. CASE Len(a) # 2
    <3>1. Len(a) = 1 /\ a[1] \in STRING /\ Len(WordsOf(a)) = 1 /\ WordsOf(a)[1] = a[1]
      BY <2>5, ArgumentFacts
    <3>2. 1 \in 1..1
      OBVIOUS
    <3>3. Len(f[k]) = b + 1 /\ b + 1 <= L /\ f[n][b + 1] = a[1]
      <4>1. /\ Len(f[k]) = b + Len(WordsOf(a)) /\ Len(f[k]) <= L
            /\ \A p \in 1..Len(WordsOf(a)) : f[n][b + p] = WordsOf(a)[p]
        BY <1>1, <2>1, <2>2, Zenon
      <4> QED
        BY <3>1, <3>2, <4>1
    <3>4. b + 1 \in 1..L /\ (b + 1) - 1 = b
      BY <3>3
    <3>5. PICK after : after = c[k] /\ after = r[b + 1] /\ StatusOf(after) = "ok"
      BY <1>5, <3>3
    <3>6. after = Scanned(before, a[1])
      BY <2>3, <3>3, <3>4, <3>5 DEF GoodRun
    <3>7. IsOption(a[1]) => WaitsFor(after) = Nothing
      <4> SUFFICES ASSUME IsOption(a[1]) PROVE WaitsFor(after) = Nothing
        OBVIOUS
      <4>1. k = n
        BY <2>1, <3>1 DEF Arguments, Layout
      <4>2. after = r[L]
        BY <3>3, <3>5, <4>1 DEF GoodRun
      <4> QED
        BY <4>2 DEF GoodRun
    <3>8. /\ WaitsFor(after) = Nothing /\ ConfigOf(after).own = ConfigOf(before).own
          /\ \/ ConfigOf(after).download_only = ConfigOf(before).download_only
             \/ a[1] = "--download-only" /\ ConfigOf(after).download_only = TRUE
      BY <2>3, <3>1, <3>5, <3>6, <3>7, WordScanned
    <3>9. a[1] = "--download-only" => AsksForDownload(Words(arguments))
      <4>1. f[n] \in Seq(STRING) /\ f[n] = Words(arguments) /\ Len(f[n]) = L
        BY DEF Layout, GoodRun
      <4>2. b + 1 \in DOMAIN Words(arguments)
        BY <3>4, <4>1, LenProperties
      <4> QED
        BY <3>3, <4>1, <4>2 DEF AsksForDownload, ToSet
    <3> QED
      BY <2>1, <2>3, <2>5, <3>5, <3>8, <3>9
  <2> QED
    BY <2>4, <2>5
<1>8. Progress(c, arguments, n, start)
  BY <1>5, <1>6, <1>7 DEF Progress
<1> QED
  BY <1>8 DEF c

\* What changes with each pair of a key is in the end what the last of them says.
LEMMA LastOfWasGiven ==
  ASSUME NEW s, NEW n \in Nat, DOMAIN s = 1..n, NEW key, NEW v,
       \A k \in 1..n : v[k] = IF k \in Given(s, key) THEN s[k][2] ELSE v[k - 1]
  PROVE  v[n] = LastOf(s, key, v[0])
<1> DEFINE w == [k \in 1..n |-> s[k][2]]
           G == Given(s, key)
<1>1. G \in SUBSET (1..n)
  BY DEF Given
<1>2. \A k \in 1..n : v[k] = IF k \in G THEN w[k] ELSE v[k - 1]
  OBVIOUS
<1>3. \A k \in 1..n : w[k] = s[k][2]
  OBVIOUS
<1> HIDE DEF w, G
<1>4. \/ G = {} /\ v[n] = v[0]
      \/ \E i \in G : (\A j \in G : j <= i) /\ v[n] = w[i]
  BY <1>1, <1>2, LastGiven
<1>5. CASE G = {} /\ v[n] = v[0]
  BY <1>5, LastOfIs DEF G
<1>6. CASE \E i \in G : (\A j \in G : j <= i) /\ v[n] = w[i]
  <2>1. PICK i \in G : (\A j \in G : j <= i) /\ v[n] = w[i]
    BY <1>6
  <2>2. LastOf(s, key, v[0]) = s[i][2]
    BY <2>1, LastOfIs DEF G
  <2>3. w[i] = s[i][2]
    BY <1>1, <1>3, <2>1
  <2> QED
    BY <2>1, <2>2, <2>3
<1> QED
  BY <1>4, <1>5, <1>6

\* What that comes to.
LEMMA ProgressIsPromised ==
  ASSUME NEW arguments, NEW n \in Nat, DOMAIN arguments = 1..n,
         NEW start \in Configs, start.download_only = AsksForDownload(Words(arguments)),
         NEW c, Progress(c, arguments, n, start)
  PROVE  /\ ConfigOf(c[n]) \in Configs /\ ConfigOf(c[n]).download_only = start.download_only
         /\ \A key \in Key : ConfigOf(c[n]).own[key] = LastOf(arguments, key, start.own[key])
<1>1. \A k \in 0..n : c[k] \in Scans /\ ConfigOf(c[k]) \in Configs
  <2>1. \A k \in 0..n : c[k] \in Scans
    BY DEF Progress
  <2> QED
    BY <2>1, ScanParts
<1> DEFINE Good(k) == WaitsFor(c[k]) = Nothing /\ ConfigOf(c[k]).download_only = start.download_only
           A == {k \in Nat : k <= n => Good(k)}
<1>a. c[0] = Scan("ok", Nothing, start)
  BY DEF Progress
<1>b. WaitsFor(c[0]) = Nothing /\ ConfigOf(c[0]) = start
  BY <1>a, ScanParts
<1>2. 0 \in A
  BY <1>b
<1>3. ASSUME NEW k \in Nat, k \in A
      PROVE  k + 1 \in A
  <2> SUFFICES ASSUME k + 1 <= n PROVE Good(k + 1)
    OBVIOUS
  <2>1. WaitsFor(c[k]) = Nothing /\ ConfigOf(c[k]).download_only = start.download_only
    BY <1>3
  <2>2. k + 1 \in 1..n /\ (k + 1) - 1 = k
    OBVIOUS
  <2>3. /\ WaitsFor(c[k + 1]) = Nothing
        /\ \/ ConfigOf(c[k + 1]).download_only = ConfigOf(c[k]).download_only
           \/ ConfigOf(c[k + 1]).download_only = TRUE /\ AsksForDownload(Words(arguments))
    BY <2>1, <2>2 DEF Progress
  <2> QED
    BY <2>1, <2>3
<1> HIDE DEF A
<1>4. \A k \in Nat : k \in A
  BY <1>2, <1>3, NatSetInduction
<1>5. \A k \in 0..n : Good(k)
  <2>1. \A k \in 0..n : k \in Nat /\ k <= n
    OBVIOUS
  <2> QED
    BY <1>4, <2>1 DEF A
<1>6. ASSUME NEW key \in Key
      PROVE  ConfigOf(c[n]).own[key] = LastOf(arguments, key, start.own[key])
  <2> DEFINE v == [k \in 0..n |-> ConfigOf(c[k]).own[key]]
             G == Given(arguments, key)
  <2>1. /\ G \in SUBSET (1..n)
        /\ \A k \in 1..n : k \in G <=> arguments[k][1] = key /\ Len(arguments[k]) = 2
    BY DEF Given
  <2> HIDE DEF G
  <2>2. ASSUME NEW k \in 1..n
        PROVE  v[k] = IF k \in G THEN arguments[k][2] ELSE v[k - 1]
    <3>1. k - 1 \in 0..n /\ k \in 0..n
      OBVIOUS
    <3>2. ConfigOf(c[k - 1]).own \in [Key -> STRING]
      BY <1>1, <3>1 DEF Configs
    <3>3. WaitsFor(c[k - 1]) = Nothing
      BY <1>5, <3>1
    <3>4. CASE Len(arguments[k]) = 2
      <4>1. ConfigOf(c[k]).own = [ConfigOf(c[k - 1]).own EXCEPT ![arguments[k][1]] = arguments[k][2]]
        BY <3>3, <3>4 DEF Progress
      <4>2. ConfigOf(c[k]).own[key] =
              IF arguments[k][1] = key THEN arguments[k][2] ELSE ConfigOf(c[k - 1]).own[key]
        BY <3>2, <4>1
      <4> QED
        BY <2>1, <3>1, <3>4, <4>2
    <3>5. CASE Len(arguments[k]) # 2
      <4>1. ConfigOf(c[k]).own = ConfigOf(c[k - 1]).own
        BY <3>3, <3>5 DEF Progress
      <4> QED
        BY <2>1, <3>1, <3>5, <4>1
    <3> QED
      BY <3>4, <3>5
  <2>3. v[0] = start.own[key] /\ v[n] = ConfigOf(c[n]).own[key]
    <3>1. 0 \in 0..n /\ n \in 0..n
      OBVIOUS
    <3> QED
      BY <1>b, <3>1
  <2> HIDE DEF v
  <2> QED
    BY <2>2, <2>3, LastOfWasGiven DEF G
<1>7. n \in 0..n
  OBVIOUS
<1> QED
  BY <1>1, <1>5, <1>6, <1>7

\* A command line that is accepted gives each option the value it has there last, or
\* leaves it; and --download-only is in the mode since before.
LEMMA ScanIsPromised ==
  ASSUME NEW arguments \in Arguments, NEW start \in Configs,
         start.download_only = AsksForDownload(Words(arguments)),
         NEW scan, scan = ScannedAll(Scan("ok", Nothing, start), Words(arguments))
  PROVE  /\ scan \in Scans
         /\ StatusOf(scan) = "ok" /\ WaitsFor(scan) = Nothing =>
              /\ ConfigOf(scan).download_only = start.download_only
              /\ \A key \in Key : ConfigOf(scan).own[key] = LastOf(arguments, key, start.own[key])
<1>1. arguments \in Seq(Argument)
  BY DEF Arguments
<1>2. PICK n \in Nat : n = Len(arguments) /\ DOMAIN arguments = 1..n
  BY <1>1, LenProperties
<1>3. PICK f : Layout(f, arguments, n)
  BY <1>1, <1>2, WordsInTurn DEF Layout
<1>4. PICK words \in Seq(STRING) : words = f[n] /\ words = Words(arguments)
  <2>1. n \in 0..n
    OBVIOUS
  <2> QED
    BY <1>3, <2>1 DEF Layout
<1>5. PICK L \in Nat : L = Len(words)
  BY LenProperties
<1>6. Scan("ok", Nothing, start) \in Scans
  BY ScanParts
<1>7. PICK r : /\ r \in [0..L -> Scans]
               /\ r[0] = Scan("ok", Nothing, start)
               /\ r[L] = scan
               /\ \A k \in 1..L : r[k] = Scanned(r[k - 1], words[k])
  <2>1. \E r : /\ r \in [0..Len(words) -> Scans]
               /\ r[0] = Scan("ok", Nothing, start)
               /\ r[Len(words)] = ScannedAll(Scan("ok", Nothing, start), words)
               /\ \A k \in 1..Len(words) : r[k] = Scanned(r[k - 1], words[k])
    <3>1. PICK base \in Scans : base = Scan("ok", Nothing, start)
      BY <1>6
    <3>2. \E r : /\ r \in [0..Len(words) -> Scans]
                 /\ r[0] = base
                 /\ r[Len(words)] = ScannedAll(base, words)
                 /\ \A k \in 1..Len(words) : r[k] = Scanned(r[k - 1], words[k])
      BY ScanInTurn
    <3> QED
      BY <3>1, <3>2, Zenon
  <2>2. scan = ScannedAll(Scan("ok", Nothing, start), words)
    BY <1>4, Zenon
  <2> QED
    BY <1>5, <2>1, <2>2, Zenon
<1>8. scan \in Scans
  <2>1. L \in 0..L
    OBVIOUS
  <2> QED
    BY <1>7, <2>1
<1>9. ASSUME StatusOf(scan) = "ok", WaitsFor(scan) = Nothing
      PROVE  /\ ConfigOf(scan).download_only = start.download_only
             /\ \A key \in Key : ConfigOf(scan).own[key] = LastOf(arguments, key, start.own[key])
  <2> DEFINE c == [k \in 0..n |-> r[Len(f[k])]]
  <2>1. GoodRun(r, f[n], L, start)
    BY <1>4, <1>5, <1>7, <1>9, Zenon DEF GoodRun
  <2>2. Progress(c, arguments, n, start)
    BY <1>3, <2>1, ArgumentsInTurn
  <2>3. c[n] = scan
    <3>1. n \in 0..n
      OBVIOUS
    <3> QED
      BY <1>4, <1>5, <1>7, <3>1
  <2> HIDE DEF c
  <2> QED
    BY <1>2, <2>2, <2>3, ProgressIsPromised
<1> QED
  BY <1>8, <1>9, Zenon

\* What README.md promises, key by key.
LEMMA PromisedValues ==
  ASSUME NEW file, NEW arguments
  PROVE  LET asks == AsksForDownload(Words(arguments))
         IN  /\ DOMAIN Promised(file, arguments) = Key
             /\ Promised(file, arguments) = [key \in Key |-> Promised(file, arguments)[key]]
             /\ Promised(file, arguments)["output_dir"] = AbsoluteRoot(FromFile(file, asks, "output_dir"))
             /\ \A key \in Key \ {"output_dir"} :
                  Promised(file, arguments)[key] = LastOf(arguments, key, FromFile(file, asks, key))
<1> DEFINE asks == AsksForDownload(Words(arguments))
<1>1. Promised(file, arguments) =
        [key \in Key |-> IF key = "output_dir" THEN AbsoluteRoot(FromFile(file, asks, key))
                         ELSE LastOf(arguments, key, FromFile(file, asks, key))]
  BY Zenon DEF Promised, FromFile, EntriesOf, Written
<1>2. "output_dir" \in Key
  BY DEF Key, AnalysisKey, CacheKey
<1> HIDE DEF asks
<1>3. /\ DOMAIN Promised(file, arguments) = Key
      /\ Promised(file, arguments) = [key \in Key |-> Promised(file, arguments)[key]]
  BY <1>1
<1>4. Promised(file, arguments)["output_dir"] = AbsoluteRoot(FromFile(file, asks, "output_dir"))
  BY <1>1, <1>2
<1>5. \A key \in Key \ {"output_dir"} :
        Promised(file, arguments)[key] = LastOf(arguments, key, FromFile(file, asks, key))
  BY <1>1
<1> QED
  BY <1>3, <1>4, <1>5, Zenon DEF asks

\* No option gives the cache root.
LEMMA RootIsOfTheFile ==
  ASSUME NEW arguments \in Arguments, NEW otherwise
  PROVE  LastOf(arguments, "output_dir", otherwise) = otherwise
<1>1. arguments \in Seq(Argument)
  BY DEF Arguments
<1>2. PICK n \in Nat : n = Len(arguments) /\ DOMAIN arguments = 1..n
  BY <1>1, LenProperties
<1>3. ASSUME NEW i \in 1..n, Len(arguments[i]) = 2
      PROVE  arguments[i][1] # "output_dir"
  <2>1. PICK a \in Argument : a = arguments[i]
    BY <1>1, <1>2, ElementOfSeq
  <2>2. a[1] \in DOMAIN Option
    <3>1. Len(a) = 2
      BY <1>3, <2>1
    <3>2. \/ Len(a) = 2 /\ a[1] \in DOMAIN Option
          \/ Len(a) = 1
      BY ArgumentFacts, Zenon
    <3> QED
      BY <3>1, <3>2
  <2> QED
    BY <2>1, <2>2, OptionFacts
<1>4. Given(arguments, "output_dir") = {}
  BY <1>2, <1>3 DEF Given
<1> QED
  BY <1>2, <1>4, LastOfIs

\* The command line on top of the file is what README.md promises.
LEMMA ScanIsOfTheFile ==
  ASSUME NEW file \in Seq([name : STRING, entries : Seq(STRING \X STRING)]), FileOK(file),
         NEW arguments \in Arguments,
         NEW scan, scan = ScannedAll(Scan("ok", Nothing, InMode(LoadedFile(file), Words(arguments))),
                                     Words(arguments))
  PROVE  /\ scan \in Scans
         /\ StatusOf(scan) = "ok" /\ WaitsFor(scan) = Nothing =>
              /\ ConfigOf(scan).download_only = AsksForDownload(Words(arguments))
              /\ ConfigOf(scan).own = Promised(file, arguments)
<1> DEFINE asks == AsksForDownload(Words(arguments))
<1>1. PICK start : start = InMode(LoadedFile(file), Words(arguments))
  OBVIOUS
<1>2. /\ start \in Configs /\ start.download_only = asks
      /\ \A key \in Key \ {"output_dir"} : start.own[key] = FromFile(file, asks, key)
      /\ start.own["output_dir"] = AbsoluteRoot(FromFile(file, asks, "output_dir"))
  BY <1>1, ModeIsKept
<1>3. scan = ScannedAll(Scan("ok", Nothing, start), Words(arguments))
  BY <1>1, Zenon
<1>4. /\ scan \in Scans
      /\ StatusOf(scan) = "ok" /\ WaitsFor(scan) = Nothing =>
           /\ ConfigOf(scan).download_only = start.download_only
           /\ \A key \in Key : ConfigOf(scan).own[key] = LastOf(arguments, key, start.own[key])
  BY <1>2, <1>3, ScanIsPromised
<1>5. ASSUME StatusOf(scan) = "ok", WaitsFor(scan) = Nothing
      PROVE  ConfigOf(scan).own = Promised(file, arguments)
  <2> DEFINE own == ConfigOf(scan).own
             promised == Promised(file, arguments)
  <2>1. own \in [Key -> STRING]
    <3>1. ConfigOf(scan) \in Configs
      BY <1>4, ScanParts
    <3> QED
      BY <3>1 DEF Configs
  <2>2. \A key \in Key : own[key] = LastOf(arguments, key, start.own[key])
    BY <1>4, <1>5
  <2>3. own["output_dir"] = promised["output_dir"]
    <3>1. "output_dir" \in Key
      BY DEF Key, AnalysisKey, CacheKey
    <3>2. own["output_dir"] = start.own["output_dir"]
      BY <2>2, <3>1, RootIsOfTheFile
    <3> QED
      BY <1>2, <3>2, PromisedValues
  <2>4. \A key \in Key \ {"output_dir"} : own[key] = promised[key]
    <3> SUFFICES ASSUME NEW key \in Key \ {"output_dir"} PROVE own[key] = promised[key]
      OBVIOUS
    <3>1. own[key] = LastOf(arguments, key, start.own[key])
      BY <2>2
    <3>2. start.own[key] = FromFile(file, asks, key)
      BY <1>2
    <3>3. promised[key] = LastOf(arguments, key, FromFile(file, asks, key))
      BY PromisedValues
    <3> QED
      BY <3>1, <3>2, <3>3, Zenon
  <2>5. promised = [key \in Key |-> promised[key]]
    BY PromisedValues
  <2>6. own = [key \in Key |-> own[key]]
    BY <2>1
  <2> HIDE DEF own, promised
  <2>7. \A key \in Key : own[key] = promised[key]
    BY <2>3, <2>4
  <2> QED
    BY <2>5, <2>6, <2>7, Zenon DEF own, promised
<1>6. StatusOf(scan) = "ok" /\ WaitsFor(scan) = Nothing => ConfigOf(scan).download_only = asks
  BY <1>2, <1>4
<1> QED
  BY <1>4, <1>5, <1>6, Zenon

\* parse_args.
LEMMA ParsedIsPromised ==
  ASSUME NEW file \in Seq([name : STRING, entries : Seq(STRING \X STRING)]),
         NEW arguments \in Arguments,
         NEW result, result = Parsed(file, Words(arguments))
  PROVE  /\ result.config \in Configs
         /\ result.status = "ok" =>
              /\ result.config.download_only = AsksForDownload(Words(arguments))
              /\ result.config.own = Promised(file, arguments)
              /\ InRange(result.config.own)
<1> DEFINE refused == ~FileOK(file) \/ LoadedFile(file).cache["output_dir"] = Nothing
           scan == ScannedAll(Scan("ok", Nothing, InMode(LoadedFile(file), Words(arguments))),
                              Words(arguments))
           bad == StatusOf(scan) = "ok"
                  /\ (WaitsFor(scan) # Nothing \/ ~InRange(ConfigOf(scan).own))
<1>1. refused => result = [status |-> "error", config |-> Untouched]
  BY Zenon DEF Parsed, Nothing
<1>2. ~refused => result = [status |-> IF bad THEN "error" ELSE StatusOf(scan),
                            config |-> ConfigOf(scan)]
  BY Zenon DEF Parsed, Nothing, Scan, ScannedAll, StatusOf, WaitsFor, ConfigOf
<1>3. ~refused => FileOK(file)
  OBVIOUS
<1> HIDE DEF refused
<1>4. PICK s : s = scan
  OBVIOUS
<1>5. FileOK(file) =>
        /\ s \in Scans
        /\ StatusOf(s) = "ok" /\ WaitsFor(s) = Nothing =>
             /\ ConfigOf(s).download_only = AsksForDownload(Words(arguments))
             /\ ConfigOf(s).own = Promised(file, arguments)
  BY <1>4, ScanIsOfTheFile
<1> HIDE DEF scan
<1>6. CASE refused
  <2>1. result.status = "error" /\ result.config = Untouched
    BY <1>1, <1>6
  <2> QED
    BY <2>1, DefaultsAreValues
<1>7. CASE ~refused
  <2>1. /\ result.status = IF bad THEN "error" ELSE StatusOf(s)
        /\ result.config = ConfigOf(s)
    BY <1>2, <1>4, <1>7
  <2>2. result.config \in Configs
    BY <1>3, <1>5, <1>7, <2>1, ScanParts
  <2>3. ASSUME result.status = "ok"
        PROVE  StatusOf(s) = "ok" /\ WaitsFor(s) = Nothing /\ InRange(ConfigOf(s).own)
    <3>1. ~bad /\ StatusOf(s) = "ok"
      BY <2>1, <2>3
    <3> QED
      BY <1>4, <3>1, Zenon
  <2> QED
    BY <1>3, <1>5, <1>7, <2>1, <2>2, <2>3, Zenon
<1> QED
  BY <1>6, <1>7

-----------------------------------------------------------------------------
(* The configuration a run works with.                                     *)

\* Where no configuration is needed, or there may be none.
Unconfigured == {"parse", "catch", "tell", "unwind", "exited"}

\* Once the work has begun, or there is a processor, the configuration is the promised one;
\* its mode decided which work it is.
ConfigInv ==
  /\ input \in Inputs
  /\ config \in Configs
  /\ pc \notin Unconfigured \/ processor # "none" =>
       config.own = Promised(input.file, input.arguments) /\ InRange(config.own)
  /\ pc \in Preparing => config.download_only = TRUE
  /\ pc \notin Unconfigured \cup Preparing \/ processor # "none" => config.download_only = FALSE

\* What a run begins with has the form the lemmas on config.json and the command line ask.
LEMMA InputParts ==
  ASSUME NEW i \in Inputs
  PROVE  /\ i.file \in Seq([name : STRING, entries : Seq(STRING \X STRING)])
         /\ i.arguments \in Arguments
<1>1. i.arguments \in Seq(Argument)
  BY InputsOK DEF Argument
<1>2. \A j \in DOMAIN i.arguments :
        Len(i.arguments[j]) = 1 /\ IsOption(i.arguments[j][1]) => j = Len(i.arguments)
  BY InputsOK
<1> QED
  BY <1>1, <1>2, InputsOK DEF Arguments

\* A run begins without a configuration.
LEMMA ConfigInit == Init => ConfigInv
BY DefaultsAreValues DEF Init, ConfigInv, Unconfigured, Preparing

\* parse_args makes the configuration.
LEMMA ConfigParsed == LifeInv /\ ConfigInv /\ ParseArgs => ConfigInv'
<1> SUFFICES ASSUME LifeInv, ConfigInv, ParseArgs PROVE ConfigInv'
  OBVIOUS
<1>1. PICK result : result = Parsed(input.file, Words(input.arguments))
  OBVIOUS
<1>2. input \in Inputs /\ input' = input /\ processor' = processor /\ processor = "none"
  BY DEF ConfigInv, LifeInv, ParseArgs, plugin, GoTo, Throw
<1>3. /\ result.config \in Configs
      /\ result.status = "ok" =>
           /\ result.config.download_only = AsksForDownload(Words(input.arguments))
           /\ result.config.own = Promised(input.file, input.arguments)
           /\ InRange(result.config.own)
  BY <1>1, <1>2, InputParts, ParsedIsPromised
<1>4. /\ config' = result.config
      /\ \/ pc' = "catch"
         \/ pc' = "exited"
         \/ result.status = "ok" /\ result.config.download_only /\ pc' = "collect"
         \/ result.status = "ok" /\ ~result.config.download_only /\ pc' = "resolve"
  BY <1>1, Zenon DEF ParseArgs, GoTo, Throw
<1>5. result.config.download_only \in BOOLEAN
  BY <1>3 DEF Configs
<1>6. CASE pc' \in {"catch", "exited"}
  BY <1>2, <1>3, <1>4, <1>6 DEF ConfigInv, Unconfigured, Preparing
<1>7. CASE pc' = "collect" /\ result.status = "ok" /\ result.config.download_only
  BY <1>2, <1>3, <1>4, <1>5, <1>7 DEF ConfigInv, Unconfigured, Preparing
<1>8. CASE pc' = "resolve" /\ result.status = "ok" /\ ~result.config.download_only
  BY <1>2, <1>3, <1>4, <1>5, <1>8 DEF ConfigInv, Unconfigured, Preparing
<1> QED
  BY <1>4, <1>6, <1>7, <1>8

\* Every other step leaves the configuration, and the mode of the work.
LEMMA ModeOfTheWork ==
  ASSUME LifeInv, [Next]_vars, ~ParseArgs
  PROVE  /\ UNCHANGED <<input, config>>
         /\ processor' # "none" => processor # "none" \/ pc = "create"
         /\ pc' \notin Unconfigured => pc' = pc \/ pc \notin Unconfigured \/ processor # "none"
         /\ pc' \in Preparing => pc \in Preparing
         /\ pc' \notin Unconfigured \cup Preparing =>
              pc \notin Unconfigured \cup Preparing \/ processor # "none" \/ pc = pc'
<1> USE DEF GoTo, Throw, program, plugin, preparse, Unconfigured, Preparing
<1>1. CASE CollectTargets \/ DownloadRange \/ CheckDownload \/ InspectCaches \/ JoinBuilders
           \/ ReportPreparse
  BY <1>1 DEF CollectTargets, DownloadRange, CheckDownload, InspectCaches, JoinBuilders,
     ReportPreparse
<1>2. CASE \E w \in Worker : ClaimFile(w) \/ BuildCache(w) \/ TellResult(w)
  BY <1>2 DEF ClaimFile, BuildCache, TellResult, thread
<1>3. CASE ResolvePlugin \/ OpenLibrary \/ CheckSymbols \/ CreateProcessor \/ CreateEngine
  BY <1>3 DEF ResolvePlugin, OpenLibrary, CheckSymbols, CreateProcessor, Throwing, CreateEngine
<1>4. CASE RunChunk \/ RunFails \/ RunEnds \/ PrintSummary \/ PrintFault
  BY <1>4 DEF RunChunk, RunFails, RunEnds, PrintSummary, PrintFault
<1>5. CASE RecordSuccess \/ RecordFailure
  BY <1>5 DEF RecordSuccess, RecordFailure
<1>6. CASE DestroyEngine \/ DestroyProcessor \/ CloseLibrary
  BY <1>6 DEF LifeInv, DestroyEngine, DestroyProcessor, CloseLibrary
<1>7. CASE UNCHANGED vars
  BY <1>7 DEF vars
<1> QED
  BY <1>1, <1>2, <1>3, <1>4, <1>5, <1>6, <1>7 DEF Next, Exited

\* Every step keeps it.
LEMMA ConfigNext == LifeInv /\ ConfigInv /\ [Next]_vars => ConfigInv'
<1> SUFFICES ASSUME LifeInv, ConfigInv, [Next]_vars PROVE ConfigInv'
  OBVIOUS
<1>1. CASE ParseArgs
  BY <1>1, ConfigParsed
<1>2. CASE ~ParseArgs
  <2>1. /\ UNCHANGED <<input, config>>
        /\ processor' # "none" => processor # "none" \/ pc = "create"
        /\ pc' \notin Unconfigured => pc' = pc \/ pc \notin Unconfigured \/ processor # "none"
        /\ pc' \in Preparing => pc \in Preparing
        /\ pc' \notin Unconfigured \cup Preparing =>
             pc \notin Unconfigured \cup Preparing \/ processor # "none" \/ pc = pc'
    BY <1>2, ModeOfTheWork
  <2>2. "create" \notin Unconfigured \cup Preparing
    BY DEF Unconfigured, Preparing
  <2>3. /\ pc \notin Unconfigured \/ processor # "none" =>
             config'.own = Promised(input'.file, input'.arguments) /\ InRange(config'.own)
        /\ pc \in Preparing => config'.download_only = TRUE
        /\ pc \notin Unconfigured \cup Preparing \/ processor # "none" =>
             config'.download_only = FALSE
        /\ input' \in Inputs /\ config' \in Configs
    BY <2>1 DEF ConfigInv
  <2>4. pc' \notin Unconfigured \/ processor' # "none" => pc \notin Unconfigured \/ processor # "none"
    BY <2>1, <2>2
  <2>5. pc' \notin Unconfigured \cup Preparing \/ processor' # "none" =>
          pc \notin Unconfigured \cup Preparing \/ processor # "none"
    BY <2>1, <2>2
  <2> QED
    BY <2>1, <2>3, <2>4, <2>5 DEF ConfigInv
<1> QED
  BY <1>1, <1>2

\* README.md on the configuration: whatever config.json and the command line are, a run that
\* begins its work does so with the values promised, in range and in the right mode.
THEOREM ConfigurationIsKept == Spec => []ConfigurationIsPromised
<1>1. LifeInv /\ ConfigInv => ConfigurationIsPromised
  BY DEF LifeInv, ConfigInv, ConfigurationIsPromised, Unconfigured, Preparing
<1> QED
  BY <1>1, LifeInit, LifeNext, ConfigInit, ConfigNext, PTL DEF Spec

-----------------------------------------------------------------------------
(* The types.                                                              *)

\* A thread without a file has no index.
IdleInv == \A w \in Worker : worker[w].at \in {"off", "claim"} => worker[w].index = 0

\* A thread begins without a file.
LEMMA IdleInit == Init => IdleInv
BY DEF Init, IdleInv, Idle

\* A thread that has told of its file forgets its index.
LEMMA IdleNext == LifeInv /\ ThreadInv /\ IdleInv /\ [Next]_vars => IdleInv'
<1> SUFFICES ASSUME LifeInv, ThreadInv, IdleInv, [Next]_vars PROVE IdleInv'
  OBVIOUS
<1>0. worker \in [Worker -> WorkerState]
  BY DEF ThreadInv
<1>1. CASE \E w \in Worker : ClaimFile(w)
  BY <1>0, <1>1 DEF ClaimFile, IdleInv, Idle, WorkerState
<1>2. CASE \E w \in Worker : BuildCache(w)
  BY <1>0, <1>2 DEF BuildCache, IdleInv, WorkerState
<1>3. CASE \E w \in Worker : TellResult(w)
  BY <1>0, <1>3 DEF TellResult, AfterFile, IdleInv, Idle, WorkerState
<1>4. CASE InspectCaches
  BY <1>4 DEF InspectCaches, IdleInv, Idle
<1>5. CASE ~InspectCaches /\ ~\E w \in Worker : ClaimFile(w) \/ BuildCache(w) \/ TellResult(w)
  BY <1>5, OtherSteps DEF IdleInv
<1> QED
  BY <1>1, <1>2, <1>3, <1>4, <1>5

\* Every variable of the main program keeps its type; the index a thread holds is one of
\* the files to parse, or none.
THEOREM TypesAreKept == Spec => []TypeOK
<1>1. LifeInv /\ RecordInv /\ ThreadInv /\ ConfigInv /\ IdleInv => TypeOK
  <2> SUFFICES ASSUME LifeInv, RecordInv, ThreadInv, ConfigInv, IdleInv PROVE TypeOK
    OBVIOUS
  <2>1. /\ pc \in Place /\ fault \in {"none", "program", "plugin"} /\ exit \in {NoExit, 0, 1}
        /\ handle \in {"none", "open", "closed"} /\ processor \in {"none", "live", "destroyed"}
        /\ engine \in BOOLEAN
    BY DEF LifeInv
  <2>2. /\ input \in Inputs /\ config.cache \in [CacheKey -> STRING]
        /\ config.own \in [Key -> STRING] /\ config.download_only \in BOOLEAN
    BY DEF ConfigInv, Configs
  <2>3. records \in Seq([status : Status, whole : BOOLEAN])
    BY DEF RecordInv
  <2>4. /\ targets \subseteq Source /\ mrt \subseteq Source /\ caches \subseteq mrt
        /\ next \in Nat \ {0}
        /\ summary.reused \in Nat /\ summary.generated \in Nat /\ summary.failures \in Seq(Source)
    BY DEF ThreadInv
  <2>5. pending \in Seq(Source)
    BY SeqMonotonic DEF ThreadInv
  <2>6. worker \in [Worker -> [at : {"off", "claim", "build", "tell"},
                               index : 0..Len(pending), built : BOOLEAN]]
    <3>1. worker \in [Worker -> WorkerState] /\ Len(pending) \in Nat
      BY LenProperties DEF ThreadInv
    <3>2. ASSUME NEW w \in Worker
          PROVE  worker[w].index \in 0..Len(pending)
      <4>1. worker[w].at \in {"off", "claim", "build", "tell"}
        BY <3>1 DEF WorkerState
      <4>2. CASE worker[w].at \in {"off", "claim"}
        BY <3>1, <4>2 DEF IdleInv
      <4>3. CASE worker[w].at \in {"build", "tell"}
        BY <3>1, <4>3 DEF ThreadInv, Busy
      <4> QED
        BY <4>1, <4>2, <4>3
    <3> QED
      BY <3>1, <3>2 DEF WorkerState
  <2> QED
    BY <2>1, <2>2, <2>3, <2>4, <2>5, <2>6 DEF TypeOK
<1> QED
  BY <1>1, LifeInit, LifeNext, RecordInit, RecordNext, ThreadInit, ThreadNext,
     ConfigInit, ConfigNext, IdleInit, IdleNext, PTL DEF Spec
=============================================================================
