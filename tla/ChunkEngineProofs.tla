-------------------------- MODULE ChunkEngineProofs --------------------------
(***************************************************************************)
(* Theorems about ChunkEngine, for every number of files, chunks, threads,  *)
(* messages and every configuration: the type invariant, the mutual         *)
(* exclusion of the handlers, the promises of strict order, the accounts,   *)
(* and that the engine implements OrderedDelivery.                          *)
(***************************************************************************)
EXTENDS ChunkEngine, FiniteSetTheorems, SequenceTheorems, NaturalFacts, TLAPS

-----------------------------------------------------------------------------
(* The data a traversal hands out.                                         *)

\* A message belongs to a file, and has a time.
LEMMA MessageType ==
  ASSUME NEW m \in Message
  PROVE  m[1] \in File /\ m[2] \in 1..Len(Content[m[1]]) /\ Ts(m) \in Nat
<1>1. PICK f \in File : m \in {f} \X (1..Len(Content[f]))
  BY DEF Message
<1>2. m[1] = f /\ m[2] \in 1..Len(Content[f])
  BY <1>1
<1>3. Content[f] \in Seq(Nat)
  BY ConstantsOK
<1>4. Content[f][m[2]] \in Nat
  BY <1>2, <1>3, ElementOfSeq
<1> QED
  BY <1>2, <1>4 DEF Ts

\* A file holds finitely many messages.
LEMMA MessagesOfType ==
  ASSUME NEW f \in File
  PROVE  MessagesOf(f) \subseteq Message /\ IsFiniteSet(MessagesOf(f))
<1> DEFINE n == Len(Content[f])
           pair == [i \in 1..n |-> <<f, i>>]
<1>1. n \in Nat
  BY ConstantsOK, LenProperties
<1>2. IsFiniteSet(1..n)
  BY <1>1, FS_Interval
<1>3. pair \in Surjection(1..n, MessagesOf(f))
  BY DEF Surjection, MessagesOf
<1>4. IsFiniteSet(MessagesOf(f))
  BY <1>2, <1>3, FS_Surjection
<1>5. MessagesOf(f) \subseteq Message
  BY DEF MessagesOf, Message
<1> QED
  BY <1>4, <1>5

\* What a traversal of some messages of a file hands out is a sequence of them.
LEMMA StreamType ==
  ASSUME NEW c, NEW f \in File, NEW S \in SUBSET MessagesOf(f)
  PROVE  /\ ParseStreams(c, S) \subseteq Seq(Message)
         /\ CacheStreams(c, S) \subseteq Seq(Message)
<1> DEFINE T == {m \in S : InRange(c, m)}
<1>1. T \in SUBSET Message /\ T \in SUBSET MessagesOf(f)
  BY MessagesOfType
<1>2. IsFiniteSet(T)
  BY <1>1, MessagesOfType, FS_Subset
<1>3. Cardinality(T) \in Nat
  BY <1>2, FS_CardinalityType
<1>4. Listings(T) \subseteq Seq(T)
  BY <1>3, SeqDef DEF Listings
<1>5. Listings(T) \subseteq Seq(Message)
  BY <1>1, <1>4, SeqMonotonic
<1> QED
  BY <1>5 DEF ParseStreams, CacheStreams

LEMMA InputType ==
  ASSUME NEW c, NEW f \in File
  PROVE  ParseInputs(c, f) \subseteq Input /\ CacheInputs(c, f) \subseteq Input
<1>1. ASSUME NEW s \in Seq(Message), NEW ok \in BOOLEAN, NEW realtime \in BOOLEAN
      PROVE  Reading(s, ok, realtime) \in Input
  BY <1>1 DEF Reading, Input
<1>2. \A k : ParsePrefix(f, k) \in SUBSET MessagesOf(f)
  BY DEF ParsePrefix
<1>3. \A k : CachePrefix(f, k) \in SUBSET MessagesOf(f)
  BY DEF CachePrefix
<1>4. \A S \in SUBSET MessagesOf(f) : /\ ParseStreams(c, S) \subseteq Seq(Message)
                                      /\ CacheStreams(c, S) \subseteq Seq(Message)
  BY StreamType
<1>5. ASSUME NEW i \in ParseInputs(c, f)
      PROVE  i \in Input
  <2>1. CASE source[f] = "ok"
    <3>1. PICK s \in ParseStreams(c, MessagesOf(f)) : i = Reading(s, TRUE, TRUE)
      BY <1>5, <2>1 DEF ParseInputs
    <3> QED
      BY <1>1, <1>4, <3>1
  <2>2. CASE source[f] # "ok"
    <3>1. PICK k \in 0..Len(Content[f]) :
            i \in {Reading(s, FALSE, TRUE) : s \in ParseStreams(c, ParsePrefix(f, k))}
      BY <1>5, <2>2 DEF ParseInputs
    <3>2. PICK s \in ParseStreams(c, ParsePrefix(f, k)) : i = Reading(s, FALSE, TRUE)
      BY <3>1
    <3> QED
      BY <1>1, <1>2, <1>4, <3>2
  <2> QED
    BY <2>1, <2>2
<1>6. ASSUME NEW i \in CacheInputs(c, f)
      PROVE  i \in Input
  <2>1. CASE cache[f] = "valid"
    <3>1. PICK s \in CacheStreams(c, MessagesOf(f)) : i = Reading(s, TRUE, FALSE)
      BY <1>6, <2>1 DEF CacheInputs
    <3> QED
      BY <1>1, <1>4, <3>1
  <2>2. CASE cache[f] = "stale"
    BY <1>1, <1>6, <2>2, EmptySeq DEF CacheInputs
  <2>3. CASE cache[f] \notin {"valid", "stale"}
    <3>1. PICK k \in 0..Len(Content[f]) :
            i \in {Reading(s, FALSE, FALSE) : s \in CacheStreams(c, CachePrefix(f, k))}
      BY <1>6, <2>3 DEF CacheInputs
    <3>2. PICK s \in CacheStreams(c, CachePrefix(f, k)) : i = Reading(s, FALSE, FALSE)
      BY <3>1
    <3> QED
      BY <1>1, <1>3, <1>4, <3>2
  <2> QED
    BY <2>1, <2>2, <2>3
<1> QED
  BY <1>5, <1>6

\* A ready batch is a non-empty beginning of the messages left.
LEMMA BatchType ==
  ASSUME NEW i \in Input, BatchReady(i)
  PROVE  /\ Batch(i) \in Seq(Message)
         /\ Len(Batch(i)) \in 1..Len(i.todo)
<1>1. i.todo \in Seq(Message) /\ i.ok \in BOOLEAN
  BY DEF Input
<1>2. Len(i.todo) \in Nat /\ (i.todo # <<>> => Len(i.todo) > 0)
  BY <1>1, LenProperties, EmptySeq
<1>3. BatchLength(i) \in 1..Len(i.todo)
  BY <1>2, ConstantsOK DEF BatchReady, BatchLength
<1>4. \A j \in 1..BatchLength(i) : i.todo[j] \in Message
  BY <1>1, <1>2, <1>3, ElementOfSeq
<1>5. Batch(i) \in Seq(Message) /\ Len(Batch(i)) = BatchLength(i)
  BY <1>2, <1>3, <1>4, SubSeqProperties DEF Batch
<1> QED
  BY <1>3, <1>5

-----------------------------------------------------------------------------
(* Types.                                                                  *)

\* Where a parser thread holds a file.
HoldsFile == {"open", "read", "handle", "record", "throw"}

\* The chunk in hand is a planned one, threads live only while the main thread
\* waits for them, and a thread's file is one of that chunk.
Control ==
  /\ Len(planned) <= Len(Targets)
  /\ main \in {"require", "inspect", "start", "join"} => chunk \in 1..Len(planned)
  /\ main = "chunk" => chunk > 0
  /\ \A w \in Worker : pc[w] # "exited" => main = "join"
  /\ \A w \in Worker : pc[w] \in HoldsFile => file[w] \in 1..Len(Files)
  /\ \A w \in Worker : pc[w] = "handle" => BatchReady(input[w])

TypeInv == TypeOK /\ Control

LEMMA TypeInit == Init => TypeInv
<1> SUFFICES ASSUME Init PROVE TypeInv
  OBVIOUS
<1>1. options \in Option /\ options.limit \in Int
  BY ConstantsOK DEF Init, Option
<1>2. source \in [File -> SourceState] /\ cache \in [File -> CacheState]
  BY ConstantsOK DEF Init, PossibleFileStates
<1>3. /\ NoInput \in Input
      /\ planned \in Seq(Seq(File)) /\ Len(planned) = 0
      /\ delivered \in Seq(Message)
  BY EmptySeq DEF Init, NoInput, Input
<1>4. Len(Targets) \in Nat
  BY ConstantsOK, LenProperties
<1>5. stats \in RangeProcessingStats
  BY DEF Init, RangeProcessingStats
<1>6. main \in MainLabel /\ pc \in [Worker -> WorkerLabel] /\ file \in [Worker -> Nat]
  BY DEF Init, MainLabel, WorkerLabel
<1>7. input \in [Worker -> Input]
  BY <1>3 DEF Init
<1>8. TypeOK
  <2>1. fatal_error \in BOOLEAN /\ finalized \in BOOLEAN
    BY DEF Init
  <2>2. chunk \in Nat /\ next_file_index \in Nat \ {0} /\ remaining_limit \in Int
    BY <1>1 DEF Init
  <2>3. /\ forced \in SUBSET File /\ processor_mutex \in Worker \cup {NoWorker}
        /\ last_delivered \in Nat \cup {NoTime}
    BY DEF Init
  <2> QED
    BY <1>1, <1>2, <1>3, <1>5, <1>6, <1>7, <2>1, <2>2, <2>3 DEF TypeOK
<1>9. Control
  BY <1>3, <1>4 DEF Init, Control, HoldsFile
<1> QED
  BY <1>8, <1>9 DEF TypeInv

\* The files of the chunk in hand.
LEMMA FilesType ==
  ASSUME TypeOK, chunk \in 1..Len(planned)
  PROVE  /\ Files \in Seq(File)
         /\ Len(Files) \in Nat
         /\ RangeOf(Files) \subseteq File
         /\ IsFiniteSet(RangeOf(Files))
<1>1. Files \in Seq(File)
  BY ElementOfSeq DEF TypeOK, Files
<1>2. Len(Files) \in Nat /\ DOMAIN Files = 1..Len(Files)
  BY <1>1, LenProperties
<1>3. RangeOf(Files) \subseteq File
  BY <1>1, <1>2, ElementOfSeq DEF RangeOf
<1> QED
  BY <1>1, <1>2, <1>3, ConstantsOK, FS_Subset

\* Planning keeps the targets typed and takes one chunk at most.
LEMMA PlanType ==
  ASSUME TypeInv, PlanChunk
  PROVE  /\ planned' \in Seq(Seq(File))
         /\ Len(planned') <= Len(Targets)
         /\ remaining_limit' \in Int
<1> DEFINE next == Targets[Len(planned) + 1]
           targets == Limited(next, remaining_limit)
<1>1. /\ planned \in Seq(Seq(File)) /\ remaining_limit \in Int
      /\ Len(planned) \in Nat /\ Len(Targets) \in Nat
      /\ Len(planned) < Len(Targets)
  BY ConstantsOK, LenProperties DEF TypeInv, TypeOK, Control, PlanChunk, PlanComplete
<1>2. next \in Seq(File) /\ Len(next) \in Nat
  BY <1>1, ConstantsOK, ElementOfSeq, LenProperties
<1>3. targets \in Seq(File)
  <2>1. CASE remaining_limit <= 0 \/ remaining_limit >= Len(next)
    BY <1>2, <2>1 DEF Limited
  <2>2. CASE ~(remaining_limit <= 0 \/ remaining_limit >= Len(next))
    <3>1. \A i \in 1..remaining_limit : next[i] \in File
      BY <1>1, <1>2, <2>2, ElementOfSeq
    <3> QED
      BY <1>1, <2>2, <3>1, SubSeqProperties DEF Limited
  <2> QED
    BY <2>1, <2>2
<1>4. Len(targets) \in Nat
  BY <1>3, LenProperties
<1>5. CASE UNCHANGED plan
  BY <1>1, <1>5 DEF plan
<1>6. CASE planned' = Append(planned, targets) /\ remaining_limit' = LimitAfter(targets)
  <2>1. planned' \in Seq(Seq(File)) /\ Len(planned') = Len(planned) + 1
    BY <1>1, <1>3, <1>6
  <2>2. remaining_limit' \in Int
    BY <1>1, <1>4, <1>6 DEF LimitAfter
  <2> QED
    BY <1>1, <2>1, <2>2
<1> QED
  BY <1>5, <1>6 DEF PlanChunk

\* The counters stay natural numbers.
LEMMA StatsType ==
  ASSUME NEW r \in RangeProcessingStats, NEW k \in Nat, NEW n \in Nat
  PROVE  /\ [r EXCEPT !.chunk_count = @ + 1] \in RangeProcessingStats
         /\ [r EXCEPT !.realtime_parsed_files = @ + n] \in RangeProcessingStats
         /\ [r EXCEPT !.files_used = @ + 1, !.visited_messages = @ + k,
                      !.realtime_parsed_files = @ + n] \in RangeProcessingStats
<1>1. /\ r.chunk_count \in Nat /\ r.files_used \in Nat
      /\ r.visited_messages \in Nat /\ r.realtime_parsed_files \in Nat
  BY DEF RangeProcessingStats
<1>2. [r EXCEPT !.chunk_count = @ + 1] \in RangeProcessingStats
  BY <1>1 DEF RangeProcessingStats
<1>3. [r EXCEPT !.realtime_parsed_files = @ + n] \in RangeProcessingStats
  BY <1>1 DEF RangeProcessingStats
<1>4. [r EXCEPT !.files_used = @ + 1, !.visited_messages = @ + k,
                !.realtime_parsed_files = @ + n] \in RangeProcessingStats
  <2> DEFINE r1 == [r EXCEPT !.files_used = @ + 1]
             r2 == [r1 EXCEPT !.visited_messages = @ + k]
             r3 == [r2 EXCEPT !.realtime_parsed_files = @ + n]
  <2>1. r1 \in RangeProcessingStats /\ r1.visited_messages = r.visited_messages
                                   /\ r1.realtime_parsed_files = r.realtime_parsed_files
    BY <1>1 DEF RangeProcessingStats
  <2>2. r2 \in RangeProcessingStats /\ r2.realtime_parsed_files = r.realtime_parsed_files
    <3> HIDE DEF r1
    <3> QED
      BY <1>1, <2>1 DEF RangeProcessingStats
  <2>3. r3 \in RangeProcessingStats
    <3> HIDE DEF r2
    <3> QED
      BY <1>1, <2>2 DEF RangeProcessingStats
  <2>4. [r EXCEPT !.files_used = @ + 1, !.visited_messages = @ + k,
                  !.realtime_parsed_files = @ + n] = r3
    BY <1>1, <2>1, <2>2, Zenon
  <2> QED
    BY <2>3, <2>4
<1> QED
  BY <1>2, <1>3, <1>4

\* The main thread's steps keep the types.
LEMMA TypeMain ==
  ASSUME TypeInv, MainStep
  PROVE  TypeInv'
<1> USE DEF run, plan, disk, claims, delivery, work
<1>1. Len(planned) \in Nat /\ Len(Targets) \in Nat /\ Len(planned) <= Len(Targets)
  BY ConstantsOK, LenProperties DEF TypeInv, TypeOK, Control
<1>2. main # "join" => \A w \in Worker : pc[w] = "exited"
  BY DEF TypeInv, Control
<1>3. CASE PlanChunk
  <2>1. TypeOK'
    BY <1>3, PlanType DEF TypeInv, TypeOK, PlanChunk, MainLabel
  <2>2. Control'
    BY <1>2, <1>3, PlanType DEF PlanChunk, Control, TypeInv, HoldsFile
  <2> QED
    BY <2>1, <2>2 DEF TypeInv
<1>4. CASE EndPlan
  <2>1. TypeOK'
    BY <1>4 DEF TypeInv, TypeOK, EndPlan, MainLabel
  <2>2. Control'
    BY <1>1, <1>2, <1>4 DEF EndPlan, Control, TypeInv, HoldsFile
  <2> QED
    BY <2>1, <2>2 DEF TypeInv
<1>5. CASE BeginChunk
  <2>1. source' \in [File -> SourceState]
    BY <1>5 DEF BeginChunk, TypeInv, TypeOK, SourceState
  <2>2. stats' \in RangeProcessingStats
    BY <1>5, StatsType DEF BeginChunk, TypeInv, TypeOK
  <2>3. TypeOK'
    BY <1>5, <2>1, <2>2 DEF TypeInv, TypeOK, BeginChunk, MainLabel
  <2>4. chunk \in 1..Len(planned)
    BY <1>1, <1>5 DEF BeginChunk, TypeInv, TypeOK, Control
  <2>5. Control'
    BY <1>1, <1>2, <1>5, <2>4 DEF BeginChunk, Control, TypeInv, HoldsFile
  <2> QED
    BY <2>3, <2>5 DEF TypeInv
<1>6. CASE RequireSources
  <2>1. TypeOK'
    BY <1>6 DEF TypeInv, TypeOK, RequireSources, MainLabel
  <2>2. Control'
    BY <1>1, <1>2, <1>6 DEF RequireSources, Control, TypeInv, HoldsFile
  <2> QED
    BY <2>1, <2>2 DEF TypeInv
<1>7. CASE RecoverCaches
  <2> DEFINE unavailable == {f \in RangeOf(Files) : Unavailable(f)}
  <2>1. chunk \in 1..Len(planned)
    BY <1>7 DEF RecoverCaches, TypeInv, Control
  <2>2. unavailable \subseteq File /\ Cardinality(unavailable) \in Nat
    BY <2>1, FilesType, FS_Subset, FS_CardinalityType DEF TypeInv
  <2>3. cache' \in [File -> CacheState]
    BY <1>7 DEF RecoverCaches, TypeInv, TypeOK, CacheState
  <2>4. forced' \in SUBSET File /\ main' \in {"start", "failed"}
    BY <1>7, <2>2 DEF RecoverCaches
  <2>5. stats' \in RangeProcessingStats
    BY <1>7, <2>2, StatsType DEF RecoverCaches, TypeInv, TypeOK
  <2>6. TypeOK'
    BY <1>7, <2>3, <2>4, <2>5 DEF TypeInv, TypeOK, RecoverCaches, MainLabel
  <2>7. Control'
    BY <1>1, <1>2, <1>7, <2>1, <2>4 DEF RecoverCaches, Control, TypeInv, HoldsFile
  <2> QED
    BY <2>6, <2>7 DEF TypeInv
<1>8. CASE StartWorkers
  <2>1. chunk \in 1..Len(planned)
    BY <1>8 DEF StartWorkers, TypeInv, Control
  <2>2. CASE Files = <<>>
    <3>1. TypeOK'
      BY <1>8, <2>2 DEF TypeInv, TypeOK, StartWorkers, MainLabel
    <3>2. Control'
      BY <1>1, <1>2, <1>8, <2>1, <2>2 DEF StartWorkers, Control, TypeInv, HoldsFile
    <3> QED
      BY <3>1, <3>2 DEF TypeInv
  <2>3. CASE Files # <<>>
    <3>1. pc' \in [Worker -> WorkerLabel] /\ \A w \in Worker : pc'[w] \in {"claim", "exited"}
      BY <1>8, <2>3 DEF StartWorkers, WorkerLabel
    <3>2. fatal_error' \in BOOLEAN
      BY <1>8, <2>3 DEF StartWorkers
    <3>3. TypeOK'
      BY <1>8, <2>3, <3>1, <3>2 DEF TypeInv, TypeOK, StartWorkers, MainLabel, FirstFile
    <3>4. Control'
      BY <1>1, <1>8, <2>1, <2>3, <3>1 DEF StartWorkers, Control, TypeInv, HoldsFile
    <3> QED
      BY <3>3, <3>4 DEF TypeInv
  <2> QED
    BY <2>2, <2>3
<1>9. CASE JoinWorkers
  <2>1. TypeOK'
    BY <1>9 DEF TypeInv, TypeOK, JoinWorkers, MainLabel
  <2>2. Control'
    BY <1>1, <1>9 DEF JoinWorkers, AllJoined, Control, TypeInv, TypeOK, HoldsFile
  <2> QED
    BY <2>1, <2>2 DEF TypeInv
<1>10. CASE Finalize
  <2>1. finalized' \in BOOLEAN
    BY <1>10 DEF Finalize, TypeInv, TypeOK
  <2>2. TypeOK'
    BY <1>10, <2>1 DEF TypeInv, TypeOK, Finalize, MainLabel
  <2>3. Control'
    BY <1>1, <1>2, <1>10 DEF Finalize, Control, TypeInv, HoldsFile
  <2> QED
    BY <2>2, <2>3 DEF TypeInv
<1> QED
  BY <1>3, <1>4, <1>5, <1>6, <1>7, <1>8, <1>9, <1>10 DEF MainStep

\* The parser threads' steps keep the types.
LEMMA TypeWorker ==
  ASSUME TypeInv, NEW w \in Worker, WorkerStep(w)
  PROVE  TypeInv'
<1> USE DEF run, plan, disk, claims, delivery
<1>1. pc \in [Worker -> WorkerLabel] /\ input[w] \in Input /\ input \in [Worker -> Input]
  BY DEF TypeInv, TypeOK
<1>2. pc[w] # "exited" /\ main = "join" /\ chunk \in 1..Len(planned)
  BY DEF WorkerStep, TypeInv, Control, ClaimFile, OpenInput, EnterHandler, RejectBatch,
         LeaveHandler, HandlerThrows, EndTraversal, RecordFile, StoreError
<1>3. Files \in Seq(File) /\ Len(Files) \in Nat /\ Len(planned) <= Len(Targets)
  BY <1>2, FilesType DEF TypeInv, Control
<1>4. CASE ClaimFile(w)
  <2>1. next_file_index \in Nat \ {0} /\ file \in [Worker -> Nat]
    BY DEF TypeInv, TypeOK
  <2>2. CASE next_file_index > Len(Files)
    <3>1. TypeOK'
      BY SMTT(30), <1>4, <2>1, <2>2 DEF TypeInv, TypeOK, ClaimFile, Goto, WorkerLabel
    <3>2. Control'
      BY <1>1, <1>2, <1>4, <2>2 DEF TypeInv, Control, ClaimFile, Goto, HoldsFile, Files, BatchReady
    <3> QED
      BY <3>1, <3>2 DEF TypeInv
  <2>3. CASE ~(next_file_index > Len(Files))
    <3>1. /\ next_file_index \in 1..Len(Files)
          /\ file' = [file EXCEPT ![w] = next_file_index]
          /\ pc' = [pc EXCEPT ![w] = "open"]
      BY <1>3, <1>4, <2>1, <2>3 DEF ClaimFile, Goto
    <3>2. TypeOK'
      BY <1>4, <2>1, <3>1 DEF TypeInv, TypeOK, ClaimFile, WorkerLabel
    <3>3. \A v \in Worker : pc'[v] \in HoldsFile => file'[v] \in 1..Len(Files)
      BY <1>1, <2>1, <3>1 DEF TypeInv, Control
    <3>4. Control'
      BY <1>1, <1>2, <1>3, <1>4, <3>1, <3>3 DEF TypeInv, Control, ClaimFile, HoldsFile, Files, BatchReady
    <3> QED
      BY <3>2, <3>4 DEF TypeInv
  <2> QED
    BY <2>2, <2>3
<1>5. CASE OpenInput(w)
  <2> DEFINE f == CurrentFile(w)
  <2>1. f \in File
    BY <1>3, <1>5, ElementOfSeq DEF OpenInput, CurrentFile, TypeInv, Control, HoldsFile
  <2>2. ParseInputs(chunk, f) \subseteq Input /\ CacheInputs(chunk, f) \subseteq Input
    BY <2>1, InputType
  <2>3. \A s \in CacheStreams(chunk, MessagesOf(f)) : Reading(s, TRUE, TRUE) \in Input
    BY <2>1, StreamType DEF Reading, Input
  <2>4. input' \in [Worker -> Input]
    <3>1. input' = input \/ \E i \in Input : input' = [input EXCEPT ![w] = i]
      BY <1>5, <2>2, <2>3 DEF OpenInput
    <3> QED
      BY <1>1, <3>1
  <2>5. pc' \in [Worker -> WorkerLabel]
        /\ \A v \in Worker : pc'[v] # pc[v] => v = w /\ pc'[v] \in {"read", "throw"}
    BY <1>1, <1>5 DEF OpenInput, Goto, WorkerLabel
  <2>6. cache' \in [File -> CacheState]
    BY <1>5 DEF OpenInput, TypeInv, TypeOK, CacheState
  <2>7. TypeOK'
    BY <1>5, <2>4, <2>5, <2>6 DEF TypeInv, TypeOK, OpenInput
  <2>8. \A v \in Worker : pc'[v] = "handle" => pc[v] = "handle" /\ input'[v] = input[v]
    BY <1>1, <1>5, <2>5 DEF OpenInput
  <2>9. Control'
    BY <1>1, <1>2, <1>5, <2>5, <2>8 DEF TypeInv, Control, OpenInput, HoldsFile, Files, BatchReady
  <2> QED
    BY <2>7, <2>9 DEF TypeInv
<1>6. CASE EnterHandler(w)
  <2>1. delivered' \in Seq(Message)
    BY <1>1, <1>6, BatchType, ConcatProperties DEF EnterHandler, TypeInv, TypeOK
  <2>2. TypeOK'
    BY <1>6, <2>1 DEF TypeInv, TypeOK, EnterHandler, Goto, WorkerLabel
  <2>3. Control'
    BY <1>1, <1>2, <1>6 DEF TypeInv, Control, EnterHandler, Goto, HoldsFile, Files, BatchReady
  <2> QED
    BY <2>2, <2>3 DEF TypeInv
<1>7. CASE RejectBatch(w)
  <2>1. TypeOK'
    BY <1>7 DEF TypeInv, TypeOK, RejectBatch, Goto, WorkerLabel
  <2>2. Control'
    BY <1>1, <1>2, <1>7 DEF TypeInv, Control, RejectBatch, Goto, HoldsFile, Files, BatchReady
  <2> QED
    BY <2>1, <2>2 DEF TypeInv
<1>8. CASE LeaveHandler(w)
  <2> DEFINE i == input[w]
             b == Batch(i)
  <2>1. b \in Seq(Message) /\ Len(b) \in 1..Len(i.todo) /\ i.todo \in Seq(Message)
    BY <1>1, <1>8, BatchType DEF LeaveHandler, TypeInv, Control, Input
  <2>2. Ts(b[Len(b)]) \in Nat
    BY <2>1, ElementOfSeq, MessageType
  <2>3. SubSeq(i.todo, Len(b) + 1, Len(i.todo)) \in Seq(Message)
    <3>1. \A j \in (Len(b) + 1)..Len(i.todo) : i.todo[j] \in Message
      BY <2>1, ElementOfSeq
    <3> QED
      BY <2>1, <3>1, SubSeqProperties
  <2>4. input' \in [Worker -> Input]
    <3> DEFINE r1 == [i EXCEPT !.todo = SubSeq(@, Len(b) + 1, Len(@))]
               r2 == [r1 EXCEPT !.visited = @ + Len(b)]
    <3>1. r1 \in Input
      BY <1>1, <2>3 DEF Input
    <3>2. r2 \in Input
      <4> HIDE DEF r1
      <4> QED
        BY <2>1, <3>1 DEF Input
    <3>3. input' = [input EXCEPT ![w] = r2]
      BY <1>8, Zenon DEF LeaveHandler
    <3> HIDE DEF r2
    <3> QED
      BY <1>1, <3>2, <3>3
  <2>5. TypeOK'
    BY <1>8, <2>2, <2>4 DEF TypeInv, TypeOK, LeaveHandler, Goto, WorkerLabel
  <2>6. \A v \in Worker : pc'[v] = "handle" => pc[v] = "handle" /\ input'[v] = input[v]
    BY <1>1, <1>8 DEF LeaveHandler, Goto
  <2>7. Control'
    BY <1>1, <1>2, <1>8, <2>6 DEF TypeInv, Control, LeaveHandler, Goto, HoldsFile, Files, BatchReady
  <2> QED
    BY <2>5, <2>7 DEF TypeInv
<1>9. CASE HandlerThrows(w)
  <2>1. TypeOK'
    BY <1>9 DEF TypeInv, TypeOK, HandlerThrows, Goto, WorkerLabel
  <2>2. Control'
    BY <1>1, <1>2, <1>9 DEF TypeInv, Control, HandlerThrows, Goto, HoldsFile, Files, BatchReady
  <2> QED
    BY <2>1, <2>2 DEF TypeInv
<1>10. CASE EndTraversal(w)
  <2>1. TypeOK'
    BY <1>10 DEF TypeInv, TypeOK, EndTraversal, Goto, WorkerLabel
  <2>2. Control'
    BY <1>1, <1>2, <1>10 DEF TypeInv, Control, EndTraversal, Goto, HoldsFile, Files, BatchReady
  <2> QED
    BY <2>1, <2>2 DEF TypeInv
<1>11. CASE RecordFile(w)
  <2>1. NoInput \in Input
    BY EmptySeq DEF NoInput, Input
  <2>2. stats' \in RangeProcessingStats
    BY <1>1, <1>11, StatsType DEF RecordFile, TypeInv, TypeOK, Input
  <2>3. TypeOK'
    BY <1>11, <2>1, <2>2 DEF TypeInv, TypeOK, RecordFile, Goto, WorkerLabel
  <2>4. Control'
    BY <1>1, <1>2, <1>11 DEF TypeInv, Control, RecordFile, Goto, HoldsFile, Files, BatchReady
  <2> QED
    BY <2>3, <2>4 DEF TypeInv
<1>12. CASE StoreError(w)
  <2>1. NoInput \in Input /\ fatal_error' \in BOOLEAN
    BY <1>12, EmptySeq DEF NoInput, Input, StoreError
  <2>2. TypeOK'
    BY <1>12, <2>1 DEF TypeInv, TypeOK, StoreError, Goto, WorkerLabel
  <2>3. Control'
    BY <1>1, <1>2, <1>12 DEF TypeInv, Control, StoreError, Goto, HoldsFile, Files, BatchReady
  <2> QED
    BY <2>2, <2>3 DEF TypeInv
<1> QED
  BY <1>4, <1>5, <1>6, <1>7, <1>8, <1>9, <1>10, <1>11, <1>12 DEF WorkerStep

LEMMA TypeStep == TypeInv /\ [Next]_vars => TypeInv'
<1> SUFFICES ASSUME TypeInv, [Next]_vars PROVE TypeInv'
  OBVIOUS
<1>1. CASE MainStep
  BY <1>1, TypeMain
<1>2. CASE \E w \in Worker : WorkerStep(w)
  BY <1>2, TypeWorker
<1>3. CASE UNCHANGED vars
  BY <1>3 DEF TypeInv, TypeOK, Control, Files, BatchReady, vars, run, plan, disk, claims,
              work, delivery
<1> QED
  BY <1>1, <1>2, <1>3 DEF Next, Stopped

\* Every variable of a run keeps its type, and the threads, the chunk in hand and
\* the claimed files stay consistent, whatever the sizes of the plan, the files
\* and the thread pool.
THEOREM TypeInvariant == Spec => []TypeInv
<1> QED
  BY TypeInit, TypeStep, PTL DEF Spec

THEOREM TypeCorrect == Spec => []TypeOK
<1>1. TypeInv => TypeOK
  BY DEF TypeInv
<1> QED
  BY <1>1, TypeInvariant, PTL

-----------------------------------------------------------------------------
(* Mutual exclusion of the handlers.                                       *)

\* A thread in the handler holds the mutex, unless handlers run concurrently.
MutexInv ==
  ~Concurrent => \A w \in Worker : pc[w] = "handle" => processor_mutex = w

LEMMA MutexStep == TypeInv /\ MutexInv /\ [Next]_vars => MutexInv'
<1> SUFFICES ASSUME TypeInv, MutexInv, [Next]_vars PROVE MutexInv'
  OBVIOUS
<1> USE DEF run, plan, disk, claims, delivery, work
<1>1. /\ pc \in [Worker -> WorkerLabel]
      /\ \A w \in Worker : w # NoWorker
  BY ConstantsOK DEF TypeInv, TypeOK, Worker, NoWorker
<1>2. main # "join" => \A w \in Worker : pc[w] = "exited"
  BY DEF TypeInv, Control
<1>3. CASE MainStep
  <2>1. CASE StartWorkers
    <3>1. \A w \in Worker : pc'[w] # "handle"
      BY <1>2, <2>1 DEF StartWorkers
    <3> QED
      BY <2>1, <3>1 DEF MutexInv
  <2>2. CASE ~StartWorkers
    <3>1. UNCHANGED <<options, pc, processor_mutex>>
      BY <1>3, <2>2 DEF MainStep, PlanChunk, EndPlan, BeginChunk, RequireSources, RecoverCaches,
                        JoinWorkers, Finalize
    <3> QED
      BY <3>1 DEF MutexInv, Concurrent
  <2> QED
    BY <2>1, <2>2
<1>4. ASSUME NEW w \in Worker, WorkerStep(w)
      PROVE  MutexInv'
  <2>1. UNCHANGED options
    BY <1>4 DEF WorkerStep, ClaimFile, OpenInput, EnterHandler, RejectBatch, LeaveHandler,
                HandlerThrows, EndTraversal, RecordFile, StoreError
  <2>2. CASE EnterHandler(w)
    BY <1>1, <2>1, <2>2 DEF MutexInv, EnterHandler, Goto, Concurrent
  <2>3. CASE LeaveHandler(w) \/ HandlerThrows(w)
    BY <1>1, <2>1, <2>3 DEF MutexInv, LeaveHandler, HandlerThrows, Goto, Concurrent
  <2>4. CASE ClaimFile(w) \/ OpenInput(w) \/ RejectBatch(w) \/ EndTraversal(w)
               \/ RecordFile(w) \/ StoreError(w)
    <3>1. UNCHANGED processor_mutex /\ \A v \in Worker : pc'[v] = "handle" => pc[v] = "handle"
      BY <1>1, <2>4 DEF ClaimFile, OpenInput, RejectBatch, EndTraversal, RecordFile, StoreError,
                        Goto
    <3> QED
      BY <2>1, <3>1 DEF MutexInv, Concurrent
  <2> QED
    BY <1>4, <2>2, <2>3, <2>4 DEF WorkerStep
<1>5. CASE UNCHANGED vars
  BY <1>5 DEF MutexInv, Concurrent, vars
<1> QED
  BY <1>3, <1>4, <1>5 DEF Next, Stopped

\* Whatever the number of threads, a processor that is not declared safe for
\* concurrent calls, or that asked for strict order, is never entered twice.
THEOREM HandlersExclude == Spec => []SerialHandlers
<1>1. Init => MutexInv
  BY DEF Init, MutexInv
<1>2. MutexInv => SerialHandlers
  BY DEF MutexInv, SerialHandlers, Concurrent
<1> QED
  BY <1>1, <1>2, MutexStep, TypeInvariant, PTL DEF Spec

-----------------------------------------------------------------------------
(* Strict order.                                                           *)

\* The time of the last message handed to the processor.
LastTime ==
  IF delivered = <<>> THEN NoTime ELSE Ts(delivered[Len(delivered)])

\* Under strict order there is one thread; what it remembers is the time of the
\* last delivered message, except between a call of the handler and its return;
\* and after an error, which leaves that memory behind, nobody reads again.
StrictInv ==
  /\ fatal_error => main \in {"join", "failed"}
  /\ options.strict =>
       /\ \A w \in Worker : pc[w] # "exited" => w = 1 /\ ~fatal_error
       /\ \A w \in Worker : pc[w] = "handle" =>
            LET b == Batch(input[w]) IN delivered # <<>> /\ LastTime = Ts(b[Len(b)])
       /\ ~fatal_error /\ (\A w \in Worker : pc[w] \notin {"handle", "throw"}) =>
            last_delivered = LastTime
  /\ ChronologicalDelivery

Ordered(s) == \A i \in 1..(Len(s) - 1) : Ts(s[i]) <= Ts(s[i + 1])

\* A batch in order, not older than the end of an ordered sequence, extends it.
LEMMA OrderedConcat ==
  ASSUME NEW s \in Seq(Message), NEW b \in Seq(Message), b # <<>>,
         Ordered(s), Ordered(b), s # <<>> => Ts(s[Len(s)]) <= Ts(b[1])
  PROVE  /\ Ordered(s \o b)
         /\ s \o b # <<>>
         /\ (s \o b)[Len(s \o b)] = b[Len(b)]
<1> DEFINE t == s \o b
<1>1. /\ Len(s) \in Nat /\ Len(b) \in Nat \ {0} /\ Len(t) = Len(s) + Len(b)
      /\ s # <<>> => Len(s) > 0
      /\ t \in Seq(Message)
  BY ConcatProperties, LenProperties, EmptySeq
<1>2. \A i \in 1..(Len(s) + Len(b)) : t[i] = IF i <= Len(s) THEN s[i] ELSE b[i - Len(s)]
  BY ConcatProperties
<1>3. t[Len(t)] = b[Len(b)]
  BY <1>1, <1>2
<1>4. t # <<>>
  BY <1>1, EmptySeq
<1>5. ASSUME NEW i \in 1..(Len(t) - 1)
      PROVE  Ts(t[i]) <= Ts(t[i + 1])
  <2>1. CASE i < Len(s)
    <3>1. t[i] = s[i] /\ t[i + 1] = s[i + 1] /\ i \in 1..(Len(s) - 1)
      BY <1>1, <1>2, <2>1
    <3> QED
      BY <3>1 DEF Ordered
  <2>2. CASE i = Len(s)
    <3>1. t[i] = s[Len(s)] /\ t[i + 1] = b[1] /\ s # <<>>
      BY <1>1, <1>2, <2>2, EmptySeq
    <3> QED
      BY <3>1
  <2>3. CASE i > Len(s)
    <3>1. /\ t[i] = b[i - Len(s)]
          /\ t[i + 1] = b[(i - Len(s)) + 1]
          /\ i - Len(s) \in 1..(Len(b) - 1)
      BY <1>1, <1>2, <2>3
    <3> QED
      BY <3>1 DEF Ordered
  <2> QED
    BY <1>1, <2>1, <2>2, <2>3
<1> QED
  BY <1>3, <1>4, <1>5 DEF Ordered

\* The main thread: it hands out nothing, and starts nothing after an error.
LEMMA StrictMain ==
  ASSUME TypeInv, StrictInv, MainStep
  PROVE  StrictInv'
<1> USE DEF run, plan, disk, claims, delivery, work
<1>1. main # "join" => \A w \in Worker : pc[w] = "exited"
  BY DEF TypeInv, Control
<1>2. UNCHANGED <<options, delivered, last_delivered>>
  BY DEF MainStep, PlanChunk, EndPlan, BeginChunk, RequireSources, RecoverCaches, StartWorkers,
         JoinWorkers, Finalize
<1>3. CASE StartWorkers /\ Files # <<>>
  <2>1. /\ main' = "join" /\ ~fatal_error' /\ ~fatal_error
        /\ \A w \in Worker : pc'[w] # "exited" => w <= WorkerCount
        /\ \A w \in Worker : pc'[w] \notin {"handle", "throw"}
        /\ \A w \in Worker : pc[w] \notin {"handle", "throw"}
    BY <1>1, <1>3 DEF StartWorkers, StrictInv
  <2>2. options.strict => \A w \in Worker : w <= WorkerCount => w = 1
    BY ConstantsOK DEF WorkerCount, Worker
  <2> QED
    BY <1>2, <2>1, <2>2 DEF StrictInv, ChronologicalDelivery, LastTime
<1>4. CASE ~(StartWorkers /\ Files # <<>>)
  <2>1. UNCHANGED <<pc, input, fatal_error>>
    BY <1>4 DEF MainStep, PlanChunk, EndPlan, BeginChunk, RequireSources, RecoverCaches,
                StartWorkers, JoinWorkers, Finalize
  <2>2. fatal_error => main' \in {"join", "failed"}
    BY DEF MainStep, PlanChunk, EndPlan, BeginChunk, RequireSources, RecoverCaches,
           StartWorkers, JoinWorkers, ChunkFailed, Finalize, StrictInv
  <2> QED
    BY <1>2, <2>1, <2>2 DEF StrictInv, ChronologicalDelivery, LastTime, Batch, BatchLength
<1> QED
  BY <1>3, <1>4

\* The one parser thread: only a batch that continues the delivery reaches the
\* processor.
LEMMA StrictWorker ==
  ASSUME TypeInv, StrictInv, NEW w \in Worker, WorkerStep(w)
  PROVE  StrictInv'
<1> USE DEF run, plan, disk, claims, delivery
<1>1. pc \in [Worker -> WorkerLabel] /\ input \in [Worker -> Input] /\ input[w] \in Input
  BY DEF TypeInv, TypeOK
<1>2. /\ UNCHANGED <<options, main>>
      /\ main = "join"
      /\ pc[w] # "exited"
  BY DEF WorkerStep, TypeInv, Control, ClaimFile, OpenInput, EnterHandler, RejectBatch,
         LeaveHandler, HandlerThrows, EndTraversal, RecordFile, StoreError
<1>3. fatal_error' => main' \in {"join", "failed"}
  BY <1>2
<1>4. CASE ~options.strict
  BY <1>2, <1>3, <1>4 DEF StrictInv, ChronologicalDelivery
<1>5. CASE options.strict
  <2>1. w = 1 /\ ~fatal_error /\ \A v \in Worker : v # w => pc[v] = "exited"
    BY <1>2, <1>5 DEF StrictInv
  <2>2. ChronologicalDelivery /\ Ordered(delivered)
    BY SMTT(30), <1>5 DEF StrictInv, ChronologicalDelivery, Ordered
  <2>3. CASE EnterHandler(w)
    <3> DEFINE b == Batch(input[w])
    <3>1. BatchReady(input[w]) /\ InOrder(b) /\ pc[w] = "read"
      BY <1>5, <2>3 DEF EnterHandler
    <3>2. b \in Seq(Message) /\ b # <<>> /\ delivered \in Seq(Message)
      BY <1>1, <3>1, BatchType, EmptySeq DEF TypeInv, TypeOK
    <3>3. last_delivered = LastTime
      BY <1>5, <2>1, <3>1 DEF StrictInv
    <3>4. delivered # <<>> => Ts(delivered[Len(delivered)]) <= Ts(b[1])
      <4>1. SUFFICES ASSUME delivered # <<>>
                     PROVE  Ts(delivered[Len(delivered)]) <= Ts(b[1])
        OBVIOUS
      <4>2. Len(delivered) \in 1..Len(delivered)
        BY <3>2, <4>1, EmptySeq
      <4>3. Ts(delivered[Len(delivered)]) \in Nat
        BY <3>2, <4>2, ElementOfSeq, MessageType
      <4>4. last_delivered # NoTime /\ last_delivered = Ts(delivered[Len(delivered)])
        BY <3>3, <4>1, <4>3 DEF LastTime, NoTime
      <4> QED
        BY <3>1, <4>4 DEF InOrder
    <3>5. delivered' = delivered \o b
      BY <2>3 DEF EnterHandler
    <3>6. /\ Ordered(delivered)' /\ delivered' # <<>>
          /\ Ts(delivered'[Len(delivered')]) = Ts(b[Len(b)])
      BY <2>2, <3>1, <3>2, <3>4, <3>5, OrderedConcat DEF InOrder, Ordered
    <3>7. /\ pc'[w] = "handle" /\ \A v \in Worker : v # w => pc'[v] = "exited"
          /\ UNCHANGED <<input, fatal_error>>
      BY <1>1, <2>1, <2>3 DEF EnterHandler, Goto
    <3>8. LastTime' = Ts(b[Len(b)])
      BY <3>6 DEF LastTime
    <3> QED
      BY <1>2, <1>3, <1>5, <2>1, <3>6, <3>7, <3>8
      DEF StrictInv, ChronologicalDelivery, Ordered, Batch, BatchLength
  <2>4. CASE LeaveHandler(w)
    <3>1. last_delivered' = LastTime
      BY <1>5, <2>4 DEF LeaveHandler, StrictInv
    <3>2. /\ pc'[w] = "read" /\ \A v \in Worker : v # w => pc'[v] = "exited"
          /\ UNCHANGED <<delivered, fatal_error>>
      BY <1>1, <2>1, <2>4 DEF LeaveHandler, Goto
    <3> QED
      BY <1>2, <1>3, <1>5, <2>1, <2>2, <3>1, <3>2 DEF StrictInv, ChronologicalDelivery, LastTime
  <2>5. CASE HandlerThrows(w) \/ RejectBatch(w)
    <3>1. /\ pc'[w] = "throw" /\ \A v \in Worker : v # w => pc'[v] = "exited"
          /\ UNCHANGED <<delivered, fatal_error>>
      BY <1>1, <2>1, <2>5 DEF HandlerThrows, RejectBatch, Goto
    <3> QED
      BY <1>2, <1>3, <1>5, <2>1, <2>2, <3>1 DEF StrictInv, ChronologicalDelivery
  <2>6. CASE ClaimFile(w) \/ OpenInput(w) \/ EndTraversal(w) \/ RecordFile(w)
    <3>1. /\ pc[w] \notin {"handle", "throw"} /\ pc'[w] # "handle"
          /\ \A v \in Worker : v # w => pc'[v] = "exited"
          /\ UNCHANGED <<delivered, last_delivered, fatal_error>>
      BY <1>1, <2>1, <2>6 DEF ClaimFile, OpenInput, EndTraversal, RecordFile, Goto
    <3>2. last_delivered = LastTime
      BY <1>5, <2>1, <3>1 DEF StrictInv
    <3> QED
      BY <1>2, <1>3, <1>5, <2>1, <2>2, <3>1, <3>2 DEF StrictInv, ChronologicalDelivery, LastTime
  <2>7. CASE StoreError(w)
    <3>1. /\ fatal_error' /\ \A v \in Worker : pc'[v] = "exited"
          /\ UNCHANGED delivered
      BY <1>1, <2>1, <2>7 DEF StoreError, Goto
    <3> QED
      BY <1>2, <1>3, <1>5, <2>2, <3>1 DEF StrictInv, ChronologicalDelivery
  <2> QED
    BY <2>3, <2>4, <2>5, <2>6, <2>7 DEF WorkerStep
<1> QED
  BY <1>4, <1>5, ConstantsOK DEF TypeInv, TypeOK, Option

LEMMA StrictStep == TypeInv /\ StrictInv /\ [Next]_vars => StrictInv'
<1> SUFFICES ASSUME TypeInv, StrictInv, [Next]_vars PROVE StrictInv'
  OBVIOUS
<1>1. CASE MainStep
  BY <1>1, StrictMain
<1>2. CASE \E w \in Worker : WorkerStep(w)
  BY <1>2, StrictWorker
<1>3. CASE UNCHANGED vars
  BY <1>3 DEF StrictInv, ChronologicalDelivery, LastTime, Batch, BatchLength, vars, run, work,
              delivery
<1> QED
  BY <1>1, <1>2, <1>3 DEF Next, Stopped

LEMMA StrictInit == Init => StrictInv
<1> SUFFICES ASSUME Init PROVE StrictInv
  OBVIOUS
<1>1. delivered = <<>> /\ Len(delivered) = 0
  BY EmptySeq DEF Init
<1> QED
  BY <1>1 DEF Init, StrictInv, ChronologicalDelivery, LastTime

THEOREM StrictInvariant == Spec => []StrictInv
<1> QED
  BY StrictInit, StrictStep, TypeInvariant, PTL DEF Spec

\* Whatever the plan, the files and the batches, a processor that asked for strict
\* order sees times that never go back.
THEOREM DeliveryIsChronological == Spec => []ChronologicalDelivery
<1>1. StrictInv => ChronologicalDelivery
  BY DEF StrictInv
<1> QED
  BY <1>1, StrictInvariant, PTL

\* Under strict order, no message follows an error.
THEOREM StrictFailureHolds == Spec => StrictFailureIsFinal
<1>1. StrictInv /\ TypeInv /\ [Next]_vars =>
        [options.strict /\ (fatal_error \/ \E w \in Worker : pc[w] = "throw")
           => delivered' = delivered]_vars
  <2> SUFFICES ASSUME StrictInv, TypeInv, [Next]_vars, options.strict,
                      fatal_error \/ \E w \in Worker : pc[w] = "throw"
               PROVE  delivered' = delivered
    OBVIOUS
  <2> USE DEF run, plan, disk, claims, delivery, work
  <2>1. \A w \in Worker : pc[w] # "read"
    BY DEF StrictInv
  <2>2. CASE MainStep
    BY <2>2 DEF MainStep, PlanChunk, EndPlan, BeginChunk, RequireSources, RecoverCaches,
                StartWorkers, JoinWorkers, Finalize
  <2>3. ASSUME NEW w \in Worker, WorkerStep(w)
        PROVE  delivered' = delivered
    BY <2>1, <2>3 DEF WorkerStep, ClaimFile, OpenInput, EnterHandler, RejectBatch, LeaveHandler,
                      HandlerThrows, EndTraversal, RecordFile, StoreError
  <2>4. CASE UNCHANGED vars
    BY <2>4 DEF vars
  <2> QED
    BY <2>2, <2>3, <2>4 DEF Next, Stopped
<1> QED
  BY <1>1, StrictInvariant, TypeInvariant, PTL DEF Spec, StrictFailureIsFinal

-----------------------------------------------------------------------------
(* Recovery.                                                               *)

\* From the end of the recovery to the last thread of the chunk, every cache the
\* threads may open is valid.
Recovered == \A f \in RangeOf(Files) : f \in forced \/ cache[f] = "valid"
RecoveryInv == options.recover /\ main \in {"start", "join"} => Recovered

LEMMA RecoveryMain ==
  ASSUME TypeInv, RecoveryInv, MainStep
  PROVE  RecoveryInv'
<1> USE DEF run, plan, disk, claims, delivery, work
<1>1. CASE RecoverCaches
  <2> DEFINE unavailable == {f \in RangeOf(Files) : Unavailable(f)}
             rebuilt == {f \in unavailable : source[f] = "ok"}
  <2>1. /\ RangeOf(Files) \subseteq File
        /\ cache \in [File -> CacheState]
        /\ UNCHANGED <<options, planned, chunk>>
    BY <1>1, FilesType DEF RecoverCaches, TypeInv, TypeOK, Control
  <2>2. SUFFICES ASSUME main' = "start", NEW f \in RangeOf(Files)
                 PROVE  f \in forced' \/ cache'[f] = "valid"
    BY <1>1, <2>1 DEF RecoveryInv, Recovered, RangeOf, Files, RecoverCaches
  <2>3. CASE f \notin unavailable
    BY <1>1, <2>1, <2>2, <2>3 DEF RecoverCaches, Unavailable
  <2>4. CASE f \in unavailable /\ forced' = unavailable
    BY <2>4
  <2>5. CASE f \in unavailable /\ ~(forced' = unavailable)
    <3>1. /\ cache' = [g \in File |-> IF g \in rebuilt THEN "valid" ELSE cache[g]]
          /\ rebuilt = unavailable
      BY <1>1, <2>2, <2>5 DEF RecoverCaches
    <3> QED
      BY <2>1, <2>2, <2>5, <3>1
  <2> QED
    BY <2>3, <2>4, <2>5
<1>2. CASE StartWorkers
  BY <1>2 DEF StartWorkers, RecoveryInv, Recovered, RangeOf, Files
<1>3. CASE RequireSources
  BY <1>3 DEF RequireSources, RecoveryInv
<1>4. CASE PlanChunk \/ EndPlan \/ BeginChunk \/ JoinWorkers \/ Finalize
  <2>1. main' \notin {"start", "join"}
    BY <1>4 DEF PlanChunk, EndPlan, BeginChunk, JoinWorkers, Finalize
  <2> QED
    BY <2>1 DEF RecoveryInv
<1> QED
  BY <1>1, <1>2, <1>3, <1>4 DEF MainStep

LEMMA RecoveryStep == TypeInv /\ RecoveryInv /\ [Next]_vars => RecoveryInv'
<1> SUFFICES ASSUME TypeInv, RecoveryInv, [Next]_vars PROVE RecoveryInv'
  OBVIOUS
<1> USE DEF run, plan, disk, claims, delivery, work
<1>1. CASE MainStep
  BY <1>1, RecoveryMain
<1>2. ASSUME NEW w \in Worker, WorkerStep(w)
      PROVE  RecoveryInv'
  <2>1. UNCHANGED <<options, main, planned, chunk, forced>>
    BY <1>2 DEF WorkerStep, ClaimFile, OpenInput, EnterHandler, RejectBatch, LeaveHandler,
                HandlerThrows, EndTraversal, RecordFile, StoreError
  <2>2. \A f \in File : cache[f] = "valid" => cache'[f] = "valid"
    BY <1>2 DEF TypeInv, TypeOK, WorkerStep, ClaimFile, OpenInput, EnterHandler, RejectBatch,
                LeaveHandler, HandlerThrows, EndTraversal, RecordFile, StoreError
  <2>3. main \in {"start", "join"} => RangeOf(Files) \subseteq File
    BY FilesType DEF TypeInv, Control
  <2> QED
    BY <2>1, <2>2, <2>3 DEF RecoveryInv, Recovered, RangeOf, Files
<1>3. CASE UNCHANGED vars
  BY <1>3 DEF RecoveryInv, Recovered, RangeOf, Files, vars
<1> QED
  BY <1>1, <1>2, <1>3 DEF Next, Stopped

\* With recovery, whatever caches are missing, stale or damaged and whichever of
\* them can be rebuilt, no thread runs beside a cache it may open and reject.
THEOREM RecoveryPrecedesDelivery == Spec => []RecoveredBeforeDelivery
<1>1. Init => RecoveryInv
  BY DEF Init, RecoveryInv
<1>2. RecoveryInv => RecoveredBeforeDelivery
  BY DEF RecoveryInv, Recovered, RecoveredBeforeDelivery
<1> QED
  BY <1>1, <1>2, RecoveryStep, TypeInvariant, PTL DEF Spec

-----------------------------------------------------------------------------
(* The shared index.                                                       *)

\* Threads hold different files below the shared index; a thread that ends without an error
\* has seen the end of the list.
ClaimInv ==
  /\ main = "join" => Files # <<>>
  /\ \A w \in Worker : pc[w] \in HoldsFile => file[w] < next_file_index
  /\ \A v, w \in Worker : pc[v] \in HoldsFile /\ pc[w] \in HoldsFile /\ v # w => file[v] # file[w]
  /\ main = "join" /\ ~fatal_error =>
       \A w \in Worker : w <= WorkerCount /\ pc[w] = "exited" => next_file_index > Len(Files)

LEMMA ClaimMain ==
  ASSUME TypeInv, ClaimInv, MainStep
  PROVE  ClaimInv'
<1> USE DEF run, plan, disk, claims, delivery, work
<1>1. main # "join" => \A w \in Worker : pc[w] = "exited"
  BY DEF TypeInv, Control
<1>2. CASE StartWorkers /\ Files # <<>>
  <2>1. /\ \A w \in Worker : pc'[w] \notin HoldsFile
        /\ \A w \in Worker : w <= WorkerCount => pc'[w] # "exited"
        /\ UNCHANGED <<options, planned, chunk>>
    BY <1>2 DEF StartWorkers, HoldsFile
  <2> QED
    BY <1>2, <2>1 DEF ClaimInv, Files, WorkerCount
<1>3. CASE ~(StartWorkers /\ Files # <<>>)
  <2>1. main' # "join" /\ UNCHANGED <<pc, next_file_index, file>>
    BY <1>3 DEF MainStep, PlanChunk, EndPlan, BeginChunk, RequireSources, RecoverCaches,
                StartWorkers, JoinWorkers, Finalize
  <2> QED
    BY <2>1 DEF ClaimInv
<1> QED
  BY <1>2, <1>3

LEMMA ClaimWorker ==
  ASSUME TypeInv, ClaimInv, NEW w \in Worker, WorkerStep(w)
  PROVE  ClaimInv'
<1> USE DEF run, plan, disk, claims, delivery
<1>1. pc \in [Worker -> WorkerLabel] /\ file \in [Worker -> Nat] /\ next_file_index \in Nat \ {0}
  BY DEF TypeInv, TypeOK
<1>2. /\ UNCHANGED <<options, main, planned, chunk>> /\ pc[w] # "exited" /\ main = "join"
  BY DEF WorkerStep, TypeInv, Control, ClaimFile, OpenInput, EnterHandler, RejectBatch,
         LeaveHandler, HandlerThrows, EndTraversal, RecordFile, StoreError
<1>3. Files' = Files /\ WorkerCount' = WorkerCount
  BY <1>2 DEF Files, WorkerCount
<1>4. CASE ClaimFile(w) /\ next_file_index > Len(Files)
  <2>1. /\ next_file_index' = next_file_index + 1 /\ UNCHANGED <<file, fatal_error>>
        /\ pc' = [pc EXCEPT ![w] = "exited"]
    BY <1>4 DEF ClaimFile, Goto
  <2>2. \A v \in Worker : pc'[v] \in HoldsFile => pc[v] \in HoldsFile
    BY <1>1, <2>1 DEF HoldsFile
  <2>3. Len(Files) \in Nat
    BY <1>2, FilesType DEF TypeInv, Control
  <2> QED
    BY <1>1, <1>2, <1>3, <1>4, <2>1, <2>2, <2>3 DEF ClaimInv
<1>5. CASE ClaimFile(w) /\ ~(next_file_index > Len(Files))
  <2>1. /\ next_file_index' = next_file_index + 1 /\ file' = [file EXCEPT ![w] = next_file_index]
        /\ pc' = [pc EXCEPT ![w] = "open"] /\ UNCHANGED fatal_error
    BY <1>5 DEF ClaimFile, Goto
  <2>2. /\ file'[w] = next_file_index /\ pc'[w] = "open"
        /\ \A v \in Worker \ {w} : file'[v] = file[v] /\ pc'[v] = pc[v]
    BY <1>1, <2>1
  <2>3. \A v \in Worker : pc'[v] \in HoldsFile => file'[v] < next_file_index'
    BY <1>1, <2>1, <2>2 DEF ClaimInv
  <2>4. \A u, v \in Worker : pc'[u] \in HoldsFile /\ pc'[v] \in HoldsFile /\ u # v => file'[u] # file'[v]
    BY <1>1, <2>2 DEF ClaimInv
  <2>5. \A v \in Worker : v <= WorkerCount /\ pc'[v] = "exited" =>
          pc[v] = "exited" /\ next_file_index' > next_file_index
    BY <1>1, <2>1, <2>2
  <2>6. ~fatal_error => \A v \in Worker : ~(v <= WorkerCount /\ pc'[v] = "exited")
    BY <1>2, <1>5, <2>5 DEF ClaimInv
  <2> QED
    BY <1>2, <1>3, <2>1, <2>3, <2>4, <2>6 DEF ClaimInv
<1>6. CASE ~ClaimFile(w)
  <2>1. /\ UNCHANGED <<next_file_index, file>> /\ (fatal_error => fatal_error')
        /\ pc[w] \in HoldsFile
        /\ \E label : Goto(w, label) /\ (label = "exited" => fatal_error')
    <3>1. CASE OpenInput(w)
      <4>1. UNCHANGED <<next_file_index, file, fatal_error>> /\ pc[w] \in HoldsFile
        BY <3>1 DEF OpenInput, HoldsFile
      <4>2. Goto(w, "read") \/ Goto(w, "throw")
        BY <3>1 DEF OpenInput
      <4> QED
        BY <4>1, <4>2
    <3>2. CASE EnterHandler(w) \/ RejectBatch(w) \/ LeaveHandler(w) \/ HandlerThrows(w)
      BY <3>2 DEF EnterHandler, RejectBatch, LeaveHandler, HandlerThrows, HoldsFile
    <3>3. CASE EndTraversal(w)
      BY <3>3 DEF EndTraversal, HoldsFile
    <3>4. CASE RecordFile(w)
      BY <3>4 DEF RecordFile, HoldsFile
    <3>5. CASE StoreError(w)
      BY <3>5 DEF StoreError, HoldsFile
    <3> QED
      BY <1>6, <3>1, <3>2, <3>3, <3>4, <3>5 DEF WorkerStep
  <2>5. PICK label : Goto(w, label) /\ (label = "exited" => fatal_error')
    BY <2>1
  <2>6. pc'[w] = label /\ \A v \in Worker \ {w} : pc'[v] = pc[v]
    BY <1>1, <2>5 DEF Goto
  <2>2. \A v \in Worker : pc'[v] \in HoldsFile => pc[v] \in HoldsFile
    BY <2>1, <2>6
  <2>3. ~fatal_error' => ~fatal_error /\ \A v \in Worker : pc'[v] = "exited" => pc[v] = "exited"
    BY <2>1, <2>5, <2>6
  <2> QED
    BY <1>2, <1>3, <2>1, <2>2, <2>3 DEF ClaimInv
<1> QED
  BY <1>4, <1>5, <1>6

LEMMA ClaimStep == TypeInv /\ ClaimInv /\ [Next]_vars => ClaimInv'
<1> SUFFICES ASSUME TypeInv, ClaimInv, [Next]_vars PROVE ClaimInv'
  OBVIOUS
<1>1. CASE UNCHANGED vars
  BY <1>1 DEF ClaimInv, Files, WorkerCount, vars, run, plan, work, claims
<1> QED
  BY <1>1, ClaimMain, ClaimWorker DEF Next, Stopped

THEOREM ClaimInvariant == Spec => []ClaimInv
<1>1. Init => ClaimInv
  BY DEF Init, ClaimInv, HoldsFile
<1> QED
  BY <1>1, ClaimStep, TypeInvariant, PTL DEF Spec

\* When the threads have been joined and none has failed, every file was claimed.
LEMMA AllClaimed ==
  ASSUME TypeInv, ClaimInv, main = "join", ~fatal_error, AllJoined
  PROVE  next_file_index > Len(Files) /\ Len(Files) \in Nat
<1>1. chunk \in 1..Len(planned) /\ Files # <<>>
  BY DEF TypeInv, Control, ClaimInv
<1>2. Files \in Seq(File) /\ Len(Files) \in Nat \ {0}
  BY <1>1, FilesType, EmptySeq DEF TypeInv
<1>3. 1 \in Worker /\ 1 <= WorkerCount
  BY <1>2, ConstantsOK DEF Worker, WorkerCount
<1> QED
  BY <1>2, <1>3 DEF ClaimInv, AllJoined

-----------------------------------------------------------------------------
(* Damaged caches.                                                         *)

\* A cache that a run without recovery may have used, or left alone.
Harmless(f) == cache[f] \in {"absent", "valid"}

\* Without recovery nothing is bypassed; the caches of the chunks that are done are harmless, and
\* so are those of this chunk's files, but for the ones that threads hold; a traversal that is going
\* to end well reads a harmless cache or none.
DamageInv ==
  ~options.recover =>
    /\ forced = {} /\ main # "inspect"
    /\ main = "plan" => chunk = 0
    /\ \A c \in 1..(chunk - 1) : \A f \in RangeOf(planned[c]) : Harmless(f)
    /\ main = "done" => chunk > Len(planned)
    /\ \A w \in Worker :
         (pc[w] \in {"read", "handle"} /\ input[w].ok) \/ pc[w] = "record" => Harmless(CurrentFile(w))
    /\ main = "join" /\ ~fatal_error =>
         \A i \in 1..Len(Files) : i < next_file_index =>
           Harmless(Files[i]) \/ \E w \in Worker : file[w] = i /\ pc[w] \in HoldsFile


LEMMA DamageMain ==
  ASSUME TypeInv, ClaimInv, DamageInv, MainStep
  PROVE  DamageInv'
<1> USE DEF run, plan, disk, claims, delivery, work
<1>1. UNCHANGED options
  BY DEF MainStep, PlanChunk, EndPlan, BeginChunk, RequireSources, RecoverCaches, StartWorkers,
         JoinWorkers, Finalize
<1>2. SUFFICES ASSUME ~options.recover PROVE DamageInv'
  BY <1>1 DEF DamageInv
<1>3. /\ chunk \in Nat /\ Len(planned) \in Nat
      /\ main \in {"require", "inspect", "start", "join"} => chunk \in 1..Len(planned)
      /\ main # "join" => \A w \in Worker : pc[w] = "exited"
  BY LenProperties DEF TypeInv, TypeOK, Control
<1>4. CASE PlanChunk
  <2>1. chunk' = 0 /\ main' \in {"plan", "failed"} /\ UNCHANGED <<forced, pc>>
    BY <1>2, <1>4 DEF PlanChunk, DamageInv
  <2> QED
    BY <1>2, <1>3, <1>4, <2>1 DEF DamageInv, PlanChunk
<1>5. CASE EndPlan
  <2>1. chunk' = 1 /\ main' = "chunk" /\ UNCHANGED <<forced, pc>>
    BY <1>5 DEF EndPlan
  <2> QED
    BY <1>2, <1>3, <1>5, <2>1 DEF DamageInv, EndPlan
<1>6. CASE BeginChunk \/ RequireSources
  <2>1. /\ UNCHANGED <<forced, pc, chunk, planned, cache>>
        /\ main' \in {"require", "start", "failed"} /\ main \notin {"join", "plan"}
    BY <1>2, <1>6 DEF BeginChunk, RequireSources
  <2> QED
    BY <1>2, <1>3, <2>1 DEF DamageInv, Harmless
<1>7. CASE RecoverCaches
  BY <1>2, <1>7 DEF RecoverCaches, DamageInv
<1>8. CASE StartWorkers /\ Files = <<>>
  <2>1. /\ UNCHANGED <<forced, pc, planned, cache>> /\ chunk' = chunk + 1 /\ main' = "chunk"
        /\ main = "start"
    BY <1>8 DEF StartWorkers
  <2>2. RangeOf(planned[chunk]) = {}
    BY <1>8, EmptySeq DEF Files, RangeOf
  <2>3. \A c \in 1..(chunk' - 1) : c \in 1..(chunk - 1) \/ c = chunk
    BY <1>3, <2>1
  <2>4. \A c \in 1..(chunk' - 1) : \A f \in RangeOf(planned[c]) : Harmless(f)
    BY <1>2, <2>2, <2>3 DEF DamageInv
  <2> QED
    BY <1>2, <1>3, <2>1, <2>4 DEF DamageInv, Harmless
<1>9. CASE StartWorkers /\ Files # <<>>
  <2>1. /\ UNCHANGED <<forced, chunk, planned, cache>> /\ main' = "join" /\ next_file_index' = 1
        /\ \A w \in Worker : pc'[w] \in {"claim", "exited"}
    BY <1>9 DEF StartWorkers, FirstFile
  <2>2. \A i \in 1..Len(Files)' : ~(i < next_file_index')
    BY <2>1
  <2> QED
    BY <1>2, <1>3, <2>1, <2>2 DEF DamageInv, Harmless
<1>10. CASE JoinWorkers /\ fatal_error
  <2>1. UNCHANGED <<forced, chunk, planned, cache, pc>> /\ main' = "failed"
    BY <1>10 DEF JoinWorkers, ChunkFailed
  <2> QED
    BY <1>2, <1>10, <2>1 DEF DamageInv, Harmless, JoinWorkers, AllJoined
<1>11. CASE JoinWorkers /\ ~fatal_error
  <2>1. /\ UNCHANGED <<planned, cache, pc>> /\ main' = "chunk" /\ forced' = {}
        /\ chunk' = chunk + 1 /\ main = "join" /\ AllJoined
    BY <1>11 DEF JoinWorkers, ChunkFailed
  <2>2. next_file_index > Len(Files) /\ Len(Files) \in Nat
    BY <1>11, <2>1, AllClaimed
  <2>3. \A i \in 1..Len(Files) : Harmless(Files[i])
    <3>1. next_file_index \in Nat /\ \A w \in Worker : pc[w] \notin HoldsFile
      BY <2>1 DEF TypeInv, TypeOK, AllJoined, HoldsFile
    <3>2. \A i \in 1..Len(Files) : i < next_file_index
      BY <2>2, <3>1
    <3> QED
      BY <1>2, <1>11, <2>1, <3>1, <3>2 DEF DamageInv
  <2>4. \A f \in RangeOf(planned[chunk]) : Harmless(f)
    <3>1. Files \in Seq(File)
      BY <1>3, <2>1, FilesType DEF TypeInv
    <3>2. DOMAIN Files = 1..Len(Files)
      BY <3>1, LenProperties
    <3> QED
      BY <2>3, <3>2 DEF RangeOf, Files
  <2>5. \A c \in 1..(chunk' - 1) : c \in 1..(chunk - 1) \/ c = chunk
    BY <1>3, <2>1
  <2>6. \A c \in 1..(chunk' - 1) : \A f \in RangeOf(planned[c]) : Harmless(f)
    BY <1>2, <2>4, <2>5 DEF DamageInv
  <2> QED
    BY <1>2, <2>1, <2>6 DEF DamageInv, Harmless, AllJoined
<1>12. CASE Finalize
  <2>1. /\ UNCHANGED <<forced, pc, chunk, planned, cache>> /\ main = "chunk"
        /\ main' \in {"done", "failed"} /\ chunk > Len(planned)
    BY <1>12 DEF Finalize
  <2> QED
    BY <1>2, <1>3, <2>1 DEF DamageInv, Harmless
<1> QED
  BY <1>4, <1>5, <1>6, <1>7, <1>8, <1>9, <1>10, <1>11, <1>12 DEF MainStep

\* What a thread opens without recovery ends well only over a cache that is then valid, or, with no
\* cache at all, over the MRT file.
LEMMA OpenedHarmlessly ==
  ASSUME TypeInv, NEW w \in Worker, OpenInput(w), forced = {}, CurrentFile(w) \in File
  PROVE  /\ pc'[w] \in {"read", "throw"}
         /\ pc'[w] = "read" /\ input'[w].ok => Harmless(CurrentFile(w))'
<1> DEFINE f == CurrentFile(w)
<1>1. /\ UNCHANGED <<planned, chunk, file>> /\ pc \in [Worker -> WorkerLabel]
      /\ input \in [Worker -> Input] /\ cache \in [File -> CacheState]
  BY DEF OpenInput, run, plan, claims, TypeInv, TypeOK
<1>2. CurrentFile(w)' = f
  BY <1>1 DEF CurrentFile, Files
<1>3. CASE f \notin forced /\ cache[f] # "absent"
  <2>1. Goto(w, "read") /\ UNCHANGED cache
    BY <1>3 DEF OpenInput
  <2>2. \E i \in CacheInputs(chunk, f) : input' = [input EXCEPT ![w] = i]
    BY <1>3 DEF OpenInput
  <2>3. PICK i \in CacheInputs(chunk, f) : input' = [input EXCEPT ![w] = i]
    BY <2>2
  <2>4. i.ok => cache[f] = "valid"
    BY <2>3 DEF CacheInputs, Reading
  <2> QED
    BY <1>1, <1>2, <2>1, <2>3, <2>4 DEF Goto, Harmless
<1>4. CASE f \notin forced /\ cache[f] = "absent"
  <2>1. UNCHANGED cache \/ cache' = [cache EXCEPT ![f] = "valid"]
    BY <1>4 DEF OpenInput
  <2>2. Goto(w, "read") \/ Goto(w, "throw")
    BY <1>4 DEF OpenInput
  <2>3. cache'[f] \in {"absent", "valid"}
    BY <1>1, <1>4, <2>1
  <2> QED
    BY <1>1, <1>2, <2>2, <2>3 DEF Goto, Harmless
<1> QED
  BY <1>3, <1>4


LEMMA DamageWorker ==
  ASSUME TypeInv, ClaimInv, DamageInv, NEW w \in Worker, WorkerStep(w)
  PROVE  DamageInv'
<1> USE DEF run, plan, disk, claims, delivery
<1>1. /\ pc \in [Worker -> WorkerLabel] /\ file \in [Worker -> Nat] /\ input \in [Worker -> Input]
      /\ cache \in [File -> CacheState] /\ next_file_index \in Nat
  BY DEF TypeInv, TypeOK
<1>2. UNCHANGED <<options, main, planned, chunk, forced>> /\ pc[w] # "exited" /\ main = "join"
  BY DEF WorkerStep, TypeInv, Control, ClaimFile, OpenInput, EnterHandler, RejectBatch,
         LeaveHandler, HandlerThrows, EndTraversal, RecordFile, StoreError
<1>3. SUFFICES ASSUME ~options.recover PROVE DamageInv'
  BY <1>2 DEF DamageInv
<1>4. chunk \in 1..Len(planned) /\ Len(planned) \in Nat /\ planned \in Seq(Seq(File))
  BY <1>2, LenProperties DEF TypeInv, TypeOK, Control
<1>5. \A i \in 1..Len(Files) : Files[i] \in File
  BY <1>4, FilesType, ElementOfSeq DEF TypeInv
<1>6. \A f \in File : Harmless(f) => Harmless(f)'
  <2>1. UNCHANGED cache \/ \E g : cache' = [cache EXCEPT ![g] = "valid"]
    BY DEF WorkerStep, ClaimFile, OpenInput, EnterHandler, RejectBatch, LeaveHandler,
           HandlerThrows, EndTraversal, RecordFile, StoreError
  <2> QED
    BY <1>1, <2>1 DEF Harmless
<1>7. /\ forced' = {} /\ main' = "join"
      /\ \A c \in 1..(chunk' - 1) : \A f \in RangeOf(planned'[c]) : Harmless(f)'
  <2>1. ASSUME NEW c \in 1..(chunk - 1), NEW f \in RangeOf(planned[c])
        PROVE  Harmless(f)'
    <3>1. planned[c] \in Seq(File)
      BY <1>4, ElementOfSeq
    <3>2. f \in File
      BY <3>1, LenProperties, ElementOfSeq DEF RangeOf
    <3> QED
      BY <1>3, <1>6, <3>2 DEF DamageInv
  <2> QED
    BY <1>2, <1>3, <2>1 DEF DamageInv
<1>8. /\ \A v \in Worker : CurrentFile(v) = Files[file[v]] /\ CurrentFile(v)' = Files[file'[v]]
      /\ Files' = Files
  BY <1>2 DEF CurrentFile, Files
<1>9. ASSUME \A v \in Worker \ {w} : UNCHANGED <<pc[v], input[v], file[v]>>,
             (pc'[w] \in {"read", "handle"} /\ input'[w].ok) \/ pc'[w] = "record"
               => Harmless(CurrentFile(w))',
             ~fatal_error' =>
               \A i \in 1..Len(Files) : i < next_file_index' =>
                 Harmless(Files[i])' \/ \E v \in Worker : file'[v] = i /\ pc'[v] \in HoldsFile
      PROVE  DamageInv'
  <2>1. ASSUME NEW v \in Worker,
               (pc'[v] \in {"read", "handle"} /\ input'[v].ok) \/ pc'[v] = "record"
        PROVE  Harmless(CurrentFile(v))'
    <3>1. CASE v = w
      BY <1>9, <2>1, <3>1
    <3>2. CASE v # w
      <4>1. UNCHANGED <<pc[v], input[v], file[v]>>
        BY <1>9, <3>2
      <4>2. Harmless(CurrentFile(v))
        BY <1>3, <2>1, <4>1 DEF DamageInv
      <4>3. CurrentFile(v)' = CurrentFile(v)
        BY <1>8, <4>1
      <4>4. CurrentFile(v) \in File
        BY <1>8, <1>5, <2>1, <4>1 DEF TypeInv, Control, HoldsFile
      <4> QED
        BY <1>6, <4>2, <4>3, <4>4 DEF Harmless
    <3> QED
      BY <3>1, <3>2
  <2> QED
    BY <1>7, <1>8, <1>9, <2>1 DEF DamageInv
\* A step that keeps the claims: what was held is held, unless the thread let go of a harmless file
\* or the error is stored.
<1>10. ASSUME UNCHANGED claims, fatal_error => fatal_error',
             \A v \in Worker \ {w} : UNCHANGED <<pc[v], input[v]>>,
             (pc'[w] \in {"read", "handle"} /\ input'[w].ok) \/ pc'[w] = "record"
               => Harmless(CurrentFile(w))',
             pc'[w] \in HoldsFile \/ Harmless(CurrentFile(w)) \/ fatal_error'
      PROVE  DamageInv'
  <2>1. ASSUME ~fatal_error', NEW i \in 1..Len(Files), i < next_file_index'
        PROVE  Harmless(Files[i])' \/ \E v \in Worker : file'[v] = i /\ pc'[v] \in HoldsFile
    <3>1. Harmless(Files[i]) \/ \E v \in Worker : file[v] = i /\ pc[v] \in HoldsFile
      BY <1>2, <1>3, <1>10, <2>1 DEF DamageInv
    <3>2. Harmless(Files[i]) => Harmless(Files[i])'
      BY <1>6, <1>8, <1>5 DEF Harmless
    <3>3. CASE file[w] = i /\ pc[w] \in HoldsFile
      BY <1>8, <1>10, <2>1, <3>2, <3>3
    <3>4. ASSUME NEW v \in Worker \ {w}, file[v] = i, pc[v] \in HoldsFile
          PROVE  file'[v] = i /\ pc'[v] \in HoldsFile
      BY <1>10, <3>4
    <3> QED
      BY <3>1, <3>2, <3>3, <3>4
  <2> QED
    BY <1>8, <1>9, <1>10, <2>1
<1>11. CASE ClaimFile(w) /\ next_file_index > Len(Files)
  <2>1. /\ UNCHANGED <<file, input, fatal_error>> /\ pc' = [pc EXCEPT ![w] = "exited"]
        /\ pc[w] = "claim"
    BY <1>11 DEF ClaimFile, Goto
  <2>2. Len(Files) \in Nat
    BY <1>2, FilesType DEF TypeInv, Control
  <2>3. \A v \in Worker : pc[v] \in HoldsFile => pc'[v] \in HoldsFile
    BY <1>1, <2>1 DEF HoldsFile
  <2>4. \A i \in 1..Len(Files) : i < next_file_index
    BY <1>1, <1>11, <2>2
  <2>5. ASSUME ~fatal_error', NEW i \in 1..Len(Files)
        PROVE  Harmless(Files[i])' \/ \E v \in Worker : file'[v] = i /\ pc'[v] \in HoldsFile
    <3>1. Harmless(Files[i]) \/ \E v \in Worker : file[v] = i /\ pc[v] \in HoldsFile
      BY <1>2, <1>3, <2>1, <2>4, <2>5 DEF DamageInv
    <3>2. Harmless(Files[i]) => Harmless(Files[i])'
      BY <1>6, <1>8, <1>5 DEF Harmless
    <3> QED
      BY <2>1, <2>3, <3>1, <3>2
  <2> QED
    BY <1>1, <1>9, <2>1, <2>5
<1>12. CASE ClaimFile(w) /\ ~(next_file_index > Len(Files))
  <2>1. /\ UNCHANGED <<input, fatal_error>> /\ pc' = [pc EXCEPT ![w] = "open"] /\ pc[w] = "claim"
        /\ file' = [file EXCEPT ![w] = next_file_index] /\ next_file_index' = next_file_index + 1
    BY <1>12 DEF ClaimFile, Goto
  <2>2. /\ file'[w] = next_file_index /\ pc'[w] = "open"
        /\ \A v \in Worker \ {w} : UNCHANGED <<pc[v], input[v], file[v]>>
    BY <1>1, <2>1
  <2>3. ASSUME ~fatal_error', NEW i \in 1..Len(Files), i < next_file_index'
        PROVE  Harmless(Files[i])' \/ \E v \in Worker : file'[v] = i /\ pc'[v] \in HoldsFile
    <3>1. CASE i = next_file_index
      BY <2>2, <3>1 DEF HoldsFile
    <3>2. CASE i < next_file_index
      <4>1. Harmless(Files[i]) \/ \E v \in Worker : file[v] = i /\ pc[v] \in HoldsFile
        BY <1>2, <1>3, <2>1, <2>3, <3>2 DEF DamageInv
      <4>2. Harmless(Files[i]) => Harmless(Files[i])'
        BY <1>6, <1>8, <1>5 DEF Harmless
      <4>3. pc[w] \notin HoldsFile
        BY <2>1 DEF HoldsFile
      <4>4. ASSUME NEW v \in Worker, file[v] = i, pc[v] \in HoldsFile
            PROVE  file'[v] = i /\ pc'[v] \in HoldsFile
        BY <2>2, <4>3, <4>4
      <4> QED
        BY <4>1, <4>2, <4>4
    <3> QED
      BY <1>1, <2>1, <2>3, <3>1, <3>2
  <2> QED
    BY <1>9, <2>2, <2>3
<1>13. CASE OpenInput(w)
  <2>1. /\ UNCHANGED <<claims, fatal_error>> /\ pc[w] = "open"
        /\ \A v \in Worker \ {w} : UNCHANGED <<pc[v], input[v]>>
    BY <1>1, <1>13 DEF OpenInput, Goto
  <2>2. CurrentFile(w) \in File
    <3>1. file[w] \in 1..Len(Files) /\ Files \in Seq(File)
      BY <1>2, <2>1, FilesType DEF TypeInv, Control, HoldsFile
    <3> QED
      BY <3>1, ElementOfSeq DEF CurrentFile
  <2>3. forced = {}
    BY <1>3 DEF DamageInv
  <2>4. /\ pc'[w] \in {"read", "throw"}
        /\ pc'[w] = "read" /\ input'[w].ok => Harmless(CurrentFile(w))'
    BY <1>13, <2>2, <2>3, OpenedHarmlessly
  <2> QED
    BY <1>10, <2>1, <2>4 DEF HoldsFile
<1>14. CASE EnterHandler(w) \/ RejectBatch(w) \/ HandlerThrows(w) \/ EndTraversal(w)
  <2>1. /\ UNCHANGED <<claims, fatal_error, input, cache>> /\ pc[w] \in {"read", "handle"}
        /\ \A v \in Worker \ {w} : UNCHANGED pc[v]
        /\ pc'[w] \in {"handle", "throw"} \/ (pc'[w] = "record" /\ input[w].ok)
    BY <1>1, <1>14 DEF EnterHandler, RejectBatch, HandlerThrows, EndTraversal, Goto
  <2>2. CurrentFile(w)' = CurrentFile(w)
    BY <1>8, <2>1
  <2>3. input[w].ok => Harmless(CurrentFile(w))'
    BY <1>3, <2>1, <2>2 DEF DamageInv, Harmless
  <2> QED
    BY <1>10, <2>1, <2>3 DEF HoldsFile
<1>15. CASE LeaveHandler(w)
  <2>1. /\ UNCHANGED <<claims, fatal_error, cache>> /\ pc[w] = "handle" /\ pc'[w] = "read"
        /\ \A v \in Worker \ {w} : UNCHANGED <<pc[v], input[v]>>
    BY <1>1, <1>15 DEF LeaveHandler, Goto
  <2>2. input'[w].ok = input[w].ok
    BY <1>1, <1>15 DEF LeaveHandler, Input
  <2>3. CurrentFile(w)' = CurrentFile(w)
    BY <1>8, <2>1
  <2>4. input[w].ok => Harmless(CurrentFile(w))'
    BY <1>3, <2>1, <2>3 DEF DamageInv, Harmless
  <2> QED
    BY <1>10, <2>1, <2>2, <2>4 DEF HoldsFile
<1>16. CASE RecordFile(w)
  <2>1. /\ UNCHANGED <<claims, fatal_error, cache>> /\ pc[w] = "record" /\ pc'[w] = "claim"
        /\ \A v \in Worker \ {w} : UNCHANGED <<pc[v], input[v]>>
    BY <1>1, <1>16 DEF RecordFile, Goto
  <2>2. Harmless(CurrentFile(w))
    BY <1>3, <2>1 DEF DamageInv
  <2> QED
    BY <1>10, <2>1, <2>2
<1>17. CASE StoreError(w)
  <2>1. /\ UNCHANGED <<claims, cache>> /\ fatal_error' /\ pc'[w] = "exited"
        /\ \A v \in Worker \ {w} : UNCHANGED <<pc[v], input[v]>>
    BY <1>1, <1>17 DEF StoreError, Goto
  <2> QED
    BY <1>10, <2>1
<1> QED
  BY <1>11, <1>12, <1>13, <1>14, <1>15, <1>16, <1>17 DEF WorkerStep

LEMMA DamageStep == TypeInv /\ ClaimInv /\ DamageInv /\ [Next]_vars => DamageInv'
<1> SUFFICES ASSUME TypeInv, ClaimInv, DamageInv, [Next]_vars PROVE DamageInv'
  OBVIOUS
<1>1. CASE UNCHANGED vars
  BY <1>1 DEF DamageInv, Harmless, CurrentFile, Files, vars, run, plan, disk, work, claims
<1> QED
  BY <1>1, DamageMain, DamageWorker DEF Next, Stopped

THEOREM DamageInvariant == Spec => []DamageInv
<1>1. Init => DamageInv
  BY DEF Init, DamageInv
<1> QED
  BY <1>1, DamageStep, ClaimInvariant, TypeInvariant, PTL DEF Spec

\* Without recovery a run whose end is good met no stale or damaged cache in any file of its
\* plan, whatever the threads claimed and in whatever order they failed or ended.
THEOREM DamageEndsTheRun == Spec => []DamageIsFatal
<1>1. TypeInv /\ DamageInv => DamageIsFatal
  <2> SUFFICES ASSUME TypeInv, DamageInv, ~options.recover, main = "done",
                      NEW c \in DOMAIN planned, NEW f \in RangeOf(planned[c])
               PROVE  Harmless(f)
    BY DEF DamageIsFatal, Harmless
  <2>1. c \in 1..Len(planned) /\ Len(planned) \in Nat /\ chunk \in Nat
    BY LenProperties DEF TypeInv, TypeOK
  <2>2. chunk > Len(planned)
    BY DEF DamageInv
  <2>3. c \in 1..(chunk - 1)
    BY <2>1, <2>2
  <2> QED
    BY <2>3 DEF DamageInv
<1> QED
  BY <1>1, DamageInvariant, TypeInvariant, PTL

-----------------------------------------------------------------------------
(* The counts.                                                             *)

\* What a thread has on account: a claimed file not yet recorded or given up, and the messages of
\* that file that the processor has.
InHand == [w \in Worker |-> IF pc[w] \in HoldsFile THEN 1 ELSE 0]
HandedBy(label, i) == i.visited + IF label = "handle" THEN BatchLength(i) ELSE 0
Handed == [w \in Worker |-> HandedBy(pc[w], input[w])]
Total(g) == RunningSum(g)[ParserWorkers]

\* The files of the chunk that were claimed.
Claimed == IF next_file_index > Len(Files) THEN Len(Files) ELSE next_file_index - 1

\* An error is stored, or on its way.
Failing == fatal_error \/ \E w \in Worker : pc[w] = "throw"

\* The counts are short of what was claimed and delivered by what the threads have in hand, until a
\* thread fails; a thread without a traversal has nothing in hand.
AccountInv ==
  /\ main \in {"plan", "chunk"} => stats.chunk_count = IF main = "plan" THEN 0 ELSE chunk - 1
  /\ main \in {"require", "inspect", "start", "join"} => stats.chunk_count = chunk
  /\ main = "plan" => stats.files_used = 0
  /\ main = "chunk" => chunk <= Len(planned) + 1
  /\ main \in {"chunk", "require", "inspect", "start"} =>
       stats.files_used = FilesPlannedBefore[chunk - 1]
  /\ main \notin {"join", "failed"} => ~fatal_error
  /\ main = "join" /\ ~Failing =>
       stats.files_used + Total(InHand) = FilesPlannedBefore[chunk - 1] + Claimed
  /\ \A w \in Worker : pc[w] \in {"exited", "claim", "open"} => input[w].visited = 0
  /\ main \notin {"done", "failed"} /\ ~Failing =>
       stats.visited_messages + Total(Handed) = Len(delivered)
  /\ finalized => Over /\ stats.files_used = FilesPlannedBefore[Len(planned)]

\* The recursive count of the planned files.
LEMMA PlannedBefore ==
  /\ FilesPlannedBefore[0] = 0
  /\ \A c \in Nat \ {0} :
       FilesPlannedBefore[c] = FilesPlannedBefore[c - 1] + Len(planned[c])
<1> DEFINE g == [c \in Nat |-> Len(planned[c])]
           s == FilesPlannedBefore
<1>1. PICK t : t = [c \in Nat |-> IF c = 0 THEN 0 ELSE t[c - 1] + g[c]]
  BY RunningSumExists
<1>2. t = [c \in Nat |-> IF c = 0 THEN 0 ELSE t[c - 1] + Len(planned[c])]
  BY <1>1
<1>3. s = [c \in Nat |-> IF c = 0 THEN 0 ELSE s[c - 1] + Len(planned[c])]
  BY <1>2, Zenon DEF FilesPlannedBefore
<1> HIDE DEF s
<1>4. s[0] = 0 /\ \A c \in Nat \ {0} : s[c] = s[c - 1] + Len(planned[c])
  BY <1>3
<1> QED
  BY <1>4 DEF s

LEMMA PlannedBeforeType ==
  ASSUME TypeInv
  PROVE  \A c \in 0..Len(planned) : FilesPlannedBefore[c] \in Nat
<1> DEFINE S == {c \in Nat : c <= Len(planned) => FilesPlannedBefore[c] \in Nat}
<1>1. planned \in Seq(Seq(File)) /\ Len(planned) \in Nat
  BY LenProperties DEF TypeInv, TypeOK
<1>2. 0 \in S
  BY PlannedBefore
<1>3. ASSUME NEW c \in Nat, c \in S
      PROVE  c + 1 \in S
  <2> SUFFICES ASSUME c + 1 <= Len(planned) PROVE FilesPlannedBefore[c + 1] \in Nat
    OBVIOUS
  <2>1. c + 1 \in Nat \ {0} /\ (c + 1) - 1 = c /\ c + 1 \in 1..Len(planned)
    BY <1>1
  <2>2. Len(planned[c + 1]) \in Nat
    BY <1>1, <2>1, ElementOfSeq, LenProperties
  <2>3. FilesPlannedBefore[c] \in Nat
    BY <1>1, <1>3
  <2>4. FilesPlannedBefore[c + 1] = FilesPlannedBefore[c] + Len(planned[c + 1])
    BY <2>1, PlannedBefore
  <2> QED
    BY <2>2, <2>3, <2>4
<1> HIDE DEF S
<1>4. \A c \in Nat : c \in S
  BY <1>2, <1>3, NatSetInduction
<1> QED
  BY <1>1, <1>4 DEF S

\* The total of the threads moves with one of them.
LEMMA TotalChange ==
  ASSUME NEW g \in [Worker -> Nat], NEW h \in [Worker -> Nat], NEW w \in Worker,
         \A v \in Worker \ {w} : h[v] = g[v]
  PROVE  Total(g) \in Nat /\ Total(h) \in Nat /\ Total(h) = (Total(g) - g[w]) + h[w]
<1>1. ParserWorkers \in Nat
  BY ConstantsOK
<1>2. /\ g \in [1..ParserWorkers -> Nat] /\ h \in [1..ParserWorkers -> Nat]
      /\ w \in 1..ParserWorkers /\ \A v \in (1..ParserWorkers) \ {w} : h[v] = g[v]
  BY DEF Worker
<1> QED
  BY <1>1, <1>2, RunningSumChange DEF Total

LEMMA TotalZero ==
  ASSUME NEW g, \A w \in Worker : g[w] = 0
  PROVE  Total(g) = 0
<1> QED
  BY ConstantsOK, RunningSumZero DEF Worker, Total

LEMMA HandedType ==
  ASSUME NEW label, NEW traversal \in [Worker -> Input]
  PROVE  [w \in Worker |-> HandedBy(label[w], traversal[w])] \in [Worker -> Nat]
<1>1. \A i \in Input : BatchLength(i) \in Nat /\ i.visited \in Nat
  BY ConstantsOK, LenProperties DEF Input, BatchLength
<1>2. \A l : \A i \in Input : HandedBy(l, i) \in Nat
  BY <1>1 DEF HandedBy
<1> QED
  BY <1>2

LEMMA AccountMain ==
  ASSUME TypeInv, ClaimInv, AccountInv, MainStep
  PROVE  AccountInv'
<1> USE DEF run, plan, disk, claims, delivery, work
<1>1. /\ chunk \in Nat /\ Len(planned) \in Nat /\ stats \in RangeProcessingStats
      /\ main \in {"require", "inspect", "start", "join"} => chunk \in 1..Len(planned)
      /\ main # "join" => \A w \in Worker : pc[w] = "exited"
      /\ main = "chunk" => chunk > 0
      /\ main \in MainLabel
  BY LenProperties DEF TypeInv, TypeOK, Control
<1>2. /\ stats.chunk_count \in Nat /\ stats.files_used \in Nat /\ stats.visited_messages \in Nat
  BY <1>1 DEF RangeProcessingStats
<1>3. main \notin {"done", "failed"} /\ ~finalized
  BY DEF MainStep, PlanChunk, EndPlan, BeginChunk, RequireSources, RecoverCaches,
         StartWorkers, JoinWorkers, Finalize, AccountInv, Over
<1>4. main # "join" => Total(Handed) = 0
  <2> SUFFICES ASSUME main # "join" PROVE \A w \in Worker : Handed[w] = 0
    BY TotalZero
  <2> QED
    BY <1>1 DEF AccountInv, Handed, HandedBy
<1>5. main # "join" => ~Failing /\ stats.visited_messages = Len(delivered)
  BY <1>1, <1>2, <1>3, <1>4 DEF AccountInv, Failing
<1>6. UNCHANGED <<pc, input>> => UNCHANGED Total(Handed)
  BY DEF Handed
<1>7. UNCHANGED planned => UNCHANGED FilesPlannedBefore
  BY DEF FilesPlannedBefore
\* A step that leaves the threads alone and does not start them.
<1>8. ASSUME UNCHANGED <<pc, input, fatal_error, delivered>>, main' # "join",
             main' = "failed" \/ ~fatal_error,
             stats'.visited_messages = stats.visited_messages,
             main' \in {"plan", "chunk"} =>
               stats'.chunk_count = IF main' = "plan" THEN 0 ELSE chunk' - 1,
             main' \in {"require", "inspect", "start"} => stats'.chunk_count = chunk',
             main' = "plan" => stats'.files_used = 0,
             main' = "chunk" => chunk' <= Len(planned') + 1,
             main' \in {"chunk", "require", "inspect", "start"} =>
               stats'.files_used = FilesPlannedBefore'[chunk' - 1],
             finalized' => Over' /\ stats'.files_used = FilesPlannedBefore'[Len(planned')]
      PROVE  AccountInv'
  <2>1. \A w \in Worker : pc'[w] \in {"exited", "claim", "open"} => input'[w].visited = 0
    BY <1>8 DEF AccountInv
  <2>2. ~Failing' => stats'.visited_messages + Total(Handed)' = Len(delivered')
    BY <1>3, <1>6, <1>8 DEF AccountInv, Failing
  <2>3. main' \notin {"join", "failed"} => ~fatal_error'
    BY <1>8
  <2> QED
    BY <1>8, <2>1, <2>2, <2>3 DEF AccountInv
<1>9. CASE PlanChunk
  BY <1>3, <1>8, <1>9 DEF PlanChunk, AccountInv
<1>10. CASE EndPlan
  <2>1. stats.files_used = 0 /\ FilesPlannedBefore'[0] = 0 /\ chunk' = 1
    BY <1>7, <1>10, PlannedBefore DEF EndPlan, AccountInv
  <2> QED
    BY <1>1, <1>3, <1>8, <1>10, <2>1 DEF EndPlan, AccountInv
<1>11. CASE BeginChunk
  <2>1. /\ stats'.chunk_count = stats.chunk_count + 1
        /\ UNCHANGED <<stats.files_used, stats.visited_messages>>
    BY <1>1, <1>11 DEF BeginChunk, RangeProcessingStats
  <2> QED
    BY <1>1, <1>3, <1>7, <1>8, <1>11, <2>1 DEF BeginChunk, AccountInv
<1>12. CASE RequireSources
  BY <1>1, <1>3, <1>7, <1>8, <1>12 DEF RequireSources, AccountInv
<1>13. CASE RecoverCaches
  <2>1. UNCHANGED <<stats.chunk_count, stats.files_used, stats.visited_messages>>
    BY <1>1, <1>13 DEF RecoverCaches, RangeProcessingStats
  <2>2. main' \in {"start", "failed"} /\ main = "inspect"
    BY <1>13 DEF RecoverCaches
  <2> QED
    BY <1>1, <1>3, <1>7, <1>8, <1>13, <2>1, <2>2 DEF RecoverCaches, AccountInv
<1>14. CASE StartWorkers /\ Files = <<>>
  <2>1. /\ main = "start" /\ main' = "chunk" /\ chunk' = chunk + 1
        /\ UNCHANGED <<planned, pc, input, fatal_error, delivered, stats, finalized>>
    BY <1>14 DEF StartWorkers
  <2>2. FilesPlannedBefore[chunk] = FilesPlannedBefore[chunk - 1] + 0
    BY <1>1, <1>14, <2>1, PlannedBefore, EmptySeq DEF Files
  <2>3. FilesPlannedBefore[chunk - 1] \in Nat /\ (chunk + 1) - 1 = chunk
    BY <1>1, <2>1, PlannedBeforeType
  <2> QED
    BY <1>1, <1>3, <1>7, <1>8, <2>1, <2>2, <2>3 DEF AccountInv
<1>15. CASE StartWorkers /\ Files # <<>>
  <2>1. /\ main = "start" /\ main' = "join" /\ next_file_index' = 1 /\ ~fatal_error'
        /\ UNCHANGED <<planned, chunk, input, delivered, stats, finalized>>
        /\ \A w \in Worker : pc'[w] \in {"claim", "exited"}
    BY <1>15 DEF StartWorkers, FirstFile
  <2>2. ~Failing'
    BY <2>1 DEF Failing
  <2>3. \A w \in Worker : input'[w].visited = 0
    BY <1>1, <2>1 DEF AccountInv
  <2>4. Total(InHand)' = 0 /\ Total(Handed)' = 0
    <3>1. \A w \in Worker : InHand'[w] = 0
      BY <2>1 DEF InHand, HoldsFile
    <3>2. \A w \in Worker : Handed'[w] = 0
      BY <2>1, <2>3 DEF Handed, HandedBy
    <3> QED
      BY <3>1, <3>2, TotalZero
  <2>5. Claimed' = 0
    <3>1. Files \in Seq(File) /\ Len(Files) \in Nat \ {0}
      BY <1>1, <1>15, <2>1, FilesType, EmptySeq DEF TypeInv
    <3>2. Files' = Files
      BY <2>1 DEF Files
    <3> QED
      BY <2>1, <3>1, <3>2 DEF Claimed
  <2>6. /\ stats.files_used = FilesPlannedBefore[chunk - 1] /\ stats.chunk_count = chunk
    BY <2>1 DEF AccountInv
  <2> QED
    BY <1>2, <1>3, <1>5, <1>7, <2>1, <2>2, <2>3, <2>4, <2>5, <2>6 DEF AccountInv
<1>16. CASE JoinWorkers /\ fatal_error
  <2>1. /\ main' = "failed"
        /\ UNCHANGED <<pc, input, fatal_error, delivered, stats, finalized>>
    BY <1>16 DEF JoinWorkers, ChunkFailed
  <2> QED
    BY <1>3, <1>8, <2>1
<1>17. CASE JoinWorkers /\ ~fatal_error
  <2>1. /\ main = "join" /\ AllJoined /\ main' = "chunk" /\ chunk' = chunk + 1
        /\ UNCHANGED <<planned, pc, input, fatal_error, delivered, stats, finalized>>
    BY <1>17 DEF JoinWorkers, ChunkFailed
  <2>2. ~Failing
    BY <1>17, <2>1 DEF Failing, AllJoined
  <2>3. Total(InHand) = 0
    <3>1. \A w \in Worker : InHand[w] = 0
      BY <2>1 DEF InHand, HoldsFile, AllJoined
    <3> QED
      BY <3>1, TotalZero
  <2>4. Claimed = Len(Files) /\ Len(Files) \in Nat
    BY <1>17, <2>1, AllClaimed DEF Claimed
  <2>5. FilesPlannedBefore[chunk] = FilesPlannedBefore[chunk - 1] + Len(Files)
    BY <1>1, <2>1, PlannedBefore DEF Files
  <2>6. FilesPlannedBefore[chunk - 1] \in Nat /\ (chunk + 1) - 1 = chunk
    BY <1>1, <2>1, PlannedBeforeType
  <2>7. stats.files_used + 0 = FilesPlannedBefore[chunk - 1] + Len(Files)
    BY <2>1, <2>2, <2>3, <2>4 DEF AccountInv
  <2>8. stats.files_used = FilesPlannedBefore[chunk] /\ stats.chunk_count = chunk
    BY <1>2, <2>1, <2>5, <2>7 DEF AccountInv
  <2> QED
    BY <1>1, <1>3, <1>7, <1>8, <1>17, <2>1, <2>6, <2>8
<1>18. CASE Finalize
  <2>1. /\ main = "chunk" /\ chunk > Len(planned) /\ main' \in {"done", "failed"}
        /\ UNCHANGED <<planned, chunk, pc, input, fatal_error, delivered, stats>>
    BY <1>18 DEF Finalize
  <2>2. chunk - 1 = Len(planned)
    BY <1>1, <2>1 DEF AccountInv
  <2>3. stats.files_used = FilesPlannedBefore[Len(planned)] /\ ~fatal_error
    BY <2>1, <2>2 DEF AccountInv
  <2> QED
    BY <1>7, <1>8, <2>1, <2>3 DEF Over
<1> QED
  BY <1>9, <1>10, <1>11, <1>12, <1>13, <1>14, <1>15, <1>16, <1>17, <1>18 DEF MainStep

\* The length of a ready batch.
LEMMA BatchLengthIs ==
  ASSUME NEW i \in Input, BatchReady(i)
  PROVE  Len(Batch(i)) = BatchLength(i) /\ BatchLength(i) \in 1..Len(i.todo)
<1>1. i.todo \in Seq(Message) /\ Len(i.todo) \in Nat /\ (i.todo # <<>> => Len(i.todo) > 0)
  BY LenProperties, EmptySeq DEF Input
<1>2. BatchLength(i) \in 1..Len(i.todo)
  BY <1>1, ConstantsOK DEF BatchReady, BatchLength
<1>3. \A j \in 1..BatchLength(i) : i.todo[j] \in Message
  BY <1>1, <1>2, ElementOfSeq
<1> QED
  BY <1>1, <1>2, <1>3, SubSeqProperties DEF Batch

\* A traversal starts with nothing handed out.
LEMMA NothingVisited ==
  ASSUME NEW c, NEW f, NEW i \in ParseInputs(c, f) \cup CacheInputs(c, f)
  PROVE  i.visited = 0
<1>1. \A s, ok, realtime : Reading(s, ok, realtime).visited = 0
  BY DEF Reading
<1>2. CASE i \in ParseInputs(c, f)
  <2>1. CASE source[f] = "ok"
    BY <1>1, <1>2, <2>1 DEF ParseInputs
  <2>2. CASE source[f] # "ok"
    <3>1. PICK k \in 0..Len(Content[f]) :
            i \in {Reading(s, FALSE, TRUE) : s \in ParseStreams(c, ParsePrefix(f, k))}
      BY <1>2, <2>2 DEF ParseInputs
    <3> QED
      BY <1>1, <3>1
  <2> QED
    BY <2>1, <2>2
<1>3. CASE i \in CacheInputs(c, f)
  <2>1. CASE cache[f] = "valid"
    BY <1>1, <1>3, <2>1 DEF CacheInputs
  <2>2. CASE cache[f] = "stale"
    BY <1>1, <1>3, <2>2 DEF CacheInputs
  <2>3. CASE cache[f] \notin {"valid", "stale"}
    <3>1. PICK k \in 0..Len(Content[f]) :
            i \in {Reading(s, FALSE, FALSE) : s \in CacheStreams(c, CachePrefix(f, k))}
      BY <1>3, <2>3 DEF CacheInputs
    <3> QED
      BY <1>1, <3>1
  <2> QED
    BY <2>1, <2>2, <2>3
<1> QED
  BY <1>2, <1>3

LEMMA OpenedUnvisited ==
  ASSUME TypeInv, NEW w \in Worker, OpenInput(w)
  PROVE  \/ Goto(w, "throw")
         \/ Goto(w, "read") /\ input'[w].visited = 0
<1> DEFINE f == CurrentFile(w)
<1>1. input \in [Worker -> Input]
  BY DEF TypeInv, TypeOK
<1>7. \A i \in ParseInputs(chunk, f) \cup CacheInputs(chunk, f) : i.visited = 0
  BY NothingVisited
<1>2. ASSUME NEW S, \E i \in S : input' = [input EXCEPT ![w] = i], \A i \in S : i.visited = 0
      PROVE  input'[w].visited = 0
  BY <1>1, <1>2
<1>3. CASE f \in forced
  <2>1. Goto(w, "read") /\ \E i \in ParseInputs(chunk, f) : input' = [input EXCEPT ![w] = i]
    BY <1>3 DEF OpenInput
  <2> QED
    BY <1>2, <1>7, <2>1
<1>4. CASE f \notin forced /\ cache[f] # "absent"
  <2>1. Goto(w, "read") /\ \E i \in CacheInputs(chunk, f) : input' = [input EXCEPT ![w] = i]
    BY <1>4 DEF OpenInput
  <2> QED
    BY <1>2, <1>7, <2>1
<1>5. CASE f \notin forced /\ cache[f] = "absent" /\ options.parse_on_cache_miss /\ ~options.persist
  <2>1. Goto(w, "read") /\ \E i \in ParseInputs(chunk, f) : input' = [input EXCEPT ![w] = i]
    BY <1>5 DEF OpenInput
  <2> QED
    BY <1>2, <1>7, <2>1
<1>6. CASE f \notin forced /\ cache[f] = "absent" /\ ~(options.parse_on_cache_miss /\ ~options.persist)
  <2> DEFINE S == {Reading(s, TRUE, TRUE) : s \in CacheStreams(chunk, MessagesOf(f))}
  <2>1. \/ Goto(w, "throw")
        \/ Goto(w, "read") /\ \E i \in S : input' = [input EXCEPT ![w] = i]
    BY <1>6 DEF OpenInput
  <2>2. \A i \in S : i.visited = 0
    BY DEF Reading
  <2> QED
    BY <1>2, <2>1, <2>2
<1> QED
  BY <1>3, <1>4, <1>5, <1>6

LEMMA AccountWorker ==
  ASSUME TypeInv, AccountInv, NEW w \in Worker, WorkerStep(w)
  PROVE  AccountInv'
<1> USE DEF run, plan, disk, claims, delivery
<1>1. /\ pc \in [Worker -> WorkerLabel] /\ input \in [Worker -> Input]
      /\ stats \in RangeProcessingStats /\ stats' \in RangeProcessingStats
      /\ input' \in [Worker -> Input] /\ next_file_index \in Nat \ {0}
  BY TypeWorker DEF TypeInv, TypeOK
<1>2. /\ UNCHANGED <<options, main, planned, chunk, forced, finalized>>
      /\ pc[w] # "exited" /\ main = "join" /\ ~finalized
  BY DEF WorkerStep, TypeInv, Control, ClaimFile, OpenInput, EnterHandler, RejectBatch,
         LeaveHandler, HandlerThrows, EndTraversal, RecordFile, StoreError, AccountInv, Over
<1>3. /\ Files' = Files /\ FilesPlannedBefore' = FilesPlannedBefore
      /\ chunk \in 1..Len(planned) /\ Len(Files) \in Nat
  BY <1>2, FilesType DEF Files, FilesPlannedBefore, TypeInv, Control
<1>4. /\ FilesPlannedBefore[chunk - 1] \in Nat /\ Claimed \in Nat
      /\ stats.files_used \in Nat /\ stats.visited_messages \in Nat
      /\ stats'.files_used \in Nat /\ stats'.visited_messages \in Nat
  BY <1>1, <1>3, PlannedBeforeType DEF Claimed, RangeProcessingStats
<1>5. /\ InHand \in [Worker -> Nat] /\ InHand' \in [Worker -> Nat]
      /\ Handed \in [Worker -> Nat] /\ Handed' \in [Worker -> Nat]
  BY <1>1, HandedType DEF InHand, Handed
<1>6. Len(delivered) \in Nat /\ Len(delivered') \in Nat /\ Claimed' \in Nat
  <2>1. TypeOK /\ TypeOK'
    BY TypeWorker DEF TypeInv
  <2>2. delivered \in Seq(Message) /\ delivered' \in Seq(Message) /\ next_file_index' \in Nat \ {0}
    BY <2>1 DEF TypeOK
  <2>3. Len(delivered) \in Nat /\ Len(delivered') \in Nat
    BY <2>2, LenProperties
  <2>4. Claimed' = IF next_file_index' > Len(Files) THEN Len(Files) ELSE next_file_index' - 1
    BY <1>3 DEF Claimed
  <2>5. Claimed' \in Nat
    <3> DEFINE n == Len(Files)
               k == next_file_index'
    <3>1. n \in Nat /\ k \in Nat \ {0} /\ Claimed' = IF k > n THEN n ELSE k - 1
      BY <1>3, <2>2, <2>4
    <3> HIDE DEF n, k
    <3> QED
      BY <3>1
  <2> QED
    BY <2>3, <2>5
\* One thread's step: what leaves its hands is on the counts.
<1>7. ASSUME \A v \in Worker \ {w} : UNCHANGED <<pc[v], input[v]>>,
             Failing => Failing',
             pc'[w] \in {"exited", "claim", "open"} => input'[w].visited = 0,
             stats'.chunk_count = stats.chunk_count,
             ~Failing' => (stats'.files_used + InHand'[w]) + Claimed
                            = (stats.files_used + InHand[w]) + Claimed',
             ~Failing' => (stats'.visited_messages + Handed'[w]) + Len(delivered)
                            = (stats.visited_messages + Handed[w]) + Len(delivered')
      PROVE  AccountInv'
  <2>1. /\ Total(InHand) \in Nat /\ Total(InHand') = (Total(InHand) - InHand[w]) + InHand'[w]
        /\ Total(InHand') \in Nat
    <3>1. \A v \in Worker \ {w} : InHand'[v] = InHand[v]
      BY <1>7 DEF InHand
    <3> QED
      BY <1>5, <3>1, TotalChange
  <2>2. /\ Total(Handed) \in Nat /\ Total(Handed') = (Total(Handed) - Handed[w]) + Handed'[w]
        /\ Total(Handed') \in Nat
    <3>1. \A v \in Worker \ {w} : Handed'[v] = Handed[v]
      BY <1>7 DEF Handed
    <3> QED
      BY <1>5, <3>1, TotalChange
  <2>3. InHand[w] \in Nat /\ InHand'[w] \in Nat /\ Handed[w] \in Nat /\ Handed'[w] \in Nat
    BY <1>5
  <2>4. ~Failing' => stats'.files_used + Total(InHand') = FilesPlannedBefore[chunk - 1] + Claimed'
    <3>1. ~Failing' => stats.files_used + Total(InHand) = FilesPlannedBefore[chunk - 1] + Claimed
      BY <1>2, <1>7 DEF AccountInv
    <3> SUFFICES ASSUME ~Failing'
                 PROVE  stats'.files_used + Total(InHand') = FilesPlannedBefore[chunk - 1] + Claimed'
      OBVIOUS
    <3> DEFINE used == stats.files_used
               hand == InHand[w]
               all  == Total(InHand)
               base == FilesPlannedBefore[chunk - 1]
    <3>2. (used' + hand') + Claimed = (used + hand) + Claimed'
      BY <1>7
    <3>3. used + all = base + Claimed /\ all' = (all - hand) + hand'
      BY <1>7, <2>1, <3>1
    <3>4. /\ used \in Nat /\ used' \in Nat /\ hand \in Nat /\ hand' \in Nat
          /\ all \in Nat /\ all' \in Nat /\ base \in Nat /\ Claimed \in Nat /\ Claimed' \in Nat
      BY <1>4, <1>6, <2>1, <2>3
    <3>5. stats'.files_used = used' /\ Total(InHand') = all' /\ InHand'[w] = hand'
      OBVIOUS
    <3> HIDE DEF used, hand, all, base
    <3>6. used' + all' = base + Claimed'
      BY <3>2, <3>3, <3>4
    <3> QED
      BY <3>5, <3>6 DEF base
  <2>5. ~Failing' => stats'.visited_messages + Total(Handed') = Len(delivered')
    <3>1. ~Failing' => stats.visited_messages + Total(Handed) = Len(delivered)
      BY <1>2, <1>7 DEF AccountInv
    <3> SUFFICES ASSUME ~Failing'
                 PROVE  stats'.visited_messages + Total(Handed') = Len(delivered')
      OBVIOUS
    <3>2. (stats'.visited_messages + Handed'[w]) + Len(delivered)
            = (stats.visited_messages + Handed[w]) + Len(delivered')
      BY <1>7
    <3>3. stats.visited_messages + Total(Handed) = Len(delivered)
      BY <1>7, <3>1
    <3>4. /\ stats.visited_messages \in Nat /\ stats'.visited_messages \in Nat
          /\ Len(delivered) \in Nat /\ Len(delivered') \in Nat
      BY <1>4, <1>6
    <3>5. Handed[w] \in Nat /\ Handed'[w] \in Nat
      BY <2>3
    <3>6. Total(Handed) \in Nat /\ Total(Handed') = (Total(Handed) - Handed[w]) + Handed'[w]
      BY <2>2
    <3>8. Total(Handed') \in Nat
      BY <2>2
    <3>9. PICK own \in Nat, own1 \in Nat : own = Handed[w] /\ own1 = Handed'[w]
      BY <3>5
    <3>10. PICK all \in Nat, all1 \in Nat : all = Total(Handed) /\ all1 = Total(Handed')
      BY <3>6, <3>8
    <3>11. PICK sum \in Nat, sum1 \in Nat : sum = stats.visited_messages /\ sum1 = stats'.visited_messages
      BY <3>4
    <3>12. PICK before \in Nat, after \in Nat : before = Len(delivered) /\ after = Len(delivered')
      BY <3>4
    <3>13. all1 = (all - own) + own1
      BY <3>6, <3>9, <3>10
    <3>14. sum + all = before
      BY <3>3, <3>10, <3>11, <3>12
    <3>15. (sum1 + own1) + before = (sum + own) + after
      BY <3>2, <3>9, <3>11, <3>12
    <3>16. sum1 + all1 = after
      BY <3>13, <3>14, <3>15
    <3> QED
      BY <3>10, <3>11, <3>12, <3>16
  <2>6. \A v \in Worker : pc'[v] \in {"exited", "claim", "open"} => input'[v].visited = 0
    BY <1>7 DEF AccountInv
  <2>7. stats'.chunk_count = chunk
    BY <1>2, <1>7 DEF AccountInv
  <2> QED
    BY <1>2, <1>3, <2>4, <2>5, <2>6, <2>7 DEF AccountInv
\* A thread that goes to "throw", or stores its error, owes the counts nothing more.
<1>8. ASSUME Goto(w, "throw"), UNCHANGED stats,
             \A v \in Worker \ {w} : UNCHANGED input[v], fatal_error => fatal_error'
      PROVE  AccountInv'
  <2>1. pc'[w] = "throw" /\ \A v \in Worker \ {w} : UNCHANGED pc[v]
    BY <1>1, <1>8 DEF Goto
  <2>2. Failing'
    BY <2>1 DEF Failing
  <2> QED
    BY <1>7, <1>8, <2>1, <2>2
<1>9. CASE ClaimFile(w) /\ next_file_index > Len(Files)
  <2>1. /\ UNCHANGED <<input, stats, fatal_error, delivered>> /\ pc[w] = "claim"
        /\ pc'[w] = "exited" /\ \A v \in Worker \ {w} : UNCHANGED pc[v]
        /\ next_file_index' = next_file_index + 1
    BY <1>1, <1>9 DEF ClaimFile, Goto
  <2>2. Claimed' = Claimed
    BY <1>1, <1>3, <1>9, <2>1 DEF Claimed
  <2>3. InHand'[w] = InHand[w] /\ Handed'[w] = Handed[w] /\ input[w].visited = 0
    BY <2>1 DEF InHand, HoldsFile, Handed, HandedBy, AccountInv
  <2>4. Failing => Failing'
    BY <2>1 DEF Failing
  <2> QED
    BY <1>7, <2>1, <2>2, <2>3, <2>4
<1>10. CASE ClaimFile(w) /\ ~(next_file_index > Len(Files))
  <2>1. /\ UNCHANGED <<input, stats, fatal_error, delivered>> /\ pc[w] = "claim"
        /\ pc'[w] = "open" /\ \A v \in Worker \ {w} : UNCHANGED pc[v]
        /\ next_file_index' = next_file_index + 1
    BY <1>1, <1>10 DEF ClaimFile, Goto
  <2>2. Claimed' = Claimed + 1
    BY <1>1, <1>3, <1>10, <2>1 DEF Claimed
  <2>3. /\ InHand'[w] = 1 /\ InHand[w] = 0
        /\ Handed'[w] = Handed[w] /\ input[w].visited = 0
    BY <2>1 DEF InHand, HoldsFile, Handed, HandedBy, AccountInv
  <2>4. Failing => Failing'
    BY <2>1 DEF Failing
  <2> QED
    BY <1>4, <1>7, <2>1, <2>2, <2>3, <2>4
<1>11. CASE OpenInput(w)
  <2>1. /\ UNCHANGED <<stats, fatal_error, delivered, next_file_index>> /\ pc[w] = "open"
        /\ \A v \in Worker \ {w} : UNCHANGED input[v]
    BY <1>1, <1>11 DEF OpenInput
  <2>2. CASE Goto(w, "throw")
    BY <1>8, <2>1, <2>2
  <2>3. CASE Goto(w, "read") /\ input'[w].visited = 0
    <3>1. pc'[w] = "read" /\ \A v \in Worker \ {w} : UNCHANGED pc[v]
      BY <1>1, <2>3 DEF Goto
    <3>2. Failing => Failing'
      BY <2>1, <3>1 DEF Failing
    <3>3. InHand'[w] = InHand[w] /\ Handed'[w] = 0 /\ Handed[w] = 0
      BY <2>1, <2>3, <3>1 DEF InHand, HoldsFile, Handed, HandedBy, AccountInv
    <3>4. Claimed' = Claimed
      BY <1>3, <2>1 DEF Claimed
    <3> QED
      BY <1>7, <2>1, <3>1, <3>2, <3>3, <3>4
  <2> QED
    BY <1>11, <2>2, <2>3, OpenedUnvisited
<1>12. CASE EnterHandler(w)
  <2>1. /\ UNCHANGED <<stats, fatal_error, input, next_file_index>> /\ pc[w] = "read"
        /\ pc'[w] = "handle" /\ \A v \in Worker \ {w} : UNCHANGED pc[v]
        /\ BatchReady(input[w]) /\ delivered' = delivered \o Batch(input[w])
    BY <1>1, <1>12 DEF EnterHandler, Goto
  <2>2. /\ Len(Batch(input[w])) \in Nat /\ Len(Batch(input[w])) = BatchLength(input[w])
        /\ Len(delivered') = Len(delivered) + BatchLength(input[w])
    BY <1>1, <2>1, BatchLengthIs, BatchType, ConcatProperties DEF TypeInv, TypeOK
  <2>3. /\ InHand'[w] = InHand[w] /\ Claimed' = Claimed
        /\ Handed[w] = input[w].visited + 0 /\ Handed'[w] = input[w].visited + BatchLength(input[w])
    BY <1>3, <2>1 DEF InHand, HoldsFile, Handed, HandedBy, Claimed
  <2>4. Failing => Failing'
    BY <2>1 DEF Failing
  <2>5. input[w].visited \in Nat
    BY <1>1 DEF Input
  <2> QED
    BY <1>4, <1>6, <1>7, <2>1, <2>2, <2>3, <2>4, <2>5
<1>13. CASE RejectBatch(w) \/ HandlerThrows(w)
  <2>1. Goto(w, "throw") /\ UNCHANGED <<stats, input, fatal_error>>
    BY <1>13 DEF RejectBatch, HandlerThrows
  <2> QED
    BY <1>8, <2>1
<1>14. CASE LeaveHandler(w)
  <2> DEFINE b == Batch(input[w])
  <2>1. /\ UNCHANGED <<stats, fatal_error, delivered, next_file_index>> /\ pc[w] = "handle"
        /\ pc'[w] = "read" /\ \A v \in Worker \ {w} : UNCHANGED <<pc[v], input[v]>>
    BY <1>1, <1>14 DEF LeaveHandler, Goto
  <2>2. input'[w].visited = input[w].visited + Len(b)
    BY <1>1, <1>14 DEF LeaveHandler, Input
  <2>3. BatchReady(input[w])
    BY <2>1 DEF TypeInv, Control
  <2>4. Len(b) = BatchLength(input[w]) /\ Len(b) \in Nat
    BY <1>1, <2>3, BatchLengthIs, BatchType
  <2>5. input[w].visited \in Nat
    BY <1>1 DEF Input
  <2>6. /\ InHand'[w] = InHand[w] /\ Claimed' = Claimed
        /\ Handed'[w] = Handed[w]
    BY <1>3, <2>1, <2>2, <2>4, <2>5 DEF InHand, HoldsFile, Handed, HandedBy, Claimed
  <2>7. Failing => Failing'
    BY <2>1 DEF Failing
  <2> QED
    BY <1>7, <2>1, <2>6, <2>7
<1>15. CASE EndTraversal(w)
  <2>1. UNCHANGED <<stats, fatal_error, input, delivered, next_file_index>> /\ pc[w] = "read"
    BY <1>15 DEF EndTraversal
  <2>2. CASE Goto(w, "throw")
    BY <1>8, <2>1, <2>2
  <2>3. CASE Goto(w, "record")
    <3>1. pc'[w] = "record" /\ \A v \in Worker \ {w} : UNCHANGED pc[v]
      BY <1>1, <2>3 DEF Goto
    <3>2. Failing => Failing'
      BY <2>1, <3>1 DEF Failing
    <3>3. InHand'[w] = InHand[w] /\ Handed'[w] = Handed[w] /\ Claimed' = Claimed
      BY <1>3, <2>1, <3>1 DEF InHand, HoldsFile, Handed, HandedBy, Claimed
    <3> QED
      BY <1>7, <2>1, <3>1, <3>2, <3>3
  <2> QED
    BY <1>15, <2>2, <2>3 DEF EndTraversal
<1>16. CASE RecordFile(w)
  <2>1. /\ UNCHANGED <<fatal_error, delivered, next_file_index>> /\ pc[w] = "record"
        /\ pc'[w] = "claim" /\ \A v \in Worker \ {w} : UNCHANGED <<pc[v], input[v]>>
        /\ input'[w].visited = 0
    BY <1>1, <1>16 DEF RecordFile, Goto, NoInput
  <2>2. /\ stats'.files_used = stats.files_used + 1
        /\ stats'.visited_messages = stats.visited_messages + input[w].visited
        /\ stats'.chunk_count = stats.chunk_count
    BY <1>1, <1>16 DEF RecordFile, RangeProcessingStats
  <2>3. input[w].visited \in Nat
    BY <1>1 DEF Input
  <2>4. /\ InHand'[w] = 0 /\ InHand[w] = 1 /\ Claimed' = Claimed
        /\ Handed'[w] = 0 /\ Handed[w] = input[w].visited
    BY <1>3, <2>1, <2>3 DEF InHand, HoldsFile, Handed, HandedBy, Claimed
  <2>5. Failing => Failing'
    BY <2>1 DEF Failing
  <2> QED
    BY <1>4, <1>6, <1>7, <2>1, <2>2, <2>3, <2>4, <2>5
<1>17. CASE StoreError(w)
  <2>1. /\ fatal_error' /\ UNCHANGED stats /\ input'[w].visited = 0
        /\ \A v \in Worker \ {w} : UNCHANGED <<pc[v], input[v]>>
    BY <1>1, <1>17 DEF StoreError, Goto, NoInput
  <2> QED
    BY <1>7, <2>1 DEF Failing
<1> QED
  BY <1>9, <1>10, <1>11, <1>12, <1>13, <1>14, <1>15, <1>16, <1>17 DEF WorkerStep

LEMMA AccountStep == TypeInv /\ ClaimInv /\ AccountInv /\ [Next]_vars => AccountInv'
<1> SUFFICES ASSUME TypeInv, ClaimInv, AccountInv, [Next]_vars PROVE AccountInv'
  OBVIOUS
<1>1. CASE UNCHANGED vars
  <2>1. /\ UNCHANGED <<main, planned, chunk, finalized, next_file_index, pc, input, fatal_error>>
        /\ UNCHANGED <<delivered, stats>>
    BY <1>1 DEF vars, run, plan, work, claims, delivery
  <2>2. UNCHANGED <<InHand, Handed, Claimed, Failing, FilesPlannedBefore, Over>>
    BY <2>1 DEF InHand, Handed, Claimed, Files, Failing, FilesPlannedBefore, Over
  <2> QED
    BY <2>1, <2>2 DEF AccountInv
<1> QED
  BY <1>1, AccountMain, AccountWorker DEF Next, Stopped

LEMMA AccountInit == Init => AccountInv
<1> SUFFICES ASSUME Init PROVE AccountInv
  OBVIOUS
<1>1. /\ \A w \in Worker : pc[w] = "exited" /\ input[w].visited = 0
      /\ main = "plan" /\ ~fatal_error /\ ~finalized /\ Len(delivered) = 0
      /\ stats.chunk_count = 0 /\ stats.files_used = 0 /\ stats.visited_messages = 0
  BY EmptySeq DEF Init, NoInput
<1>2. Total(Handed) = 0
  <2>1. \A w \in Worker : Handed[w] = 0
    BY <1>1 DEF Handed, HandedBy
  <2> QED
    BY <2>1, TotalZero
<1> QED
  BY <1>1, <1>2 DEF AccountInv

THEOREM AccountInvariant == Spec => []AccountInv
<1> QED
  BY AccountInit, AccountStep, ClaimInvariant, TypeInvariant, PTL DEF Spec

\* Whenever the main thread is between two chunks, its counts are exact: no file of a done chunk was
\* left out or counted twice, and no message counted that was not delivered.
THEOREM CountsAreExact == Spec => []ChunkAccounting
<1>1. TypeInv /\ AccountInv => ChunkAccounting
  <2> SUFFICES ASSUME TypeInv, AccountInv, main = "chunk"
               PROVE  /\ stats.chunk_count = chunk - 1
                      /\ stats.files_used = FilesPlannedBefore[chunk - 1]
                      /\ stats.visited_messages = Len(delivered)
    BY DEF ChunkAccounting
  <2>1. \A w \in Worker : pc[w] = "exited"
    BY DEF TypeInv, Control
  <2>2. Total(Handed) = 0
    <3>1. \A w \in Worker : Handed[w] = 0
      BY <2>1 DEF Handed, HandedBy, AccountInv
    <3> QED
      BY <3>1, TotalZero
  <2>3. ~Failing
    BY <2>1 DEF AccountInv, Failing
  <2>4. stats.visited_messages + 0 = Len(delivered) /\ stats.visited_messages \in Nat
    BY <2>2, <2>3 DEF AccountInv, TypeInv, TypeOK, RangeProcessingStats
  <2> QED
    BY <2>4 DEF AccountInv
<1> QED
  BY <1>1, AccountInvariant, TypeInvariant, PTL

\* finalize() and the end of run() overlap no parser thread, and finalize() comes after
\* every planned file.
THEOREM TheEndIsQuiescent == Spec => []EndIsQuiescent
<1>1. TypeInv /\ AccountInv => EndIsQuiescent
  BY DEF TypeInv, Control, AccountInv, EndIsQuiescent, Over
<1> QED
  BY <1>1, AccountInvariant, TypeInvariant, PTL

-----------------------------------------------------------------------------
(* The plan.                                                               *)

\* The recursive count of the targets.
LEMMA TargetsBeforeIs ==
  /\ TargetsBefore[0] = 0
  /\ \A c \in Nat \ {0} : TargetsBefore[c] = TargetsBefore[c - 1] + Len(Targets[c])
<1> DEFINE g == [c \in Nat |-> Len(Targets[c])]
           s == TargetsBefore
<1>1. PICK t : t = [c \in Nat |-> IF c = 0 THEN 0 ELSE t[c - 1] + g[c]]
  BY RunningSumExists
<1>2. t = [c \in Nat |-> IF c = 0 THEN 0 ELSE t[c - 1] + Len(Targets[c])]
  BY <1>1
<1>3. s = [c \in Nat |-> IF c = 0 THEN 0 ELSE s[c - 1] + Len(Targets[c])]
  BY <1>2, Zenon DEF TargetsBefore
<1> HIDE DEF s
<1>4. s[0] = 0 /\ \A c \in Nat \ {0} : s[c] = s[c - 1] + Len(Targets[c])
  BY <1>3
<1> QED
  BY <1>4 DEF s

LEMMA TargetsBeforeNext ==
  ASSUME NEW c \in Nat, c < Len(Targets)
  PROVE  /\ Targets[c + 1] \in Seq(File) /\ Len(Targets[c + 1]) \in Nat
         /\ TargetsBefore[c + 1] = TargetsBefore[c] + Len(Targets[c + 1])
<1>1. Targets \in Seq(Seq(File)) /\ Len(Targets) \in Nat
  BY ConstantsOK, LenProperties
<1>2. c + 1 \in 1..Len(Targets) /\ c + 1 \in Nat \ {0} /\ (c + 1) - 1 = c
  BY <1>1
<1>3. Targets[c + 1] \in Seq(File)
  BY <1>1, <1>2, ElementOfSeq
<1> QED
  BY <1>2, <1>3, LenProperties, TargetsBeforeIs

LEMMA TargetsBeforeType ==
  \A c \in 0..Len(Targets) : TargetsBefore[c] \in Nat
<1> DEFINE S == {c \in Nat : c <= Len(Targets) => TargetsBefore[c] \in Nat}
<1>1. Len(Targets) \in Nat
  BY ConstantsOK, LenProperties
<1>2. 0 \in S
  BY TargetsBeforeIs
<1>3. ASSUME NEW c \in Nat, c \in S
      PROVE  c + 1 \in S
  <2> SUFFICES ASSUME c + 1 <= Len(Targets) PROVE TargetsBefore[c + 1] \in Nat
    OBVIOUS
  <2>1. c < Len(Targets) /\ TargetsBefore[c] \in Nat
    BY <1>1, <1>3
  <2> QED
    BY <2>1, TargetsBeforeNext
<1> HIDE DEF S
<1>4. \A c \in Nat : c \in S
  BY <1>2, <1>3, NatSetInduction
<1> QED
  BY <1>1, <1>4 DEF S

\* More chunks have no fewer targets.
LEMMA TargetsBeforeGrows ==
  ASSUME NEW b \in 0..Len(Targets), NEW c \in 0..Len(Targets), b <= c
  PROVE  TargetsBefore[b] <= TargetsBefore[c]
<1> DEFINE S == {d \in Nat : b <= d /\ d <= Len(Targets) => TargetsBefore[b] <= TargetsBefore[d]}
<1>1. Len(Targets) \in Nat /\ TargetsBefore[b] \in Nat
  BY ConstantsOK, LenProperties, TargetsBeforeType
<1>2. 0 \in S
  <2>1. b <= 0 => b = 0
    OBVIOUS
  <2> QED
    BY <1>1, <2>1
<1>3. ASSUME NEW d \in Nat, d \in S
      PROVE  d + 1 \in S
  <2> SUFFICES ASSUME b <= d + 1, d + 1 <= Len(Targets) PROVE TargetsBefore[b] <= TargetsBefore[d + 1]
    OBVIOUS
  <2>1. CASE b = d + 1
    BY <1>1, <2>1
  <2>2. CASE b <= d
    <3>1. d < Len(Targets) /\ d \in 0..Len(Targets) /\ TargetsBefore[b] <= TargetsBefore[d]
      BY <1>1, <1>3, <2>2
    <3>2. TargetsBefore[d] \in Nat
      BY <3>1, TargetsBeforeType
    <3>3. Len(Targets[d + 1]) \in Nat /\ TargetsBefore[d + 1] = TargetsBefore[d] + Len(Targets[d + 1])
      BY <3>1, TargetsBeforeNext
    <3> QED
      BY <1>1, <3>1, <3>2, <3>3
  <2> QED
    BY <1>1, <2>1, <2>2
<1> HIDE DEF S
<1>4. c \in S
  BY <1>2, <1>3, NatSetInduction
<1> QED
  BY <1>4 DEF S

\* The planned chunks hold the requested targets and no others; what is left of the limit is what
\* their targets have not used.
PlannedAsRequested(c) ==
  /\ Len(planned[c]) <= Len(Targets[c])
  /\ \A n \in 1..Len(planned[c]) : planned[c][n] = Targets[c][n]
  /\ \A n \in 1..Len(Targets[c]) : Requested(c, n) <=> n <= Len(planned[c])

LimitIsKept ==
  /\ options.limit < 0 => remaining_limit = options.limit
  /\ options.limit >= 0 =>
       /\ remaining_limit >= 0
       /\ remaining_limit > 0 => remaining_limit = options.limit - TargetsBefore[Len(planned)]
       /\ remaining_limit = 0 => options.limit <= TargetsBefore[Len(planned)]

PlanInv ==
  /\ \A c \in 1..Len(planned) : PlannedAsRequested(c)
  /\ LimitIsKept
  /\ main \notin {"plan", "failed"} => PlanComplete

LEMMA PlanInit == Init => PlanInv
<1> SUFFICES ASSUME Init PROVE PlanInv
  OBVIOUS
<1>1. Len(planned) = 0 /\ main = "plan" /\ remaining_limit = options.limit
  BY EmptySeq DEF Init
<1>2. options.limit \in Int
  BY ConstantsOK DEF Init, Option
<1>3. TargetsBefore[0] = 0
  BY TargetsBeforeIs
<1> QED
  BY <1>1, <1>2, <1>3 DEF PlanInv, LimitIsKept

\* One more chunk is planned.
LEMMA PlanGrows ==
  ASSUME TypeInv, PlanInv, PlanChunk, planned' # planned
  PROVE  PlanInv'
<1>0. PICK k : k = Len(planned) + 1
  OBVIOUS
<1> DEFINE next == Targets[k]
           targets == Limited(next, remaining_limit)
           limit == options.limit
<1>1. /\ planned' = Append(planned, targets) /\ remaining_limit' = LimitAfter(targets)
      /\ UNCHANGED options /\ main' = "plan" /\ remaining_limit # 0
  BY <1>0 DEF PlanChunk, plan, PlanComplete
<1>2. /\ planned \in Seq(Seq(File)) /\ Len(planned) \in Nat /\ Len(Targets) \in Nat
      /\ Len(planned) < Len(Targets) /\ limit \in Int /\ remaining_limit \in Int
  BY ConstantsOK, LenProperties DEF TypeInv, TypeOK, Control, PlanChunk, PlanComplete, Option
<1>3. /\ next \in Seq(File) /\ Len(next) \in Nat
      /\ TargetsBefore[k] = TargetsBefore[k - 1] + Len(next)
      /\ k - 1 = Len(planned) /\ TargetsBefore[k - 1] = TargetsBefore[Len(planned)]
      /\ TargetsBefore[k - 1] \in Nat
  BY <1>0, <1>2, TargetsBeforeNext, TargetsBeforeType
<1>4. /\ targets \in Seq(File) /\ Len(targets) <= Len(next) /\ Len(targets) \in Nat
      /\ \A n \in 1..Len(targets) : targets[n] = next[n]
      /\ Len(targets) = IF remaining_limit <= 0 \/ remaining_limit >= Len(next) THEN Len(next)
                        ELSE remaining_limit
  <2>1. CASE remaining_limit <= 0 \/ remaining_limit >= Len(next)
    BY <1>3, <2>1 DEF Limited
  <2>2. CASE ~(remaining_limit <= 0 \/ remaining_limit >= Len(next))
    <3>1. \A i \in 1..remaining_limit : next[i] \in File
      BY <1>2, <1>3, <2>2, ElementOfSeq
    <3>2. targets = SubSeq(next, 1, remaining_limit)
      BY <2>2 DEF Limited
    <3>3. Len(targets) = remaining_limit /\ \A i \in 1..remaining_limit : targets[i] = next[(1 + i) - 1]
      BY <1>2, <2>2, <3>1, <3>2, SubSeqProperties
    <3>4. targets \in Seq(File)
      BY <1>2, <2>2, <3>1, <3>2, SubSeqProperties
    <3>5. \A i \in 1..remaining_limit : (1 + i) - 1 = i
      BY <1>2
    <3> HIDE DEF targets, next
    <3>6. \A i \in 1..remaining_limit : targets[i] = next[i]
      BY <3>3, <3>5
    <3> QED
      BY <1>2, <1>3, <2>2, <3>3, <3>4, <3>6
  <2> QED
    BY <2>1, <2>2
<1> HIDE DEF targets, next, limit
<1>5. /\ Len(planned') = k /\ planned'[k] = targets
      /\ \A c \in 1..Len(planned) : planned'[c] = planned[c]
  BY <1>0, <1>1, <1>2, <1>4
<1>6. \A c \in 1..Len(planned) : PlannedAsRequested(c)'
  BY <1>1, <1>5 DEF PlanInv, PlannedAsRequested, Requested
<1>7. limit < 0 => remaining_limit = limit
  BY DEF PlanInv, LimitIsKept, limit
<1>8. limit >= 0 => remaining_limit > 0 /\ remaining_limit = limit - TargetsBefore[k - 1]
  <2> SUFFICES ASSUME limit >= 0
               PROVE  remaining_limit > 0 /\ remaining_limit = limit - TargetsBefore[k - 1]
    OBVIOUS
  <2>1. /\ remaining_limit >= 0
        /\ remaining_limit > 0 => remaining_limit = limit - TargetsBefore[Len(planned)]
    BY DEF PlanInv, LimitIsKept, limit
  <2> QED
    BY <1>1, <1>2, <1>3, <2>1
<1>9. \A n \in 1..Len(next) : Requested(k, n) <=> n <= Len(targets)
  <2>1. CASE limit < 0
    BY <1>2, <1>3, <1>4, <1>7, <2>1 DEF Requested, limit
  <2>2. CASE limit >= 0
    <3>1. \A n \in 1..Len(next) : Requested(k, n) <=> n <= remaining_limit
      BY <1>2, <1>3, <1>8, <2>2 DEF Requested, limit
    <3> QED
      BY <1>2, <1>3, <1>4, <1>8, <2>2, <3>1
  <2> QED
    BY <1>2, <2>1, <2>2
<1>10. PlannedAsRequested(k)'
  <2>1. Len(planned'[k]) <= Len(Targets[k]) /\ \A n \in 1..Len(planned'[k]) : planned'[k][n] = Targets[k][n]
    BY <1>4, <1>5 DEF next
  <2>2. \A n \in 1..Len(Targets[k]) : Requested(k, n)' <=> n <= Len(planned'[k])
    BY <1>1, <1>5, <1>9 DEF Requested, next, limit
  <2> QED
    BY <1>1, <1>5, <2>1, <2>2 DEF PlannedAsRequested
<1>11. LimitIsKept'
  <2>1. CASE limit < 0
    BY <1>1, <1>2, <1>7, <2>1 DEF LimitIsKept, LimitAfter, limit
  <2>2. CASE limit >= 0
    <3>1. remaining_limit' = remaining_limit - Len(targets)
      BY <1>1, <1>8, <2>2 DEF LimitAfter
    <3>2. /\ remaining_limit' >= 0
          /\ remaining_limit' > 0 => remaining_limit' = limit - TargetsBefore[k]
          /\ remaining_limit' = 0 => limit <= TargetsBefore[k]
      BY <1>2, <1>3, <1>4, <1>8, <2>2, <3>1
    <3> QED
      BY <1>1, <1>2, <1>5, <2>2, <3>2 DEF LimitIsKept, limit
  <2> QED
    BY <1>2, <2>1, <2>2
<1>12. \A c \in 1..Len(planned') : c \in 1..Len(planned) \/ c = k
  BY <1>0, <1>2, <1>5
<1> QED
  <2>1. \A c \in 1..Len(planned') : PlannedAsRequested(c)'
    BY <1>6, <1>10, <1>12
  <2> QED
    BY <1>1, <1>11, <2>1 DEF PlanInv

LEMMA PlanStep == TypeInv /\ PlanInv /\ [Next]_vars => PlanInv'
<1> SUFFICES ASSUME TypeInv, PlanInv, [Next]_vars PROVE PlanInv'
  OBVIOUS
<1> USE DEF run, plan, disk, claims, delivery, work
<1>1. CASE planned' # planned
  <2>1. PlanChunk
    BY <1>1 DEF Next, Stopped, vars, MainStep, EndPlan, BeginChunk, RequireSources, RecoverCaches,
                StartWorkers, JoinWorkers, Finalize, WorkerStep, ClaimFile, OpenInput, EnterHandler,
                RejectBatch, LeaveHandler, HandlerThrows, EndTraversal, RecordFile, StoreError
  <2> QED
    BY <1>1, <2>1, PlanGrows
<1>2. CASE planned' = planned
  <2>1. UNCHANGED <<options, plan>> /\ (main' \notin {"plan", "failed"} => PlanComplete)
    <3>1. CASE MainStep
      <4>1. CASE PlanChunk
        <5>1. main' = "failed" /\ UNCHANGED <<options, plan>>
          <6>1. CASE UNCHANGED plan /\ main' = "failed"
            BY <4>1, <6>1 DEF PlanChunk
          <6>2. CASE planned' = Append(planned, Limited(Targets[Len(planned) + 1], remaining_limit))
            <7>1. planned \in Seq(Seq(File)) /\ Len(planned) \in Nat
              BY LenProperties DEF TypeInv, TypeOK
            <7>2. Len(planned') = Len(planned) + 1
              BY <6>2, <7>1
            <7> QED
              BY <1>2, <7>1, <7>2
          <6> QED
            BY <4>1, <6>1, <6>2 DEF PlanChunk
        <5> QED
          BY <5>1
      <4>2. CASE ~PlanChunk
        BY <3>1, <4>2 DEF MainStep, EndPlan, BeginChunk, RequireSources, RecoverCaches,
                          StartWorkers, JoinWorkers, Finalize, PlanInv
      <4> QED
        BY <4>1, <4>2
    <3>2. CASE \E w \in Worker : WorkerStep(w)
      BY <3>2 DEF WorkerStep, ClaimFile, OpenInput, EnterHandler, RejectBatch, LeaveHandler,
                  HandlerThrows, EndTraversal, RecordFile, StoreError, PlanInv
    <3>3. CASE UNCHANGED vars
      BY <3>3 DEF vars, PlanInv
    <3> QED
      BY <3>1, <3>2, <3>3 DEF Next, Stopped
  <2> QED
    BY <2>1 DEF PlanInv, PlannedAsRequested, LimitIsKept, PlanComplete, Requested
<1> QED
  BY <1>1, <1>2

-----------------------------------------------------------------------------
(* What is due.                                                            *)

\* The messages that the n-th file of the c-th planned chunk has for it.
Due(c, n) == {m \in MessagesOf(planned[c][n]) : InRange(c, m)}

LEMMA DueType ==
  ASSUME TypeInv, PlanInv, NEW c \in 1..Len(planned), NEW n \in 1..Len(planned[c])
  PROVE  /\ planned[c][n] \in File /\ planned[c][n] = Targets[c][n]
         /\ c \in 1..Len(Targets) /\ n \in 1..Len(Targets[c])
         /\ Requested(c, n)
         /\ Due(c, n) \subseteq Message
         /\ \A m \in Due(c, n) : m[1] = planned[c][n] /\ InRange(c, m)
<1>1. /\ planned \in Seq(Seq(File)) /\ Len(planned) \in Nat /\ Len(Targets) \in Nat
      /\ Len(planned) <= Len(Targets)
  BY ConstantsOK, LenProperties DEF TypeInv, TypeOK, Control
<1>2. planned[c] \in Seq(File) /\ c \in 1..Len(Targets)
  BY <1>1, ElementOfSeq
<1>3. Targets[c] \in Seq(File) /\ Len(Targets[c]) \in Nat /\ Len(planned[c]) \in Nat
  BY <1>2, ConstantsOK, ElementOfSeq, LenProperties
<1>4. planned[c][n] \in File
  BY <1>2, ElementOfSeq
<1>5. PlannedAsRequested(c)
  BY DEF PlanInv
<1>6. planned[c][n] = Targets[c][n] /\ n \in 1..Len(Targets[c])
  BY <1>3, <1>5 DEF PlannedAsRequested
<1>7. Requested(c, n)
  BY <1>5, <1>6 DEF PlannedAsRequested
<1>8. Due(c, n) \subseteq Message /\ \A m \in Due(c, n) : m[1] = planned[c][n] /\ InRange(c, m)
  BY <1>4, MessagesOfType DEF Due, MessagesOf
<1> QED
  BY <1>2, <1>4, <1>6, <1>7, <1>8

\* A message is due once: the chunks do not overlap, and a chunk names a file once.
LEMMA DueOnce ==
  ASSUME TypeInv, PlanInv,
         NEW c \in 1..Len(planned), NEW n \in 1..Len(planned[c]),
         NEW d \in 1..Len(planned), NEW k \in 1..Len(planned[d]),
         NEW m \in Due(c, n), m \in Due(d, k)
  PROVE  c = d /\ n = k
<1>1. /\ m \in Message /\ InRange(c, m) /\ InRange(d, m)
      /\ m[1] = Targets[c][n] /\ m[1] = Targets[d][k]
      /\ c \in 1..Len(Targets) /\ d \in 1..Len(Targets)
      /\ n \in 1..Len(Targets[c]) /\ k \in 1..Len(Targets[d])
  BY DueType
<1>2. /\ DOMAIN Targets = 1..Len(Targets)
      /\ DOMAIN Targets[c] = 1..Len(Targets[c])
  BY <1>1, ConstantsOK, ElementOfSeq, LenProperties
<1>3. /\ Ts(m) \in Nat
      /\ \A e \in 1..Len(Targets) : ChunkRange[e].start \in Int /\ ChunkRange[e].end \in Int
  BY <1>1, MessageType, ConstantsOK
<1>4. ChunkRange[c].start <= Ts(m) /\ Ts(m) < ChunkRange[c].end
  BY <1>1 DEF InRange
<1>5. ChunkRange[d].start <= Ts(m) /\ Ts(m) < ChunkRange[d].end
  BY <1>1 DEF InRange
<1>6. ~(c < d)
  <2>1. c < d => ChunkRange[c].end <= ChunkRange[d].start
    BY <1>1, <1>2, PlanOK
  <2> QED
    BY <1>1, <1>3, <1>4, <1>5, <2>1
<1>7. ~(d < c)
  <2>1. d < c => ChunkRange[d].end <= ChunkRange[c].start
    BY <1>1, <1>2, PlanOK
  <2> QED
    BY <1>1, <1>3, <1>4, <1>5, <2>1
<1>8. c = d
  <2>1. c \in Int /\ d \in Int
    BY <1>1
  <2> QED
    BY <1>6, <1>7, <2>1
<1> QED
  BY <1>1, <1>2, <1>8, PlanOK

\* What is due belongs to the request; and when the plan is complete, all of the request is due.
LEMMA DueIsExpected ==
  ASSUME TypeInv, PlanInv, NEW c \in 1..Len(planned), NEW n \in 1..Len(planned[c])
  PROVE  Due(c, n) \subseteq Expected
<1>1. /\ c \in 1..Len(Targets) /\ n \in 1..Len(Targets[c]) /\ Requested(c, n)
      /\ Due(c, n) \subseteq Message
      /\ \A m \in Due(c, n) : m[1] = Targets[c][n] /\ InRange(c, m)
  BY DueType
<1>2. /\ DOMAIN Targets = 1..Len(Targets)
      /\ DOMAIN Targets[c] = 1..Len(Targets[c])
  BY <1>1, ConstantsOK, ElementOfSeq, LenProperties
<1> QED
  BY <1>1, <1>2 DEF Expected

LEMMA ExpectedIsDue ==
  ASSUME TypeInv, PlanInv, PlanComplete, NEW m \in Expected
  PROVE  \E c \in 1..Len(planned) : \E n \in 1..Len(planned[c]) : m \in Due(c, n)
<1>1. PICK c \in DOMAIN Targets : \E n \in DOMAIN Targets[c] :
        Requested(c, n) /\ m[1] = Targets[c][n] /\ InRange(c, m)
  BY DEF Expected
<1>2. PICK n \in DOMAIN Targets[c] : Requested(c, n) /\ m[1] = Targets[c][n] /\ InRange(c, m)
  BY <1>1
<1>3. /\ c \in 1..Len(Targets) /\ n \in 1..Len(Targets[c]) /\ Len(Targets) \in Nat
      /\ Targets[c] \in Seq(File)
  BY <1>1, <1>2, ConstantsOK, ElementOfSeq, LenProperties
<1>4. /\ Len(planned) \in Nat /\ Len(planned) <= Len(Targets)
      /\ options.limit \in Int /\ remaining_limit \in Int
  BY LenProperties DEF TypeInv, TypeOK, Control, Option
<1>5. c \in 1..Len(planned)
  <2> SUFFICES ASSUME Len(planned) < c PROVE FALSE
    BY <1>3, <1>4
  <2>1. remaining_limit = 0
    BY <1>3, <1>4 DEF PlanComplete
  <2>2. options.limit >= 0 /\ options.limit <= TargetsBefore[Len(planned)]
    BY <1>4, <2>1 DEF PlanInv, LimitIsKept
  <2>3. c - 1 \in 0..Len(Targets) /\ Len(planned) \in 0..Len(Targets) /\ Len(planned) <= c - 1
    BY <1>3, <1>4
  <2>4. TargetsBefore[Len(planned)] <= TargetsBefore[c - 1]
    BY <2>3, TargetsBeforeGrows
  <2>5. TargetsBefore[Len(planned)] \in Nat /\ TargetsBefore[c - 1] \in Nat
    BY <2>3, TargetsBeforeType
  <2>6. TargetsBefore[c - 1] + n <= options.limit
    BY <1>2, <1>4, <2>2 DEF Requested
  <2> QED
    BY <1>3, <1>4, <2>2, <2>4, <2>5, <2>6
<1>6. PlannedAsRequested(c)
  BY <1>5 DEF PlanInv
<1>7. n <= Len(planned[c])
  BY <1>2, <1>3, <1>6 DEF PlannedAsRequested
<1>8. n \in 1..Len(planned[c])
  <2>1. planned[c] \in Seq(File)
    BY <1>5, ElementOfSeq DEF TypeInv, TypeOK
  <2>2. Len(planned[c]) \in Nat
    BY <2>1, LenProperties
  <2> QED
    BY <1>3, <1>7, <2>2
<1>9. planned[c][n] = Targets[c][n] /\ planned[c][n] \in File
  BY <1>5, <1>8, DueType
<1>10. m \in MessagesOf(planned[c][n])
  <2>1. m \in Message
    BY DEF Expected
  <2>2. PICK f \in File : m \in {f} \X (1..Len(Content[f]))
    BY <2>1 DEF Message
  <2>3. m[1] = f
    BY <2>2
  <2> QED
    BY <1>2, <1>9, <2>2, <2>3 DEF MessagesOf
<1> QED
  BY <1>2, <1>5, <1>8, <1>10 DEF Due

-----------------------------------------------------------------------------
(* What is left to hand out.                                               *)

Distinct(s) == \A i, j \in 1..Len(s) : s[i] = s[j] => i = j

\* A traversal has each message of the range once; one over all messages of the file has them all.
LEMMA StreamHasEach ==
  ASSUME NEW c, NEW f \in File, NEW S \in SUBSET MessagesOf(f),
         NEW s \in ParseStreams(c, S) \cup CacheStreams(c, S)
  PROVE  /\ Distinct(s)
         /\ RangeOf(s) = {m \in S : InRange(c, m)}
<1> DEFINE T == {m \in S : InRange(c, m)}
           N == Cardinality(T)
<1>1. S \subseteq Message /\ IsFiniteSet(T)
  BY MessagesOfType, FS_Subset
<1>2. N \in Nat
  BY <1>1, FS_CardinalityType
<1>3. s \in [1..N -> T]
  BY DEF ParseStreams, CacheStreams, Listings
<1>4. Len(s) = N /\ DOMAIN s = 1..N
  <2>1. s \in Seq(T)
    BY <1>2, <1>3, SeqDef
  <2> HIDE DEF T, N
  <2>2. DOMAIN s = 1..N /\ DOMAIN s = 1..Len(s) /\ Len(s) \in Nat
    BY <1>3, <2>1, LenProperties
  <2>3. Len(s) = N
    BY <1>2, <2>2
  <2> QED
    BY <2>2, <2>3
<1>5. \A i, j \in 1..N : i < j => s[i] # s[j]
  <2>1. \A i \in 1..N : s[i] \in T /\ s[i][2] \in Nat /\ Ts(s[i]) \in Nat
    BY <1>1, <1>3, MessageType
  <2>2. CASE s \in ParseStreams(c, S)
    <3>1. \A i, j \in DOMAIN s : i < j => s[i][2] < s[j][2]
      BY <2>2 DEF ParseStreams
    <3> HIDE DEF T
    <3> QED
      BY <1>4, <2>1, <3>1
  <2>3. CASE s \in CacheStreams(c, S)
    <3>1. \A i, j \in DOMAIN s : i < j => CacheBefore(s[i], s[j])
      BY <2>3 DEF CacheStreams
    <3>2. \A i \in 1..N : ~CacheBefore(s[i], s[i])
      BY <2>1 DEF CacheBefore
    <3> HIDE DEF T
    <3> QED
      BY <1>4, <3>1, <3>2
  <2> QED
    BY <2>2, <2>3
<1>6. \A i, j \in 1..N : s[i] = s[j] => i = j
  <2> HIDE DEF T, N
  <2> SUFFICES ASSUME NEW i \in 1..N, NEW j \in 1..N, s[i] = s[j] PROVE i = j
    OBVIOUS
  <2>1. i \in Int /\ j \in Int /\ ~(i < j) /\ ~(j < i)
    BY <1>2, <1>5
  <2> QED
    BY <2>1
<1>7. s \in Injection(1..N, T)
  BY <1>3, <1>6 DEF Injection, IsInjective
<1>8. Cardinality(1..N) = N
  BY <1>2, FS_Interval
<1>9. s \in Surjection(1..N, T)
  BY <1>1, <1>7, <1>8, FS_Injection
<1>10. RangeOf(s) = T
  BY <1>3, <1>4, <1>9 DEF Surjection, RangeOf
<1> QED
  BY <1>4, <1>6, <1>10 DEF Distinct

\* So has the input a thread opens; one that is going to end well is complete.
FullInput(i, D) ==
  /\ Distinct(i.todo)
  /\ RangeOf(i.todo) \subseteq D
  /\ i.ok => RangeOf(i.todo) = D

LEMMA InputHasEach ==
  ASSUME NEW c, NEW f \in File
  PROVE  \A i \in ParseInputs(c, f) \cup CacheInputs(c, f) :
           FullInput(i, {m \in MessagesOf(f) : InRange(c, m)})
<1> DEFINE D == {m \in MessagesOf(f) : InRange(c, m)}
<1>1. ASSUME NEW S \in SUBSET MessagesOf(f), NEW s \in ParseStreams(c, S) \cup CacheStreams(c, S),
             NEW ok \in BOOLEAN, NEW realtime, ok => S = MessagesOf(f)
      PROVE  FullInput(Reading(s, ok, realtime), D)
  BY <1>1, StreamHasEach DEF FullInput, Reading
<1>2. \A k : ParsePrefix(f, k) \in SUBSET MessagesOf(f) /\ CachePrefix(f, k) \in SUBSET MessagesOf(f)
  BY DEF ParsePrefix, CachePrefix
<1>3. FullInput(Reading(<<>>, FALSE, FALSE), D)
  BY DEF FullInput, Reading, Distinct, RangeOf
<1> HIDE DEF D
<1>4. ASSUME NEW i \in ParseInputs(c, f)
      PROVE  FullInput(i, D)
  <2>1. CASE source[f] = "ok"
    <3>1. PICK s \in ParseStreams(c, MessagesOf(f)) : i = Reading(s, TRUE, TRUE)
      BY <1>4, <2>1 DEF ParseInputs
    <3> QED
      BY <1>1, <3>1
  <2>2. CASE source[f] # "ok"
    <3>1. PICK k \in 0..Len(Content[f]) :
            i \in {Reading(s, FALSE, TRUE) : s \in ParseStreams(c, ParsePrefix(f, k))}
      BY <1>4, <2>2 DEF ParseInputs
    <3>2. PICK s \in ParseStreams(c, ParsePrefix(f, k)) : i = Reading(s, FALSE, TRUE)
      BY <3>1
    <3> QED
      BY <1>1, <1>2, <3>2
  <2> QED
    BY <2>1, <2>2
<1>5. ASSUME NEW i \in CacheInputs(c, f)
      PROVE  FullInput(i, D)
  <2>1. CASE cache[f] = "valid"
    <3>1. PICK s \in CacheStreams(c, MessagesOf(f)) : i = Reading(s, TRUE, FALSE)
      BY <1>5, <2>1 DEF CacheInputs
    <3> QED
      BY <1>1, <3>1
  <2>2. CASE cache[f] = "stale"
    BY <1>3, <1>5, <2>2 DEF CacheInputs
  <2>3. CASE cache[f] \notin {"valid", "stale"}
    <3>1. PICK k \in 0..Len(Content[f]) :
            i \in {Reading(s, FALSE, FALSE) : s \in CacheStreams(c, CachePrefix(f, k))}
      BY <1>5, <2>3 DEF CacheInputs
    <3>2. PICK s \in CacheStreams(c, CachePrefix(f, k)) : i = Reading(s, FALSE, FALSE)
      BY <3>1
    <3> QED
      BY <1>1, <1>2, <3>2
  <2> QED
    BY <2>1, <2>2, <2>3
<1> QED
  BY <1>4, <1>5 DEF D

\* The messages of a traversal after the first k.
TodoFrom(i, k) == {i.todo[j] : j \in (k + 1)..Len(i.todo)}

\* A ready batch takes the first messages of the traversal and leaves the others.
LEMMA BatchCut ==
  ASSUME NEW i \in Input, BatchReady(i),
         NEW rest, rest = SubSeq(i.todo, Len(Batch(i)) + 1, Len(i.todo))
  PROVE  /\ Batch(i) \in Seq(Message) /\ Batch(i) # <<>>
         /\ Len(Batch(i)) = BatchLength(i)
         /\ RangeOf(Batch(i)) \cup TodoFrom(i, BatchLength(i)) = RangeOf(i.todo)
         /\ RangeOf(rest) = TodoFrom(i, BatchLength(i))
         /\ rest \in Seq(Message)
         /\ Distinct(i.todo) => /\ Distinct(Batch(i)) /\ Distinct(rest)
                                /\ RangeOf(Batch(i)) \cap TodoFrom(i, BatchLength(i)) = {}
<1> DEFINE t == i.todo
           b == BatchLength(i)
           N == Len(t)
<1>1. t \in Seq(Message) /\ N \in Nat /\ DOMAIN t = 1..N /\ i.ok \in BOOLEAN
  BY LenProperties DEF Input
<1>2. b \in 1..N
  <2>1. t # <<>> => N > 0
    BY <1>1, EmptySeq
  <2> QED
    BY <1>1, <2>1, ConstantsOK DEF BatchReady, BatchLength
<1>3. \A j \in 1..N : t[j] \in Message
  BY <1>1, ElementOfSeq
<1>4. /\ Batch(i) \in Seq(Message) /\ Len(Batch(i)) = b
      /\ \A j \in 1..b : Batch(i)[j] = t[j]
  <2>1. \A j \in 1..b : t[j] \in Message /\ (1 + j) - 1 = j
    BY <1>2, <1>3
  <2>2. Batch(i) = SubSeq(t, 1, b)
    BY DEF Batch
  <2> HIDE DEF t, b, N
  <2>3. /\ SubSeq(t, 1, b) \in Seq(Message) /\ Len(SubSeq(t, 1, b)) = b
        /\ \A j \in 1..b : SubSeq(t, 1, b)[j] = t[(1 + j) - 1]
    BY <1>1, <1>2, <2>1, SubSeqProperties
  <2> QED
    BY <2>1, <2>2, <2>3
<1>5. /\ rest \in Seq(Message) /\ Len(rest) = N - b
      /\ \A j \in 1..(N - b) : rest[j] = t[b + j]
  <2>1. rest = SubSeq(t, b + 1, N)
    BY <1>4
  <2>2. \A j \in (b + 1)..N : t[j] \in Message
    BY <1>2, <1>3
  <2> HIDE DEF t, b, N
  <2>3. /\ SubSeq(t, b + 1, N) \in Seq(Message)
        /\ Len(SubSeq(t, b + 1, N)) = IF b + 1 <= N THEN (N - (b + 1)) + 1 ELSE 0
        /\ \A j \in 1..((N - (b + 1)) + 1) : SubSeq(t, b + 1, N)[j] = t[((b + 1) + j) - 1]
    BY <1>1, <1>2, <2>2, SubSeqProperties
  <2>4. (N - (b + 1)) + 1 = N - b /\ \A j \in 1..(N - b) : ((b + 1) + j) - 1 = b + j
    BY <1>1, <1>2
  <2>5. (IF b + 1 <= N THEN (N - (b + 1)) + 1 ELSE 0) = N - b
    BY <1>1, <1>2
  <2>6. rest \in Seq(Message) /\ Len(rest) = N - b
    BY <2>1, <2>3, <2>5
  <2>7. ASSUME NEW j \in 1..(N - b)
        PROVE  rest[j] = t[b + j]
    <3>1. j \in 1..((N - (b + 1)) + 1) /\ ((b + 1) + j) - 1 = b + j
      BY <2>4
    <3> QED
      BY <2>1, <2>3, <3>1
  <2> QED
    BY <2>6, <2>7
<1>6. DOMAIN Batch(i) = 1..b /\ DOMAIN rest = 1..(N - b)
  BY <1>4, <1>5, LenProperties
<1> HIDE DEF t, b, N
<1>7. RangeOf(Batch(i)) = {t[j] : j \in 1..b}
  BY <1>4, <1>6 DEF RangeOf
<1>8. RangeOf(rest) = {t[j] : j \in (b + 1)..N}
  <2>1. ASSUME NEW x \in RangeOf(rest)
        PROVE  x \in {t[j] : j \in (b + 1)..N}
    <3>1. PICK j \in 1..(N - b) : x = rest[j]
      BY <1>6, <2>1 DEF RangeOf
    <3>2. x = t[b + j] /\ b + j \in (b + 1)..N
      BY <1>1, <1>2, <1>5, <3>1
    <3> QED
      BY <3>2
  <2>2. ASSUME NEW j \in (b + 1)..N
        PROVE  t[j] \in RangeOf(rest)
    <3>1. j - b \in 1..(N - b) /\ b + (j - b) = j
      BY <1>1, <1>2
    <3>2. rest[j - b] = t[b + (j - b)]
      BY <1>5, <3>1
    <3>3. rest[j - b] = t[j]
      BY <3>1, <3>2
    <3> QED
      BY <1>6, <3>1, <3>3 DEF RangeOf
  <2> QED
    BY <2>1, <2>2
<1>9. RangeOf(t) = {t[j] : j \in 1..N}
  BY <1>1 DEF RangeOf
<1>10. RangeOf(Batch(i)) \cup {t[j] : j \in (b + 1)..N} = RangeOf(t)
  <2>1. 1..N = (1..b) \cup ((b + 1)..N)
    BY <1>1, <1>2
  <2> QED
    BY <1>7, <1>9, <2>1
<1>11. ASSUME Distinct(t)
       PROVE  /\ Distinct(Batch(i)) /\ Distinct(rest)
              /\ RangeOf(Batch(i)) \cap {t[j] : j \in (b + 1)..N} = {}
  <2>1. \A j, k \in 1..N : t[j] = t[k] => j = k
    BY <1>11 DEF Distinct, N
  <2>2. Distinct(Batch(i))
    <3>1. \A j, k \in 1..b : Batch(i)[j] = Batch(i)[k] => j = k
      BY <1>1, <1>2, <1>4, <2>1
    <3> QED
      BY <1>4, <3>1 DEF Distinct
  <2>3. Distinct(rest)
    <3> SUFFICES ASSUME NEW j \in 1..(N - b), NEW k \in 1..(N - b), rest[j] = rest[k]
                 PROVE  j = k
      BY <1>5 DEF Distinct
    <3>1. b + j \in 1..N /\ b + k \in 1..N
      BY <1>1, <1>2
    <3>3. t[b + j] = t[b + k]
      BY <1>5
    <3>2. b + j = b + k
      BY <2>1, <3>1, <3>3
    <3> QED
      BY <1>2, <3>2
  <2>4. \A j \in 1..b : \A k \in (b + 1)..N : t[j] # t[k]
    <3> SUFFICES ASSUME NEW j \in 1..b, NEW k \in (b + 1)..N, t[j] = t[k] PROVE FALSE
      OBVIOUS
    <3>1. j \in 1..N /\ k \in 1..N /\ j # k
      BY <1>1, <1>2
    <3> QED
      BY <2>1, <3>1
  <2> QED
    BY <1>7, <2>2, <2>3, <2>4
<1>12. Batch(i) # <<>>
  BY <1>2, <1>4, EmptySeq
<1>13. TodoFrom(i, b) = {t[j] : j \in (b + 1)..N}
  BY DEF TodoFrom, t, N
<1> QED
  BY <1>4, <1>5, <1>8, <1>10, <1>11, <1>12, <1>13 DEF t, b

LEMMA DistinctConcat ==
  ASSUME NEW s \in Seq(Message), NEW b \in Seq(Message)
  PROVE  /\ RangeOf(s \o b) = RangeOf(s) \cup RangeOf(b)
         /\ Distinct(s) /\ Distinct(b) /\ RangeOf(s) \cap RangeOf(b) = {} => Distinct(s \o b)
<1> DEFINE t == s \o b
           M == Len(s)
           N == Len(b)
<1>1. /\ M \in Nat /\ N \in Nat /\ Len(t) = M + N /\ t \in Seq(Message)
      /\ DOMAIN s = 1..M /\ DOMAIN b = 1..N /\ DOMAIN t = 1..(M + N)
  BY ConcatProperties, LenProperties
<1>2. \A i \in 1..(M + N) : t[i] = IF i <= M THEN s[i] ELSE b[i - M]
  BY ConcatProperties
<1> HIDE DEF t, M, N
<1>3. \A i \in 1..M : t[i] = s[i] /\ i \in 1..(M + N)
  BY <1>1, <1>2
<1>4. \A i \in 1..N : t[M + i] = b[i] /\ M + i \in 1..(M + N)
  <2> SUFFICES ASSUME NEW i \in 1..N PROVE t[M + i] = b[i] /\ M + i \in 1..(M + N)
    OBVIOUS
  <2>1. M + i \in 1..(M + N) /\ ~(M + i <= M) /\ (M + i) - M = i
    BY <1>1
  <2> QED
    BY <1>2, <2>1
<1>5. \A k \in 1..(M + N) : k \in 1..M \/ \E i \in 1..N : k = M + i
  <2> SUFFICES ASSUME NEW k \in 1..(M + N), k > M PROVE \E i \in 1..N : k = M + i
    BY <1>1
  <2>1. k - M \in 1..N /\ k = M + (k - M)
    BY <1>1
  <2> QED
    BY <2>1
<1>6. RangeOf(t) = RangeOf(s) \cup RangeOf(b)
  <2>1. ASSUME NEW k \in 1..(M + N)
        PROVE  t[k] \in RangeOf(s) \cup RangeOf(b)
    BY <1>1, <1>3, <1>4, <1>5 DEF RangeOf
  <2>2. ASSUME NEW i \in 1..M
        PROVE  s[i] \in RangeOf(t)
    BY <1>1, <1>3 DEF RangeOf
  <2>3. ASSUME NEW i \in 1..N
        PROVE  b[i] \in RangeOf(t)
    BY <1>1, <1>4 DEF RangeOf
  <2> QED
    BY <1>1, <2>1, <2>2, <2>3 DEF RangeOf
<1>7. ASSUME Distinct(s), Distinct(b), RangeOf(s) \cap RangeOf(b) = {}
      PROVE  Distinct(t)
  <2> SUFFICES ASSUME NEW j \in 1..(M + N), NEW k \in 1..(M + N), t[j] = t[k]
               PROVE  j = k
    BY <1>1 DEF Distinct
  <2>1. ASSUME NEW x \in 1..M, NEW y \in 1..N
        PROVE  s[x] # b[y]
    BY <1>1, <1>7 DEF RangeOf
  <2>2. CASE j \in 1..M /\ k \in 1..M
    BY <1>3, <1>7, <2>2 DEF Distinct, M
  <2>3. CASE j \in 1..M /\ k \notin 1..M
    BY <1>3, <1>4, <1>5, <2>1, <2>3
  <2>4. CASE j \notin 1..M /\ k \in 1..M
    BY <1>3, <1>4, <1>5, <2>1, <2>4
  <2>5. CASE j \notin 1..M /\ k \notin 1..M
    <3>1. PICK x \in 1..N : j = M + x
      BY <1>5, <2>5
    <3>2. PICK y \in 1..N : k = M + y
      BY <1>5, <2>5
    <3>3. b[x] = b[y]
      BY <1>4, <3>1, <3>2
    <3>4. x = y
      BY <1>7, <3>3 DEF Distinct, N
    <3> QED
      BY <3>1, <3>2, <3>4
  <2> QED
    BY <2>2, <2>3, <2>4, <2>5
<1> QED
  BY <1>6, <1>7 DEF t

\* The messages a thread has still to hand out.
Begun(w) == IF pc[w] = "handle" THEN BatchLength(input[w]) ELSE 0
Left(w) ==
  CASE pc[w] = "open" -> Due(chunk, file[w])
    [] pc[w] \in {"read", "handle"} -> TodoFrom(input[w], Begun(w))
    [] OTHER -> {}

\* The delivered messages were due, in a chunk that is done or a claimed file of this one.
WasDue(m) ==
  \E c \in 1..Len(planned) : \E n \in 1..Len(planned[c]) :
    /\ m \in Due(c, n)
    /\ c < chunk \/ (c = chunk /\ main \in {"join", "failed"} /\ n < next_file_index)

\* Nothing is delivered twice, because what a thread has left is due in its own file
\* and not delivered.
UniqueInv ==
  /\ main = "plan" => delivered = <<>>
  /\ Distinct(delivered)
  /\ \A m \in RangeOf(delivered) : WasDue(m)
  /\ \A w \in Worker : pc[w] \in {"read", "handle"} =>
       Distinct(input[w].todo) /\ RangeOf(input[w].todo) \subseteq Due(chunk, file[w])
  /\ \A w \in Worker : Left(w) \cap RangeOf(delivered) = {}

-----------------------------------------------------------------------------
(* Each message once.                                                      *)

\* The threads have nothing left around a step of the main thread.
LEMMA NothingLeft ==
  ASSUME TypeInv, MainStep
  PROVE  /\ \A w \in Worker : pc[w] = "exited" /\ pc'[w] \in {"claim", "exited"}
         /\ UNCHANGED <<options, delivered, input>>
<1> USE DEF run, plan, disk, claims, delivery, work
<1>1. main # "join" => \A w \in Worker : pc[w] = "exited"
  BY DEF TypeInv, Control
<1>2. \A w \in Worker : pc[w] = "exited"
  BY <1>1 DEF MainStep, PlanChunk, EndPlan, BeginChunk, RequireSources, RecoverCaches,
              StartWorkers, JoinWorkers, AllJoined, Finalize
<1>3. UNCHANGED pc \/ \A w \in Worker : pc'[w] \in {"claim", "exited"}
  BY DEF MainStep, PlanChunk, EndPlan, BeginChunk, RequireSources, RecoverCaches,
         StartWorkers, JoinWorkers, Finalize
<1>4. UNCHANGED <<options, delivered, input>>
  BY DEF MainStep, PlanChunk, EndPlan, BeginChunk, RequireSources, RecoverCaches,
         StartWorkers, JoinWorkers, Finalize
<1> QED
  BY <1>2, <1>3, <1>4

LEMMA UniqueMain ==
  ASSUME TypeInv, UniqueInv, MainStep
  PROVE  UniqueInv'
<1> USE DEF run, plan, disk, claims, delivery, work
<1>1. /\ \A w \in Worker : pc'[w] \in {"claim", "exited"}
      /\ UNCHANGED delivered
  BY NothingLeft
<1>2. \A w \in Worker : Left(w)' = {}
  BY <1>1 DEF Left
<1>3. /\ chunk \in Nat /\ Len(planned) \in Nat
      /\ main \in {"require", "inspect", "start", "join"} => chunk \in 1..Len(planned)
  BY LenProperties DEF TypeInv, TypeOK, Control
<1>4. CASE main = "plan"
  <2>1. delivered = <<>> /\ RangeOf(delivered) = {}
    BY <1>4 DEF UniqueInv, RangeOf
  <2> QED
    BY <1>1, <1>2, <2>1 DEF UniqueInv
<1>5. CASE main # "plan"
  <2>1. main' # "plan" /\ UNCHANGED planned
    BY <1>5 DEF MainStep, PlanChunk, EndPlan, BeginChunk, RequireSources, RecoverCaches,
                StartWorkers, JoinWorkers, Finalize
  <2>2. ASSUME NEW c \in 1..Len(planned), NEW n,
               c < chunk \/ (c = chunk /\ main \in {"join", "failed"} /\ n < next_file_index)
        PROVE  c < chunk' \/ (c = chunk' /\ main' \in {"join", "failed"} /\ n < next_file_index')
    <3>1. CASE BeginChunk \/ RequireSources \/ RecoverCaches \/ Finalize
      <4>1. UNCHANGED <<chunk, next_file_index>> /\ main \notin {"join", "failed"}
        BY <3>1 DEF BeginChunk, RequireSources, RecoverCaches, Finalize
      <4> QED
        BY <2>2, <4>1
    <3>2. CASE StartWorkers
      <4>1. (chunk' = chunk \/ chunk' = chunk + 1) /\ main = "start"
        BY <3>2 DEF StartWorkers
      <4> QED
        BY <1>3, <2>2, <4>1
    <3>3. CASE JoinWorkers
      <4>1. CASE chunk' = chunk + 1
        BY <1>3, <2>2, <4>1
      <4>2. CASE main' = "failed" /\ UNCHANGED <<chunk, next_file_index>>
        BY <2>2, <4>2
      <4> QED
        BY <3>3, <4>1, <4>2 DEF JoinWorkers
    <3> QED
      BY <1>5, <3>1, <3>2, <3>3 DEF MainStep, PlanChunk, EndPlan
  <2>3. \A c, n : Due(c, n)' = Due(c, n)
    BY <2>1 DEF Due
  <2>4. \A m : WasDue(m) => WasDue(m)'
    BY <2>1, <2>2, <2>3 DEF WasDue
  <2> QED
    BY <1>1, <1>2, <2>1, <2>4 DEF UniqueInv
<1> QED
  BY <1>4, <1>5

\* A thread hands out a batch.
LEMMA UniqueBatch ==
  ASSUME TypeInv, ClaimInv, PlanInv, UniqueInv, NEW w \in Worker, EnterHandler(w)
  PROVE  /\ Distinct(delivered)'
         /\ RangeOf(delivered') = RangeOf(delivered) \cup RangeOf(Batch(input[w]))
         /\ RangeOf(Batch(input[w])) \subseteq Due(chunk, file[w])
         /\ RangeOf(Batch(input[w])) \cup Left(w)' = Left(w)
         /\ \A v \in Worker : Left(v)' \cap RangeOf(delivered') = {}
<1> DEFINE i == input[w]
           b == Batch(i)
           rest == SubSeq(i.todo, Len(b) + 1, Len(i.todo))
<1>1. /\ pc \in [Worker -> WorkerLabel] /\ input \in [Worker -> Input] /\ i \in Input
      /\ delivered \in Seq(Message)
  BY DEF TypeInv, TypeOK
<1>2. /\ UNCHANGED <<input, file, chunk, planned>> /\ pc[w] = "read" /\ BatchReady(i)
      /\ pc' = [pc EXCEPT ![w] = "handle"] /\ delivered' = delivered \o b
  BY DEF EnterHandler, Goto, run, plan, claims
<1>3. Distinct(i.todo) /\ RangeOf(i.todo) \subseteq Due(chunk, file[w])
  BY <1>2 DEF UniqueInv
<1>4. /\ b \in Seq(Message) /\ Distinct(b)
      /\ RangeOf(b) \cup TodoFrom(i, BatchLength(i)) = RangeOf(i.todo)
      /\ RangeOf(b) \cap TodoFrom(i, BatchLength(i)) = {}
  BY <1>1, <1>2, <1>3, BatchCut
<1>5. Left(w) = RangeOf(i.todo)
  <2>1. i.todo \in Seq(Message)
    BY <1>1 DEF Input
  <2>2. DOMAIN i.todo = 1..Len(i.todo)
    BY <2>1, LenProperties
  <2> QED
    BY <1>2, <2>2 DEF Left, Begun, TodoFrom, RangeOf
<1>6. Left(w)' = TodoFrom(i, BatchLength(i))
  BY <1>1, <1>2 DEF Left, Begun, TodoFrom, BatchLength
<1>7. Left(w) \cap RangeOf(delivered) = {} /\ RangeOf(delivered) \cap RangeOf(b) = {}
  BY <1>4, <1>5 DEF UniqueInv
<1>8. /\ Distinct(delivered)'
      /\ RangeOf(delivered') = RangeOf(delivered) \cup RangeOf(b)
  BY <1>1, <1>2, <1>4, <1>7, DistinctConcat DEF UniqueInv, Distinct
<1>9. ASSUME NEW v \in Worker
      PROVE  Left(v)' \cap RangeOf(delivered') = {}
  <2>1. CASE v = w
    BY <1>4, <1>5, <1>6, <1>7, <1>8, <2>1
  <2>2. CASE v # w
    <3>1. Left(v)' = Left(v)
      BY <1>1, <1>2, <2>2 DEF Left, Begun, TodoFrom, BatchLength, Due
    <3>2. Left(v) \cap RangeOf(delivered) = {}
      BY DEF UniqueInv
    <3>3. Left(v) \cap RangeOf(b) = {}
      <4> SUFFICES ASSUME NEW m \in Left(v), m \in RangeOf(b) PROVE FALSE
        OBVIOUS
      <4>1. pc[v] \in {"open", "read", "handle"}
        BY DEF Left
      <4>2. m \in Due(chunk, file[v])
        <5>1. CASE pc[v] = "open"
          BY <5>1 DEF Left
        <5>2. CASE pc[v] \in {"read", "handle"}
          <6>1. Left(v) = TodoFrom(input[v], Begun(v))
            BY <5>2 DEF Left
          <6>2. input[v] \in Input /\ input[v].todo \in Seq(Message)
            BY <1>1 DEF Input
          <6>3. DOMAIN input[v].todo = 1..Len(input[v].todo) /\ BatchLength(input[v]) \in Nat
            BY <6>2, LenProperties, ConstantsOK DEF BatchLength
          <6>4. Begun(v) \in Nat
            BY <6>3 DEF Begun
          <6>5. \A k \in (Begun(v) + 1)..Len(input[v].todo) : k \in DOMAIN input[v].todo
            BY <6>3, <6>4
          <6>6. m \in RangeOf(input[v].todo)
            BY <6>1, <6>5 DEF TodoFrom, RangeOf
          <6> QED
            BY <5>2, <6>6 DEF UniqueInv
        <5> QED
          BY <4>1, <5>1, <5>2
      <4>3. m \in Due(chunk, file[w])
        BY <1>3, <1>4
      <4>4. chunk \in 1..Len(planned) /\ file[v] \in 1..Len(Files) /\ file[w] \in 1..Len(Files)
        BY <1>2, <4>1 DEF TypeInv, Control, HoldsFile
      <4>5. file[v] = file[w]
        BY <4>2, <4>3, <4>4, DueOnce DEF Files
      <4> QED
        BY <1>2, <2>2, <4>1, <4>5 DEF ClaimInv, HoldsFile
    <3> QED
      BY <1>8, <3>1, <3>2, <3>3
  <2> QED
    BY <2>1, <2>2
<1> QED
  BY <1>3, <1>4, <1>5, <1>6, <1>8, <1>9

\* A thread opens its file.
LEMMA OpenedFully ==
  ASSUME TypeInv, NEW w \in Worker, OpenInput(w)
  PROVE  \/ /\ pc' = [pc EXCEPT ![w] = "throw"]
            /\ UNCHANGED input
         \/ /\ pc' = [pc EXCEPT ![w] = "read"]
            /\ \E i : /\ input' = [input EXCEPT ![w] = i]
                      /\ FullInput(i, Due(chunk, file[w]))
<1> DEFINE f == CurrentFile(w)
           D == {m \in MessagesOf(f) : InRange(chunk, m)}
<1>1. f \in File /\ D = Due(chunk, file[w])
  <2>1. pc[w] = "open"
    BY DEF OpenInput
  <2>2. file[w] \in 1..Len(Files) /\ chunk \in 1..Len(planned)
    BY <2>1 DEF TypeInv, Control, HoldsFile
  <2>3. Files[file[w]] \in File
    BY <2>2, FilesType, ElementOfSeq DEF TypeInv
  <2> QED
    BY <2>3 DEF CurrentFile, Files, Due
<1>2. \A i \in ParseInputs(chunk, f) \cup CacheInputs(chunk, f) : FullInput(i, D)
  BY <1>1, InputHasEach
<1>3. \A s \in CacheStreams(chunk, MessagesOf(f)) : FullInput(Reading(s, TRUE, TRUE), D)
  BY <1>1, StreamHasEach DEF FullInput, Reading
<1> HIDE DEF D, f
<1>4. CASE f \in forced
  <2>1. \E i \in ParseInputs(chunk, f) : input' = [input EXCEPT ![w] = i]
    BY <1>4 DEF OpenInput, f
  <2>2. pc' = [pc EXCEPT ![w] = "read"]
    BY <1>4 DEF OpenInput, Goto, f
  <2> QED
    BY <1>1, <1>2, <2>1, <2>2
<1>5. CASE f \notin forced /\ cache[f] # "absent"
  <2>1. \E i \in CacheInputs(chunk, f) : input' = [input EXCEPT ![w] = i]
    BY <1>5 DEF OpenInput, f
  <2>2. pc' = [pc EXCEPT ![w] = "read"]
    BY <1>5 DEF OpenInput, Goto, f
  <2> QED
    BY <1>1, <1>2, <2>1, <2>2
<1>6. CASE f \notin forced /\ cache[f] = "absent"
  <2>1. \/ /\ \E i \in ParseInputs(chunk, f) : input' = [input EXCEPT ![w] = i]
           /\ Goto(w, "read")
        \/ /\ \E i \in {Reading(s, TRUE, TRUE) : s \in CacheStreams(chunk, MessagesOf(f))} :
                input' = [input EXCEPT ![w] = i]
           /\ Goto(w, "read")
        \/ Goto(w, "throw") /\ UNCHANGED input
    BY <1>6 DEF OpenInput, f
  <2> QED
    BY <1>1, <1>2, <1>3, <2>1 DEF Goto
<1> QED
  BY <1>4, <1>5, <1>6

\* Leaving the handler changes only where the messages left are counted from.
LEMMA LeaveKeepsLeft ==
  ASSUME TypeInv, NEW w \in Worker, LeaveHandler(w)
  PROVE  Left(w)' = Left(w) /\ input'[w].ok = input[w].ok
<1> DEFINE i == input[w]
           rest == SubSeq(i.todo, Len(Batch(i)) + 1, Len(i.todo))
<1>1. /\ pc \in [Worker -> WorkerLabel] /\ input \in [Worker -> Input] /\ i \in Input
  BY DEF TypeInv, TypeOK
<1>2. /\ pc[w] = "handle" /\ pc'[w] = "read" /\ BatchReady(i)
      /\ input'[w].todo = rest /\ input'[w].ok = i.ok
  BY <1>1 DEF LeaveHandler, Goto, TypeInv, Control, Input
<1>3. rest \in Seq(Message) /\ RangeOf(rest) = TodoFrom(i, BatchLength(i))
  BY <1>1, <1>2, BatchCut
<1>4. Left(w) = TodoFrom(i, BatchLength(i))
  BY <1>2 DEF Left, Begun
<1>5. Left(w)' = {input'[w].todo[j] : j \in 1..Len(input'[w].todo)}
  <2>1. Begun(w)' = 0 /\ 0 + 1 = 1
    BY <1>2 DEF Begun
  <2>2. Left(w)' = TodoFrom(input'[w], Begun(w)')
    BY <1>2 DEF Left
  <2> QED
    BY <2>1, <2>2 DEF TodoFrom
<1>6. DOMAIN rest = 1..Len(rest)
  BY <1>3, LenProperties
<1> HIDE DEF rest
<1> QED
  BY <1>2, <1>3, <1>4, <1>5, <1>6 DEF RangeOf

\* The parser threads.
LEMMA UniqueWorker ==
  ASSUME TypeInv, ClaimInv, PlanInv, UniqueInv, NEW w \in Worker, WorkerStep(w)
  PROVE  UniqueInv'
<1> USE DEF run, plan, disk, claims, delivery
<1>1. /\ pc \in [Worker -> WorkerLabel] /\ file \in [Worker -> Nat] /\ input \in [Worker -> Input]
      /\ delivered \in Seq(Message) /\ next_file_index \in Nat \ {0}
      /\ input[w] \in Input
  BY DEF TypeInv, TypeOK
<1>2. UNCHANGED <<options, main, planned, chunk>> /\ pc[w] # "exited" /\ main = "join"
  BY DEF WorkerStep, TypeInv, Control, ClaimFile, OpenInput, EnterHandler, RejectBatch,
         LeaveHandler, HandlerThrows, EndTraversal, RecordFile, StoreError
<1>3. /\ chunk \in 1..Len(planned) /\ Files \in Seq(File) /\ Len(Files) \in Nat
      /\ \A c, n : Due(c, n)' = Due(c, n)
  BY <1>2, FilesType DEF TypeInv, Control, Due
<1>4. next_file_index' \in Int /\ next_file_index' >= next_file_index
  <2>1. next_file_index' = next_file_index \/ next_file_index' = next_file_index + 1
    BY DEF WorkerStep, ClaimFile, OpenInput, EnterHandler, RejectBatch, LeaveHandler,
           HandlerThrows, EndTraversal, RecordFile, StoreError
  <2> QED
    BY <1>1, <2>1
<1>5. \A m : WasDue(m) => WasDue(m)'
  <2> SUFFICES ASSUME NEW m, NEW c \in 1..Len(planned), NEW n \in 1..Len(planned[c]),
                      m \in Due(c, n), c < chunk \/ (c = chunk /\ n < next_file_index)
               PROVE  /\ m \in Due(c, n)'
                      /\ c < chunk \/ (c = chunk /\ n < next_file_index')
    BY <1>2 DEF WasDue
  <2>1. Len(planned[c]) \in Nat
    <3>1. planned[c] \in Seq(File)
      BY ElementOfSeq DEF TypeInv, TypeOK
    <3> QED
      BY <3>1, LenProperties
  <2>2. n < next_file_index => n < next_file_index'
    <3>1. \A a, b, c1 \in Int : a < b /\ c1 >= b => a < c1
      OBVIOUS
    <3>2. n \in Int
      OBVIOUS
    <3> QED
      BY <1>1, <1>4, <3>1, <3>2
  <2> QED
    BY <1>3, <2>2
\* A step that hands out nothing.
<1>6. ASSUME UNCHANGED delivered, \A v \in Worker \ {w} : UNCHANGED <<pc[v], input[v], file[v]>>,
             pc'[w] \in {"read", "handle"} =>
               Distinct(input'[w].todo) /\ RangeOf(input'[w].todo) \subseteq Due(chunk, file'[w]),
             Left(w)' \cap RangeOf(delivered) = {}
      PROVE  UniqueInv'
  <2>1. \A v \in Worker \ {w} : Left(v)' = Left(v)
    <3> SUFFICES ASSUME NEW v \in Worker \ {w} PROVE Left(v)' = Left(v)
      OBVIOUS
    <3>1. UNCHANGED <<pc[v], input[v], file[v], chunk, planned>>
      BY <1>2, <1>6
    <3> QED
      BY <3>1 DEF Left, Begun, TodoFrom, BatchLength, Due
  <2>2. \A v \in Worker : Left(v)' \cap RangeOf(delivered) = {}
    BY <1>6, <2>1 DEF UniqueInv
  <2>3. \A v \in Worker : pc'[v] \in {"read", "handle"} =>
          Distinct(input'[v].todo) /\ RangeOf(input'[v].todo) \subseteq Due(chunk, file'[v])
    BY <1>6 DEF UniqueInv
  <2>4. \A m \in RangeOf(delivered) : WasDue(m)'
    BY <1>5 DEF UniqueInv
  <2> QED
    BY <1>2, <1>3, <1>6, <2>2, <2>3, <2>4 DEF UniqueInv
<1>7. CASE ClaimFile(w) /\ next_file_index > Len(Files)
  <2>1. UNCHANGED <<delivered, input, file>> /\ pc' = [pc EXCEPT ![w] = "exited"]
    BY <1>7 DEF ClaimFile, Goto
  <2>2. pc'[w] = "exited" /\ \A v \in Worker \ {w} : UNCHANGED pc[v]
    BY <1>1, <2>1
  <2> QED
    BY <1>6, <2>1, <2>2 DEF Left
<1>8. CASE ClaimFile(w) /\ ~(next_file_index > Len(Files))
  <2> DEFINE n == next_file_index
  <2>1. /\ UNCHANGED <<delivered, input>> /\ pc' = [pc EXCEPT ![w] = "open"]
        /\ file' = [file EXCEPT ![w] = n]
    BY <1>8 DEF ClaimFile, Goto
  <2>2. /\ pc'[w] = "open" /\ file'[w] = n
        /\ \A v \in Worker \ {w} : UNCHANGED <<pc[v], input[v], file[v]>>
    BY <1>1, <2>1
  <2>3. n \in 1..Len(planned[chunk])
    BY <1>1, <1>3, <1>8 DEF Files
  <2>4. Left(w)' = Due(chunk, n)
    BY <1>2, <1>3, <2>2 DEF Left
  <2>5. ASSUME NEW m \in Due(chunk, n), m \in RangeOf(delivered)
        PROVE  FALSE
    <3>1. PICK c \in 1..Len(planned) : \E k \in 1..Len(planned[c]) :
            /\ m \in Due(c, k)
            /\ c < chunk \/ (c = chunk /\ main \in {"join", "failed"} /\ k < next_file_index)
      BY <2>5 DEF UniqueInv, WasDue
    <3>4. PICK k \in 1..Len(planned[c]) :
            /\ m \in Due(c, k)
            /\ c < chunk \/ (c = chunk /\ main \in {"join", "failed"} /\ k < next_file_index)
      BY <3>1
    <3>2. c = chunk /\ k = n
      BY <1>3, <2>3, <2>5, <3>4, DueOnce
    <3>3. ~(c < chunk) /\ ~(k < next_file_index)
      BY <1>1, <1>3, <3>2
    <3> QED
      BY <3>4, <3>3
  <2> QED
    BY <1>6, <2>1, <2>2, <2>4, <2>5
<1>9. CASE OpenInput(w)
  <2>1. UNCHANGED <<delivered, file>> /\ pc[w] = "open"
    BY <1>9 DEF OpenInput
  <2>2. Due(chunk, file[w]) \cap RangeOf(delivered) = {}
    BY <2>1 DEF UniqueInv, Left
  <2>3. CASE pc' = [pc EXCEPT ![w] = "throw"] /\ UNCHANGED input
    <3>1. pc'[w] = "throw" /\ \A v \in Worker \ {w} : UNCHANGED pc[v]
      BY <1>1, <2>3
    <3> QED
      BY <1>6, <2>1, <2>3, <3>1 DEF Left
  <2>4. ASSUME pc' = [pc EXCEPT ![w] = "read"], NEW i, input' = [input EXCEPT ![w] = i],
               FullInput(i, Due(chunk, file[w]))
        PROVE  UniqueInv'
    <3>1. /\ pc'[w] = "read" /\ input'[w] = i
          /\ \A v \in Worker \ {w} : UNCHANGED <<pc[v], input[v]>>
      BY <1>1, <2>4
    <3>2. Distinct(i.todo) /\ RangeOf(i.todo) \subseteq Due(chunk, file[w])
      BY <2>4 DEF FullInput
    <3>3. Left(w)' = TodoFrom(i, 0)
      BY <3>1 DEF Left, Begun, TodoFrom
    <3>4. i.todo \in Seq(Message)
      <4>1. input' \in [Worker -> Input]
        <5>1. TypeInv'
          BY TypeWorker
        <5> QED
          BY <5>1 DEF TypeInv, TypeOK
      <4> QED
        BY <3>1, <4>1 DEF Input
    <3>5. TodoFrom(i, 0) = RangeOf(i.todo)
      BY <3>4, LenProperties DEF TodoFrom, RangeOf
    <3>6. Left(w)' \cap RangeOf(delivered) = {}
      BY <2>2, <3>2, <3>3, <3>5
    <3> QED
      BY <1>6, <2>1, <3>1, <3>2, <3>6
  <2> QED
    BY <1>9, <2>3, <2>4, OpenedFully
<1>10. CASE EnterHandler(w)
  <2>1. UNCHANGED <<input, file>> /\ pc' = [pc EXCEPT ![w] = "handle"] /\ pc[w] = "read"
    BY <1>10 DEF EnterHandler, Goto
  <2>2. /\ Distinct(delivered)'
        /\ RangeOf(delivered') = RangeOf(delivered) \cup RangeOf(Batch(input[w]))
        /\ RangeOf(Batch(input[w])) \subseteq Due(chunk, file[w])
        /\ \A v \in Worker : Left(v)' \cap RangeOf(delivered') = {}
    BY <1>10, UniqueBatch
  <2>3. \A v \in Worker : pc'[v] \in {"read", "handle"} => pc[v] \in {"read", "handle"}
    BY <1>1, <2>1
  <2>4. \A v \in Worker : pc'[v] \in {"read", "handle"} =>
          Distinct(input'[v].todo) /\ RangeOf(input'[v].todo) \subseteq Due(chunk, file'[v])
    BY <2>1, <2>3 DEF UniqueInv
  <2>5. file[w] \in 1..Len(planned[chunk]) /\ file[w] < next_file_index
    BY <2>1 DEF TypeInv, Control, HoldsFile, ClaimInv, Files
  <2>6. \A m \in Due(chunk, file[w]) : WasDue(m)
    BY <1>2, <1>3, <2>5 DEF WasDue
  <2>7. \A m \in RangeOf(delivered') : WasDue(m)'
    BY <1>5, <2>2, <2>6 DEF UniqueInv
  <2> QED
    BY <1>2, <1>3, <2>2, <2>4, <2>7 DEF UniqueInv
<1>11. CASE LeaveHandler(w)
  <2> DEFINE i == input[w]
             rest == SubSeq(i.todo, Len(Batch(i)) + 1, Len(i.todo))
  <2>1. /\ UNCHANGED <<delivered, file>> /\ pc[w] = "handle" /\ pc' = [pc EXCEPT ![w] = "read"]
        /\ BatchReady(i)
    BY <1>11 DEF LeaveHandler, Goto, TypeInv, Control
  <2>2. /\ pc'[w] = "read" /\ input'[w].todo = rest
        /\ \A v \in Worker \ {w} : UNCHANGED <<pc[v], input[v]>>
    BY <1>1, <1>11, <2>1 DEF LeaveHandler, Input
  <2>3. Distinct(i.todo) /\ RangeOf(i.todo) \subseteq Due(chunk, file[w])
    BY <2>1 DEF UniqueInv
  <2>4. /\ Distinct(rest) /\ rest \in Seq(Message)
        /\ RangeOf(rest) = TodoFrom(i, BatchLength(i))
        /\ TodoFrom(i, BatchLength(i)) \subseteq RangeOf(i.todo)
    BY <1>1, <2>1, <2>3, BatchCut
  <2>5. Left(w)' \cap RangeOf(delivered) = {}
    BY <1>11, LeaveKeepsLeft DEF UniqueInv
  <2> HIDE DEF rest
  <2> QED
    BY <1>6, <2>1, <2>2, <2>3, <2>4, <2>5
<1>12. CASE RejectBatch(w) \/ HandlerThrows(w) \/ EndTraversal(w) \/ RecordFile(w) \/ StoreError(w)
  <2>1. /\ UNCHANGED <<delivered, file>> /\ pc'[w] \in {"throw", "record", "claim", "exited"}
        /\ \A v \in Worker \ {w} : UNCHANGED <<pc[v], input[v]>>
    BY <1>1, <1>12 DEF RejectBatch, HandlerThrows, EndTraversal, RecordFile, StoreError, Goto
  <2> QED
    BY <1>6, <2>1 DEF Left
<1> QED
  BY <1>7, <1>8, <1>9, <1>10, <1>11, <1>12 DEF WorkerStep

LEMMA UniqueStep == TypeInv /\ ClaimInv /\ PlanInv /\ UniqueInv /\ [Next]_vars => UniqueInv'
<1> SUFFICES ASSUME TypeInv, ClaimInv, PlanInv, UniqueInv, [Next]_vars PROVE UniqueInv'
  OBVIOUS
<1>1. CASE UNCHANGED vars
  BY <1>1 DEF UniqueInv, WasDue, Left, Begun, TodoFrom, BatchLength, Due, vars, run, plan, work,
              claims, delivery
<1> QED
  BY <1>1, UniqueMain, UniqueWorker DEF Next, Stopped

LEMMA UniqueInit == Init => UniqueInv
<1> SUFFICES ASSUME Init PROVE UniqueInv
  OBVIOUS
<1>1. /\ delivered = <<>> /\ RangeOf(delivered) = {} /\ Len(delivered) = 0
      /\ \A w \in Worker : pc[w] = "exited"
  BY EmptySeq DEF Init, RangeOf
<1> QED
  BY <1>1 DEF UniqueInv, Distinct

-----------------------------------------------------------------------------
(* All messages.                                                           *)

\* Nothing due is forgotten: the files of the chunks that are done are delivered; a file in hand is
\* delivered but for what its thread has left, unless the traversal is going to fail; and a claimed
\* file is delivered or in hand, until an error is stored.
CompleteInv ==
  /\ main = "plan" => chunk = 0
  /\ \A c \in 1..Len(planned) : c < chunk =>
       \A n \in 1..Len(planned[c]) : Due(c, n) \subseteq RangeOf(delivered)
  /\ \A w \in Worker :
       pc[w] \in {"open", "record"} \/ (pc[w] \in {"read", "handle"} /\ input[w].ok) =>
         Due(chunk, file[w]) \subseteq RangeOf(delivered) \cup Left(w)
  /\ main = "join" /\ ~fatal_error =>
       \A n \in 1..Len(Files) : n < next_file_index =>
         \/ Due(chunk, n) \subseteq RangeOf(delivered)
         \/ \E w \in Worker : pc[w] \in HoldsFile /\ file[w] = n

LEMMA CompleteMain ==
  ASSUME TypeInv, ClaimInv, CompleteInv, MainStep
  PROVE  CompleteInv'
<1> USE DEF run, plan, disk, claims, delivery, work
<1>1. /\ \A w \in Worker : pc[w] = "exited" /\ pc'[w] \in {"claim", "exited"}
      /\ UNCHANGED delivered
  BY NothingLeft
<1>2. /\ chunk \in Nat /\ Len(planned) \in Nat
      /\ main \in {"require", "inspect", "start", "join"} => chunk \in 1..Len(planned)
  BY LenProperties DEF TypeInv, TypeOK, Control
<1>3. ASSUME main' = "plan" => chunk' = 0,
             \A c \in 1..Len(planned') : c < chunk' =>
               \A n \in 1..Len(planned'[c]) : Due(c, n)' \subseteq RangeOf(delivered),
             main' = "join" => next_file_index' = 1
      PROVE  CompleteInv'
  <2>1. main' = "join" => \A n \in 1..Len(Files)' : ~(n < next_file_index')
    BY <1>3
  <2> QED
    BY <1>1, <1>3, <2>1 DEF CompleteInv
<1>4. CASE PlanChunk \/ EndPlan
  <2>1. chunk' \in {0, 1} /\ (main' = "plan" => chunk' = 0) /\ main' # "join"
    BY <1>4 DEF PlanChunk, EndPlan, CompleteInv
  <2>2. \A c \in 1..Len(planned') : ~(c < chunk')
    BY <2>1
  <2> QED
    BY <1>3, <2>1, <2>2
<1>5. ASSUME UNCHANGED planned, main' # "plan", main' = "join" => next_file_index' = 1,
             UNCHANGED chunk \/ (/\ chunk' = chunk + 1
                                 /\ \A n \in 1..Len(planned[chunk]) :
                                      Due(chunk, n) \subseteq RangeOf(delivered))
      PROVE  CompleteInv'
  <2>1. ASSUME NEW c \in 1..Len(planned), c < chunk', NEW n \in 1..Len(planned[c])
        PROVE  Due(c, n) \subseteq RangeOf(delivered)
    <3>1. CASE c < chunk
      BY <3>1 DEF CompleteInv
    <3>2. CASE ~(c < chunk)
      <4>1. c = chunk /\ chunk' = chunk + 1
        BY <1>2, <1>5, <2>1, <3>2
      <4> QED
        BY <1>2, <1>5, <4>1
    <3> QED
      BY <3>1, <3>2
  <2>2. \A c, n : Due(c, n)' = Due(c, n)
    BY <1>5 DEF Due
  <2> QED
    BY <1>3, <1>5, <2>1, <2>2
<1>6. CASE BeginChunk \/ RequireSources \/ RecoverCaches \/ Finalize
  <2>1. UNCHANGED <<planned, chunk>> /\ main' \notin {"plan", "join"}
    BY <1>6 DEF BeginChunk, RequireSources, RecoverCaches, Finalize
  <2> QED
    BY <1>5, <2>1
<1>7. CASE StartWorkers /\ Files = <<>>
  <2>1. UNCHANGED planned /\ main' = "chunk" /\ chunk' = chunk + 1
    BY <1>7 DEF StartWorkers
  <2>2. Len(planned[chunk]) = 0
    BY <1>7, EmptySeq DEF Files
  <2> QED
    BY <1>5, <2>1, <2>2
<1>8. CASE StartWorkers /\ Files # <<>>
  <2>1. UNCHANGED <<planned, chunk>> /\ main' = "join" /\ next_file_index' = 1
    BY <1>8 DEF StartWorkers, FirstFile
  <2> QED
    BY <1>5, <2>1
<1>9. CASE JoinWorkers /\ fatal_error
  <2>1. UNCHANGED <<planned, chunk>> /\ main' = "failed"
    BY <1>9 DEF JoinWorkers, ChunkFailed
  <2> QED
    BY <1>5, <2>1
<1>10. CASE JoinWorkers /\ ~fatal_error
  <2>1. UNCHANGED planned /\ main' = "chunk" /\ chunk' = chunk + 1 /\ main = "join" /\ AllJoined
    BY <1>10 DEF JoinWorkers, ChunkFailed
  <2>2. next_file_index > Len(Files) /\ Len(Files) \in Nat /\ next_file_index \in Nat
    BY <1>10, <2>1, AllClaimed DEF TypeInv, TypeOK
  <2>3. \A n \in 1..Len(Files) : n < next_file_index
    BY <2>2
  <2>4. \A w \in Worker : pc[w] \notin HoldsFile
    BY <2>1 DEF AllJoined, HoldsFile
  <2>5. \A n \in 1..Len(planned[chunk]) : Due(chunk, n) \subseteq RangeOf(delivered)
    BY <1>10, <2>1, <2>3, <2>4 DEF CompleteInv, Files
  <2> QED
    BY <1>5, <2>1, <2>5
<1> QED
  BY <1>4, <1>6, <1>7, <1>8, <1>9, <1>10 DEF MainStep

LEMMA CompleteWorker ==
  ASSUME TypeInv, ClaimInv, PlanInv, UniqueInv, CompleteInv, NEW w \in Worker, WorkerStep(w)
  PROVE  CompleteInv'
<1> USE DEF run, plan, disk, claims, delivery
<1> DEFINE Complete(v) ==
             pc[v] \in {"open", "record"} \/ (pc[v] \in {"read", "handle"} /\ input[v].ok) =>
               Due(chunk, file[v]) \subseteq RangeOf(delivered) \cup Left(v)
           DoneOrHeld(n) ==
             \/ Due(chunk, n) \subseteq RangeOf(delivered)
             \/ \E v \in Worker : pc[v] \in HoldsFile /\ file[v] = n
<1>1. /\ pc \in [Worker -> WorkerLabel] /\ file \in [Worker -> Nat] /\ input \in [Worker -> Input]
      /\ next_file_index \in Nat \ {0} /\ input[w] \in Input
  BY DEF TypeInv, TypeOK
<1>2. UNCHANGED <<options, main, planned, chunk>> /\ pc[w] # "exited" /\ main = "join"
  BY DEF WorkerStep, TypeInv, Control, ClaimFile, OpenInput, EnterHandler, RejectBatch,
         LeaveHandler, HandlerThrows, EndTraversal, RecordFile, StoreError
<1>3. /\ Len(Files) \in Nat /\ Files' = Files
      /\ \A c, n : Due(c, n)' = Due(c, n)
  BY <1>2, FilesType DEF TypeInv, Control, Due, Files
<1>4. RangeOf(delivered) \subseteq RangeOf(delivered')
  <2>1. CASE EnterHandler(w)
    BY <2>1, UniqueBatch
  <2>2. CASE ~EnterHandler(w)
    BY <2>2 DEF WorkerStep, ClaimFile, OpenInput, RejectBatch, LeaveHandler, HandlerThrows,
                EndTraversal, RecordFile, StoreError
  <2> QED
    BY <2>1, <2>2
<1>5. ASSUME \A v \in Worker \ {w} : UNCHANGED <<pc[v], input[v], file[v]>>,
             Complete(w)',
             ~fatal_error' => \A n \in 1..Len(Files) : n < next_file_index' => DoneOrHeld(n)'
      PROVE  CompleteInv'
  <2>1. ASSUME NEW v \in Worker
        PROVE  Complete(v)'
    <3>1. CASE v = w
      BY <1>5, <3>1
    <3>2. CASE v # w
      <4>1. UNCHANGED <<pc[v], input[v], file[v], chunk, planned>>
        BY <1>2, <1>5, <3>2
      <4>2. Left(v)' = Left(v) /\ Due(chunk, file[v])' = Due(chunk, file[v])
        BY <4>1 DEF Left, Begun, TodoFrom, BatchLength, Due
      <4>3. Complete(v)
        BY DEF CompleteInv
      <4> QED
        BY <1>4, <4>1, <4>2, <4>3
    <3> QED
      BY <3>1, <3>2
  <2>2. \A c \in 1..Len(planned) : c < chunk =>
          \A n \in 1..Len(planned[c]) : Due(c, n)' \subseteq RangeOf(delivered')
    BY <1>3, <1>4 DEF CompleteInv
  <2> QED
    BY <1>2, <1>3, <1>5, <2>1, <2>2 DEF CompleteInv
\* A step that keeps the claims.
<1>6. ASSUME UNCHANGED claims, fatal_error => fatal_error',
             \A v \in Worker \ {w} : UNCHANGED <<pc[v], input[v]>>,
             Complete(w)',
             pc'[w] \in HoldsFile \/ fatal_error' \/ Due(chunk, file[w]) \subseteq RangeOf(delivered')
      PROVE  CompleteInv'
  <2>1. ASSUME ~fatal_error', NEW n \in 1..Len(Files), n < next_file_index'
        PROVE  DoneOrHeld(n)'
    <3>1. DoneOrHeld(n)
      BY <1>2, <1>6, <2>1 DEF CompleteInv
    <3>2. CASE Due(chunk, n) \subseteq RangeOf(delivered)
      BY <1>2, <1>3, <1>4, <3>2
    <3>3. ASSUME NEW v \in Worker, pc[v] \in HoldsFile, file[v] = n
          PROVE  DoneOrHeld(n)'
      <4>1. CASE v = w
        BY <1>2, <1>3, <1>6, <2>1, <3>3, <4>1
      <4>2. CASE v # w
        BY <1>6, <3>3, <4>2
      <4> QED
        BY <4>1, <4>2
    <3> QED
      BY <3>1, <3>2, <3>3
  <2> QED
    BY <1>5, <1>6, <2>1
<1>7. CASE ClaimFile(w) /\ next_file_index > Len(Files)
  <2>1. /\ UNCHANGED <<input, file, fatal_error, delivered>> /\ pc' = [pc EXCEPT ![w] = "exited"]
        /\ pc[w] = "claim"
    BY <1>7 DEF ClaimFile, Goto
  <2>2. pc'[w] = "exited" /\ \A v \in Worker \ {w} : UNCHANGED pc[v]
    BY <1>1, <2>1
  <2>3. \A v \in Worker : pc[v] \in HoldsFile => pc'[v] \in HoldsFile
    BY <2>1, <2>2 DEF HoldsFile
  <2>4. \A n \in 1..Len(Files) : n < next_file_index
    BY <1>1, <1>3, <1>7
  <2>5. ~fatal_error' => \A n \in 1..Len(Files) : DoneOrHeld(n)
    BY <1>2, <2>1, <2>4 DEF CompleteInv
  <2>6. \A n : DoneOrHeld(n) => DoneOrHeld(n)'
    BY <1>2, <1>3, <2>1, <2>3
  <2> QED
    BY <1>5, <2>1, <2>2, <2>5, <2>6
<1>8. CASE ClaimFile(w) /\ ~(next_file_index > Len(Files))
  <2>1. /\ UNCHANGED <<input, fatal_error, delivered>> /\ pc' = [pc EXCEPT ![w] = "open"]
        /\ file' = [file EXCEPT ![w] = next_file_index] /\ next_file_index' = next_file_index + 1
        /\ pc[w] = "claim"
    BY <1>8 DEF ClaimFile, Goto
  <2>2. /\ file'[w] = next_file_index /\ pc'[w] = "open"
        /\ \A v \in Worker \ {w} : UNCHANGED <<pc[v], input[v], file[v]>>
    BY <1>1, <2>1
  <2>3. Left(w)' = Due(chunk, file[w])'
    BY <2>2 DEF Left
  <2>4. ASSUME ~fatal_error', NEW n \in 1..Len(Files), n < next_file_index'
        PROVE  DoneOrHeld(n)'
    <3>1. CASE n = next_file_index
      BY <2>2, <3>1 DEF HoldsFile
    <3>2. CASE n < next_file_index
      <4>1. DoneOrHeld(n)
        BY <1>2, <2>1, <2>4, <3>2 DEF CompleteInv
      <4>2. \A v \in Worker : pc[v] \in HoldsFile => v # w
        BY <2>1 DEF HoldsFile
      <4> QED
        BY <1>2, <1>3, <2>1, <2>2, <4>1, <4>2
    <3> QED
      BY <1>1, <2>1, <2>4, <3>1, <3>2
  <2> QED
    BY <1>5, <2>2, <2>3, <2>4
<1>9. CASE OpenInput(w)
  <2>1. UNCHANGED <<claims, fatal_error>> /\ pc[w] = "open"
    BY <1>9 DEF OpenInput
  <2>2. CASE pc' = [pc EXCEPT ![w] = "throw"] /\ UNCHANGED input
    <3>1. pc'[w] = "throw" /\ \A v \in Worker \ {w} : UNCHANGED <<pc[v], input[v]>>
      BY <1>1, <2>2
    <3> QED
      BY <1>6, <2>1, <3>1 DEF HoldsFile
  <2>3. ASSUME pc' = [pc EXCEPT ![w] = "read"], NEW i, input' = [input EXCEPT ![w] = i],
               FullInput(i, Due(chunk, file[w]))
        PROVE  CompleteInv'
    <3>1. /\ pc'[w] = "read" /\ input'[w] = i
          /\ \A v \in Worker \ {w} : UNCHANGED <<pc[v], input[v]>>
      BY <1>1, <2>3
    <3>2. Left(w)' = {i.todo[j] : j \in 1..Len(i.todo)}
      <4>1. Begun(w)' = 0 /\ 0 + 1 = 1
        BY <3>1 DEF Begun
      <4>2. Left(w)' = TodoFrom(input'[w], Begun(w)')
        BY <3>1 DEF Left
      <4> QED
        BY <3>1, <4>1, <4>2 DEF TodoFrom
    <3>3. i.todo \in Seq(Message)
      <4>1. TypeInv'
        BY TypeWorker
      <4>2. input'[w] \in Input
        BY <4>1 DEF TypeInv, TypeOK
      <4> QED
        BY <3>1, <4>2 DEF Input
    <3>4. Left(w)' = RangeOf(i.todo)
      BY <3>2, <3>3, LenProperties DEF RangeOf
    <3>5. i.ok => Due(chunk, file[w]) \subseteq Left(w)'
      BY <2>3, <3>4 DEF FullInput
    <3>6. Complete(w)'
      BY <1>2, <1>3, <2>1, <3>1, <3>5
    <3> QED
      BY <1>6, <2>1, <3>1, <3>6 DEF HoldsFile
  <2> QED
    BY <1>9, <2>2, <2>3, OpenedFully
<1>10. CASE EnterHandler(w)
  <2>1. /\ UNCHANGED <<claims, fatal_error, input>> /\ pc[w] = "read" /\ pc'[w] = "handle"
        /\ \A v \in Worker \ {w} : UNCHANGED <<pc[v], input[v]>>
    BY <1>1, <1>10 DEF EnterHandler, Goto
  <2>2. /\ RangeOf(delivered') = RangeOf(delivered) \cup RangeOf(Batch(input[w]))
        /\ RangeOf(Batch(input[w])) \cup Left(w)' = Left(w)
    BY <1>10, UniqueBatch
  <2>3. input[w].ok => Due(chunk, file[w]) \subseteq RangeOf(delivered) \cup Left(w)
    BY <2>1 DEF CompleteInv
  <2>4. Complete(w)'
    BY <1>2, <1>3, <2>1, <2>2, <2>3
  <2> QED
    BY <1>6, <2>1, <2>4 DEF HoldsFile
<1>11. CASE LeaveHandler(w)
  <2>1. /\ UNCHANGED <<claims, fatal_error, delivered>> /\ pc[w] = "handle" /\ pc'[w] = "read"
        /\ \A v \in Worker \ {w} : UNCHANGED <<pc[v], input[v]>>
    BY <1>1, <1>11 DEF LeaveHandler, Goto
  <2>2. Left(w)' = Left(w) /\ input'[w].ok = input[w].ok
    BY <1>11, LeaveKeepsLeft
  <2>3. input[w].ok => Due(chunk, file[w]) \subseteq RangeOf(delivered) \cup Left(w)
    BY <2>1 DEF CompleteInv
  <2>4. Complete(w)'
    BY <1>2, <1>3, <2>1, <2>2, <2>3
  <2> QED
    BY <1>6, <2>1, <2>4 DEF HoldsFile
<1>12. CASE RejectBatch(w) \/ HandlerThrows(w) \/ (EndTraversal(w) /\ ~input[w].ok)
  <2>1. /\ UNCHANGED <<claims, fatal_error>> /\ pc'[w] = "throw"
        /\ \A v \in Worker \ {w} : UNCHANGED <<pc[v], input[v]>>
    BY <1>1, <1>12 DEF RejectBatch, HandlerThrows, EndTraversal, Goto
  <2> QED
    BY <1>6, <2>1 DEF HoldsFile
<1>13. CASE EndTraversal(w) /\ input[w].ok
  <2>1. /\ UNCHANGED <<claims, fatal_error, delivered>> /\ pc[w] = "read" /\ pc'[w] = "record"
        /\ \A v \in Worker \ {w} : UNCHANGED <<pc[v], input[v]>>
    BY <1>1, <1>13 DEF EndTraversal, Goto
  <2>2. Left(w) = {}
    <3>1. input[w].todo = <<>>
      BY <1>13 DEF EndTraversal, BatchReady
    <3>2. Begun(w) = 0 /\ Len(input[w].todo) = 0
      BY <2>1, <3>1, EmptySeq DEF Begun
    <3>3. Left(w) = TodoFrom(input[w], 0)
      BY <2>1, <3>2 DEF Left
    <3> QED
      BY <3>2, <3>3 DEF TodoFrom
  <2>3. Due(chunk, file[w]) \subseteq RangeOf(delivered)
    BY <1>13, <2>1, <2>2 DEF CompleteInv
  <2>4. Complete(w)'
    BY <1>2, <1>3, <2>1, <2>3
  <2> QED
    BY <1>6, <2>1, <2>4 DEF HoldsFile
<1>14. CASE RecordFile(w)
  <2>1. /\ UNCHANGED <<claims, fatal_error, delivered>> /\ pc[w] = "record" /\ pc'[w] = "claim"
        /\ \A v \in Worker \ {w} : UNCHANGED <<pc[v], input[v]>>
    BY <1>1, <1>14 DEF RecordFile, Goto
  <2>2. Due(chunk, file[w]) \subseteq RangeOf(delivered)
    BY <2>1 DEF CompleteInv, Left
  <2> QED
    BY <1>6, <2>1, <2>2
<1>15. CASE StoreError(w)
  <2>1. /\ UNCHANGED <<claims, delivered>> /\ fatal_error' /\ pc'[w] = "exited"
        /\ \A v \in Worker \ {w} : UNCHANGED <<pc[v], input[v]>>
    BY <1>1, <1>15 DEF StoreError, Goto
  <2> QED
    BY <1>6, <2>1
<1> QED
  BY <1>7, <1>8, <1>9, <1>10, <1>11, <1>12, <1>13, <1>14, <1>15 DEF WorkerStep

LEMMA CompleteStep ==
  TypeInv /\ ClaimInv /\ PlanInv /\ UniqueInv /\ CompleteInv /\ [Next]_vars => CompleteInv'
<1> SUFFICES ASSUME TypeInv, ClaimInv, PlanInv, UniqueInv, CompleteInv, [Next]_vars
             PROVE  CompleteInv'
  OBVIOUS
<1>1. CASE UNCHANGED vars
  BY <1>1 DEF CompleteInv, Left, Begun, TodoFrom, BatchLength, Due, Files, vars, run, plan, work,
              claims, delivery
<1> QED
  BY <1>1, CompleteMain, CompleteWorker DEF Next, Stopped

LEMMA CompleteInit == Init => CompleteInv
<1> SUFFICES ASSUME Init PROVE CompleteInv
  OBVIOUS
<1>1. main = "plan" /\ chunk = 0 /\ Len(planned) = 0 /\ \A w \in Worker : pc[w] = "exited"
  BY EmptySeq DEF Init
<1> QED
  BY <1>1 DEF CompleteInv

\* What a thread or a chunk has delivered and what it still owes is exact in every state.
THEOREM DeliveryInvariant == Spec => [](PlanInv /\ UniqueInv /\ CompleteInv)
<1>1. Init => PlanInv /\ UniqueInv /\ CompleteInv
  BY PlanInit, UniqueInit, CompleteInit
<1>2. TypeInv /\ ClaimInv /\ PlanInv /\ UniqueInv /\ CompleteInv /\ [Next]_vars
        => (PlanInv /\ UniqueInv /\ CompleteInv)'
  BY PlanStep, UniqueStep, CompleteStep
<1> QED
  BY <1>1, <1>2, ClaimInvariant, TypeInvariant, PTL DEF Spec

-----------------------------------------------------------------------------
(* The promise to the processor.                                           *)

\* What has arrived was asked for.
LEMMA DeliveredIsExpected ==
  ASSUME TypeInv, PlanInv, UniqueInv
  PROVE  RangeOf(delivered) \subseteq Expected
<1> SUFFICES ASSUME NEW m \in RangeOf(delivered) PROVE m \in Expected
  OBVIOUS
<1>1. PICK c \in 1..Len(planned) : \E n \in 1..Len(planned[c]) : m \in Due(c, n)
  BY DEF UniqueInv, WasDue
<1> QED
  BY <1>1, DueIsExpected

\* After the last chunk all of it has arrived.
LEMMA ExpectedIsDelivered ==
  ASSUME TypeInv, PlanInv, CompleteInv, main = "chunk", chunk > Len(planned)
  PROVE  Expected \subseteq RangeOf(delivered)
<1> SUFFICES ASSUME NEW m \in Expected PROVE m \in RangeOf(delivered)
  OBVIOUS
<1>1. PlanComplete
  BY DEF PlanInv
<1>2. PICK c \in 1..Len(planned) : \E n \in 1..Len(planned[c]) : m \in Due(c, n)
  BY <1>1, ExpectedIsDue
<1>3. c < chunk
  BY LenProperties DEF TypeInv, TypeOK
<1> QED
  BY <1>2, <1>3 DEF CompleteInv

\* The promise's vocabulary, in the terms of the engine.
LEMMA Vocabulary ==
  ASSUME TypeInv
  PROVE  /\ Delivery!Delivered = RangeOf(delivered)
         /\ Distinct(delivered) => Delivery!NoDuplicates
         /\ options.strict /\ ChronologicalDelivery => Delivery!Chronological
<1>1. /\ delivered \in Seq(Message) /\ DOMAIN delivered = 1..Len(delivered)
      /\ Len(delivered) \in Nat
  BY LenProperties DEF TypeInv, TypeOK
<1>2. \A i \in 1..(Len(delivered) - 1) : delivered[i] \in Message /\ delivered[i + 1] \in Message
  BY <1>1, ElementOfSeq
<1>3. options.strict /\ ChronologicalDelivery => Delivery!Chronological
  BY <1>2 DEF ChronologicalDelivery, Delivery!Chronological
<1>4. Distinct(delivered) => Delivery!NoDuplicates
  BY <1>1 DEF Distinct, Delivery!NoDuplicates
<1> QED
  BY <1>3, <1>4 DEF Delivery!Delivered, RangeOf

\* What has arrived keeps the promise.
Promised ==
  /\ Delivery!Delivered \subseteq Expected
  /\ Delivery!NoDuplicates
  /\ options.strict => Delivery!Chronological

LEMMA PromiseIsKept == TypeInv /\ StrictInv /\ PlanInv /\ UniqueInv => Promised
<1> QED
  BY DeliveredIsExpected, Vocabulary DEF Promised, UniqueInv, StrictInv

LEMMA DeliveryInit == Init => Delivery!Init
<1> SUFFICES ASSUME Init PROVE Delivery!Init
  OBVIOUS
<1>1. options.strict \in BOOLEAN
  BY ConstantsOK DEF Init, Option
<1>2. Expected \in SUBSET Message
  BY DEF Expected
<1> QED
  BY <1>1, <1>2 DEF Init, Delivery!Init, Over

\* A batch handed over is a delivery.
LEMMA BatchIsDelivery ==
  ASSUME TypeInv, TypeInv', Promised', NEW w \in Worker, EnterHandler(w)
  PROVE  Delivery!Deliver
<1> DEFINE b == Batch(input[w])
<1>1. /\ UNCHANGED <<options, main>> /\ delivered' = delivered \o b
      /\ pc[w] = "read" /\ BatchReady(input[w])
  BY DEF EnterHandler, run
<1>2. main = "join" /\ ~Over /\ ~Over'
  BY <1>1 DEF TypeInv, Control, Over
<1>3. /\ delivered \in Seq(Message) /\ delivered' \in Seq(Message) /\ input[w] \in Input
  BY DEF TypeInv, TypeOK
<1>4. b \in Seq(Message) /\ Len(b) > 0 /\ Len(b) \in Nat
  BY <1>1, <1>3, BatchType, LenProperties
<1>5. Len(delivered) < Len(delivered')
  BY <1>1, <1>3, <1>4, ConcatProperties, LenProperties
<1>6. SubSeq(delivered', 1, Len(delivered)) = delivered
  <2>1. CASE Len(delivered) = 0
    <3>1. SubSeq(delivered', 1, Len(delivered)) = <<>> /\ delivered = <<>>
      BY <1>3, <2>1, SubSeqEmpty, EmptySeq
    <3> QED
      BY <3>1
  <2>2. CASE Len(delivered) # 0
    <3>1. 1 \in 1..Len(delivered) /\ Len(delivered) \in 1..Len(delivered)
      BY <1>3, <2>2, LenProperties
    <3>2. SubSeq(delivered \o b, 1, Len(delivered)) = SubSeq(delivered, 1, Len(delivered))
      BY <1>3, <1>4, <3>1, SubSeqOfConcat1
    <3> QED
      BY <1>1, <1>3, <3>2, SubSeqFull
  <2> QED
    BY <2>1, <2>2
<1>7. Expected' = Expected
  BY <1>1 DEF Expected, Requested
<1> QED
  BY <1>1, <1>2, <1>3, <1>5, <1>6, <1>7 DEF Promised, Delivery!Deliver

LEMMA DeliveryStep ==
  ASSUME TypeInv, PlanInv, UniqueInv, CompleteInv, TypeInv', Promised', [Next]_vars
  PROVE  [Delivery!Next]_(Delivery!vars)
<1> USE DEF run, plan, disk, claims, delivery, work
<1>1. UNCHANGED options
  BY DEF Next, Stopped, vars, MainStep, PlanChunk, EndPlan, BeginChunk, RequireSources,
         RecoverCaches, StartWorkers, JoinWorkers, Finalize, WorkerStep, ClaimFile, OpenInput,
         EnterHandler, RejectBatch, LeaveHandler, HandlerThrows, EndTraversal, RecordFile,
         StoreError
<1>2. Expected' = Expected
  BY <1>1 DEF Expected, Requested
<1>3. CASE MainStep
  <2>1. UNCHANGED delivered
    BY <1>3, NothingLeft
  <2>2. ~Over
    BY <1>3 DEF Over, MainStep, PlanChunk, EndPlan, BeginChunk, RequireSources, RecoverCaches,
                StartWorkers, JoinWorkers, Finalize
  <2>3. CASE main' = "failed"
    BY <1>1, <1>2, <2>1, <2>2, <2>3 DEF Over, Delivery!Next, Delivery!Abort
  <2>4. CASE main' = "done"
    <3>1. main = "chunk" /\ chunk > Len(planned)
      BY <1>3, <2>4 DEF MainStep, PlanChunk, EndPlan, BeginChunk, RequireSources, RecoverCaches,
                        StartWorkers, JoinWorkers, Finalize
    <3>2. RangeOf(delivered) = Expected
      BY <3>1, DeliveredIsExpected, ExpectedIsDelivered
    <3>3. Delivery!Delivered = Expected
      BY <3>2, Vocabulary
    <3> QED
      BY <1>1, <1>2, <2>1, <2>2, <2>4, <3>3 DEF Over, Delivery!Next, Delivery!Finish
  <2>5. CASE main' \notin {"done", "failed"}
    BY <1>1, <1>2, <2>1, <2>2, <2>5 DEF Over, Delivery!vars
  <2> QED
    BY <2>3, <2>4, <2>5
<1>4. ASSUME NEW w \in Worker, WorkerStep(w)
      PROVE  [Delivery!Next]_(Delivery!vars)
  <2>1. CASE EnterHandler(w)
    BY <2>1, BatchIsDelivery DEF Delivery!Next
  <2>2. CASE ~EnterHandler(w)
    <3>1. UNCHANGED <<main, delivered>>
      BY <1>4, <2>2 DEF WorkerStep, ClaimFile, OpenInput, RejectBatch, LeaveHandler,
                        HandlerThrows, EndTraversal, RecordFile, StoreError
    <3> QED
      BY <1>1, <1>2, <3>1 DEF Over, Delivery!vars
  <2> QED
    BY <2>1, <2>2
<1>5. CASE UNCHANGED vars
  BY <1>2, <1>5 DEF vars, Over, Delivery!vars
<1> QED
  BY <1>3, <1>4, <1>5 DEF Next, Stopped

\* The engine keeps the promise: whatever the chunks, caches, failures and threads, what the
\* processor receives are messages of the request, each at most once and in order when that was
\* asked for, a good end comes only after all of them, and nothing comes after the end.
THEOREM EngineDelivers == Spec => ImplementsDelivery
<1>1. Spec => []Promised
  BY PromiseIsKept, DeliveryInvariant, StrictInvariant, TypeInvariant, PTL
<1>2. TypeInv /\ PlanInv /\ UniqueInv /\ CompleteInv /\ TypeInv' /\ Promised' /\ [Next]_vars
        => [Delivery!Next]_(Delivery!vars)
  BY DeliveryStep
<1> QED
  BY <1>1, <1>2, DeliveryInit, DeliveryInvariant, TypeInvariant, PTL
  DEF Spec, ImplementsDelivery, Delivery!Spec
=============================================================================
