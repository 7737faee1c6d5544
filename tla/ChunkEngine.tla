----------------------------- MODULE ChunkEngine -----------------------------
(***************************************************************************)
(* The analysis engine: ChunkEngine::run and the parser threads it starts   *)
(* for every chunk (cpp/src/chunk_engine.cpp), with the choice of the input *)
(* of one file (traverse_analysis_input, cpp/src/parsed_cache.cpp).         *)
(*                                                                          *)
(* The main thread plans the chunks, then for each of them optionally       *)
(* repairs its data, starts the parser threads, joins them and goes on; the *)
(* threads claim files through a shared index and hand batches of messages  *)
(* to one processor.  A message is <<file, position in the MRT file>>; what *)
(* a file holds is a sequence of timestamps.                                *)
(***************************************************************************)
EXTENDS Integers, Sequences, FiniteSets

CONSTANTS
  File,           \* the source MRT files
  Content,        \* Content[f]: the timestamps of f, in the order of the MRT file
  ChunkRange,     \* the chunks, in order: records [start, end) of timestamps
  Targets,        \* Targets[c]: the files collect_targets selects for chunk c
  ParserWorkers,  \* analysis.parser_workers
  BatchSize,      \* analysis.message_batch_size
  Options,        \* the configurations a run may have
  FileStates      \* the <<source, cache>> states a file may start in

SourceState == {"absent", "ok", "broken"}
CacheState  == {"absent", "valid", "stale", "damaged"}

(***************************************************************************)
(* A cache can only be valid beside the readable source it was built from;  *)
(* beside a missing source any cache is stale, because the file that would  *)
(* be downloaded has another modification time.                             *)
(***************************************************************************)
PossibleFileStates ==
  {s \in SourceState \X CacheState :
     /\ s[2] = "valid" => s[1] = "ok"
     /\ s[1] = "absent" => s[2] \in {"absent", "stale"}}

Option ==
  [strict : BOOLEAN, concurrent : BOOLEAN, recover : BOOLEAN,
   parse_on_cache_miss : BOOLEAN, persist : BOOLEAN, limit : Int]

ASSUME ConstantsOK ==
  /\ IsFiniteSet(File)
  /\ Content \in [File -> Seq(Nat)]
  /\ Targets \in Seq(Seq(File))
  /\ ChunkRange \in [1..Len(Targets) -> [start : Int, end : Int]]
  /\ ParserWorkers \in Nat \ {0}
  /\ BatchSize \in Nat \ {0}
  /\ Options \subseteq Option
  /\ FileStates \subseteq PossibleFileStates

\* select_updates_for_range names every file once, and split_range_by_chunks
\* cuts the range of the request into consecutive chunks.
ASSUME PlanOK ==
  \A c \in DOMAIN Targets :
    /\ \A i, j \in DOMAIN Targets[c] : Targets[c][i] = Targets[c][j] => i = j
    /\ \A d \in DOMAIN Targets : c < d => ChunkRange[c].end <= ChunkRange[d].start

Worker   == 1..ParserWorkers
Message  == UNION {{f} \X (1..Len(Content[f])) : f \in File}
Ts(m)    == Content[m[1]][m[2]]
NoTime   == -1
NoWorker == 0

VARIABLES
  options,          \* the configuration and what the processor declares
  source,           \* the MRT files on disk
  cache,            \* their .bgpcache files
  main,             \* where the main thread is in run()
  remaining_limit,  \* files the plan may still take, -1 for no limit
  planned,          \* planned_chunks: the targets of each planned chunk
  chunk,            \* index of the chunk being processed
  forced,           \* force_realtime_parse_files
  next_file_index,  \* shared index of the next file to claim
  pc,               \* where each parser thread is
  file,             \* the index of the file it claimed
  input,            \* the traversal it runs: messages left, how it ends
  processor_mutex,  \* holder of processor_mutex
  fatal_error,      \* some parser thread of this chunk threw
  last_delivered,   \* last_delivered_message_timestamp_
  delivered,        \* history: the messages handed to the processor, in order
  stats,            \* RangeProcessingStats
  finalized         \* processor_.finalize() has returned

disk     == <<source, cache>>
plan     == <<remaining_limit, planned>>
run      == <<options, main, plan, chunk, forced, finalized>>
claims   == <<next_file_index, file>>
delivery == <<last_delivered, delivered>>
work     == <<claims, pc, input, processor_mutex, fatal_error, delivery>>
vars     == <<run, disk, work, stats>>

-----------------------------------------------------------------------------
(* What a traversal hands out.                                             *)

\* Mutant of InRange: the end of the range is taken as inclusive.
InClosedRange(c, m) == ChunkRange[c].start <= Ts(m) /\ Ts(m) <= ChunkRange[c].end

InRange(c, m) == ChunkRange[c].start <= Ts(m) /\ Ts(m) < ChunkRange[c].end

\* The stable order of a cache: by timestamp, then by position in the MRT file.
CacheBefore(m, n) == Ts(m) < Ts(n) \/ (Ts(m) = Ts(n) /\ m[2] < n[2])

MessagesOf(f) == {f} \X (1..Len(Content[f]))

\* The first k messages of f in MRT order, and in cache order.
ParsePrefix(f, k) == {m \in MessagesOf(f) : m[2] <= k}
CachePrefix(f, k) ==
  {m \in MessagesOf(f) :
     Cardinality({n \in MessagesOf(f) : CacheBefore(n, m)}) < k}

Listings(S) == [1..Cardinality(S) -> S]

\* The messages of S in the chunk's range, in MRT order or in cache order.
ParseStreams(c, S) ==
  {s \in Listings({m \in S : InRange(c, m)}) :
     \A i, j \in DOMAIN s : i < j => s[i][2] < s[j][2]}
CacheStreams(c, S) ==
  {s \in Listings({m \in S : InRange(c, m)}) :
     \A i, j \in DOMAIN s : i < j => CacheBefore(s[i], s[j])}

\* A traversal: messages not yet handed out, whether it ends without an
\* exception, whether it parses the MRT file, and how many it handed out.
Input   == [todo : Seq(Message), ok : BOOLEAN, realtime : BOOLEAN, visited : Nat]
NoInput == [todo |-> <<>>, ok |-> TRUE, realtime |-> FALSE, visited |-> 0]
Reading(s, ok, realtime) ==
  [todo |-> s, ok |-> ok, realtime |-> realtime, visited |-> 0]

RangeProcessingStats ==
  [chunk_count : Nat, files_used : Nat, visited_messages : Nat,
   realtime_parsed_files : Nat]

Files       == planned[chunk]
RangeOf(s)  == {s[i] : i \in DOMAIN s}
CurrentFile(w) == Files[file[w]]

\* Mutant of Concurrent: what the processor supports is not looked at.
ConcurrentUnlessStrict == ~options.strict

Concurrent  == options.concurrent /\ ~options.strict

\* Mutant of WorkerCount: strict order does not reduce the threads to one.
WorkerCountIgnoringOrder ==
  IF Len(Files) < ParserWorkers THEN Len(Files) ELSE ParserWorkers

WorkerCount ==
  IF options.strict THEN 1
  ELSE IF Len(Files) < ParserWorkers THEN Len(Files) ELSE ParserWorkers

-----------------------------------------------------------------------------
(* ChunkEngine::run on the main thread.                                    *)

Init ==
  /\ options \in Options
  /\ \E s \in [File -> FileStates] :
       /\ source = [f \in File |-> s[f][1]]
       /\ cache = [f \in File |-> s[f][2]]
  /\ main = "plan"
  /\ remaining_limit = options.limit
  /\ planned = <<>>
  /\ chunk = 0
  /\ forced = {}
  /\ next_file_index = 1
  /\ pc = [w \in Worker |-> "exited"]
  /\ file = [w \in Worker |-> 0]
  /\ input = [w \in Worker |-> NoInput]
  /\ processor_mutex = NoWorker
  /\ fatal_error = FALSE
  /\ last_delivered = NoTime
  /\ delivered = <<>>
  /\ stats = [chunk_count |-> 0, files_used |-> 0, visited_messages |-> 0,
              realtime_parsed_files |-> 0]
  /\ finalized = FALSE

\* limited_resources: the first `limit` targets of a chunk; zero is no limit.
Limited(targets, limit) ==
  IF limit <= 0 \/ limit >= Len(targets) THEN targets ELSE SubSeq(targets, 1, limit)

PlanComplete == Len(planned) = Len(Targets) \/ remaining_limit = 0

LimitAfter(targets) ==
  IF remaining_limit > 0 THEN remaining_limit - Len(targets) ELSE remaining_limit

\* One turn of the planning loop.  The listing may be out of reach; without recovery
\* a missing source ends the run.
PlanChunk ==
  LET targets == Limited(Targets[Len(planned) + 1], remaining_limit)
  IN  /\ main = "plan"
      /\ ~PlanComplete
      /\ \/ /\ main' = "failed"
            /\ UNCHANGED plan
         \/ /\ options.recover \/ \A f \in RangeOf(targets) : source[f] # "absent"
            /\ planned' = Append(planned, targets)
            /\ remaining_limit' = LimitAfter(targets)
            /\ UNCHANGED main
      /\ UNCHANGED <<options, disk, chunk, forced, work, stats, finalized>>

EndPlan ==
  /\ main = "plan"
  /\ PlanComplete
  /\ main' = "chunk"
  /\ chunk' = 1
  /\ UNCHANGED <<options, disk, plan, forced, work, stats, finalized>>

\* Top of the loop over the chunks.  With recovery, download_range is called when
\* a source is missing; it may bring some of them, whether it reports a failure or not
\* (a failure leaves a source missing, which ends the run in the next step).
BeginChunk ==
  /\ main = "chunk"
  /\ chunk <= Len(planned)
  /\ stats' = [stats EXCEPT !.chunk_count = @ + 1]
  /\ \E got \in SUBSET {f \in RangeOf(Files) : source[f] = "absent"} :
       /\ got # {} => options.recover
       /\ \E content \in [got -> {"ok", "broken"}] :
            source' = [f \in File |-> IF f \in got THEN content[f] ELSE source[f]]
  /\ main' = "require"
  /\ UNCHANGED <<options, cache, plan, chunk, forced, work, finalized>>

\* require_local_source_files
RequireSources ==
  /\ main = "require"
  /\ main' = IF \E f \in RangeOf(Files) : source[f] = "absent" THEN "failed"
             ELSE IF options.recover THEN "inspect" ELSE "start"
  /\ UNCHANGED <<options, disk, plan, chunk, forced, work, stats, finalized>>

\* Mutant of Unavailable: only the frame of the cache is inspected, as
\* inspect_parsed_cache does; damage inside a block goes unseen.
UnavailableByEnvelope(f) == cache[f] \in {"absent", "stale"}

\* inspect_complete_parsed_cache reads the whole cache, checksums included.
Unavailable(f) == cache[f] # "valid"

\* Every unavailable cache is rebuilt (ensure_parsed_caches, force_rebuild), which
\* reports failures only after all were tried; or it is bypassed for this chunk.
RecoverCaches ==
  LET unavailable == {f \in RangeOf(Files) : Unavailable(f)}
      rebuilt == {f \in unavailable : source[f] = "ok"}
  IN  /\ main = "inspect"
      /\ \/ /\ options.persist
            /\ cache' = [f \in File |-> IF f \in rebuilt THEN "valid" ELSE cache[f]]
            /\ forced' = {}
            /\ IF rebuilt = unavailable
               THEN /\ main' = "start"
                    /\ stats' = [stats EXCEPT !.realtime_parsed_files =
                                   @ + Cardinality(unavailable)]
               ELSE /\ main' = "failed"
                    /\ UNCHANGED stats
         \/ /\ ~options.persist
            /\ forced' = unavailable
            /\ main' = "start"
            /\ UNCHANGED <<cache, stats>>
      /\ UNCHANGED <<options, source, plan, chunk, work, finalized>>

\* The shared index starts at the first file.  Its mutant starts one too low.
FirstFileTooLow == 0
FirstFile == 1

\* process_files starts its threads; a chunk without files is complete at once.
StartWorkers ==
  /\ main = "start"
  /\ IF Files = <<>>
     THEN /\ main' = "chunk"
          /\ chunk' = chunk + 1
          /\ UNCHANGED work
     ELSE /\ main' = "join"
          /\ next_file_index' = FirstFile
          /\ pc' = [w \in Worker |-> IF w <= WorkerCount THEN "claim" ELSE "exited"]
          /\ file' = [w \in Worker |-> 0]
          /\ fatal_error' = FALSE
          /\ UNCHANGED <<chunk, input, processor_mutex, delivery>>
  /\ UNCHANGED <<options, disk, plan, forced, stats, finalized>>

\* All threads are joined before the stored exception is looked at.  The mutants:
\* the main thread stops waiting at the first error; it forgets the exception.
AllOrFirstErrorJoined == fatal_error \/ \A w \in Worker : pc[w] = "exited"
AllJoined == \A w \in Worker : pc[w] = "exited"
ChunkErrorForgotten == FALSE
ChunkFailed == fatal_error

JoinWorkers ==
  /\ main = "join"
  /\ AllJoined
  /\ IF ChunkFailed
     THEN main' = "failed" /\ UNCHANGED <<chunk, forced>>
     ELSE main' = "chunk" /\ chunk' = chunk + 1 /\ forced' = {}
  /\ UNCHANGED <<options, disk, plan, work, stats, finalized>>

\* After the last chunk; main() then rejects a run that used no file.
Finalize ==
  /\ main = "chunk"
  /\ chunk > Len(planned)
  /\ \/ /\ finalized' = TRUE
        /\ main' = IF stats.files_used = 0 THEN "failed" ELSE "done"
     \/ /\ main' = "failed"  \* finalize() itself throws
        /\ UNCHANGED finalized
  /\ UNCHANGED <<options, disk, plan, chunk, forced, work, stats>>

-----------------------------------------------------------------------------
(* The parser threads.                                                     *)

Goto(w, label) == pc' = [pc EXCEPT ![w] = label]

\* Parsing the MRT file; a broken one throws after some of its messages.
ParseInputs(c, f) ==
  IF source[f] = "ok"
  THEN {Reading(s, TRUE, TRUE) : s \in ParseStreams(c, MessagesOf(f))}
  ELSE UNION {{Reading(s, FALSE, TRUE) : s \in ParseStreams(c, ParsePrefix(f, k))} :
                k \in 0..Len(Content[f])}

\* Mutant of CacheInputs: the MRT file is parsed instead of a bad cache.
CacheInputsWithFallback(c, f) ==
  IF cache[f] = "valid"
  THEN {Reading(s, TRUE, FALSE) : s \in CacheStreams(c, MessagesOf(f))}
  ELSE ParseInputs(c, f)

\* Reading the cache; a stale one throws at its header, a damaged one after the
\* messages of the blocks (or of all blocks, when the footer is bad) before the damage.
CacheInputs(c, f) ==
  CASE cache[f] = "valid" ->
         {Reading(s, TRUE, FALSE) : s \in CacheStreams(c, MessagesOf(f))}
    [] cache[f] = "stale" -> {Reading(<<>>, FALSE, FALSE)}
    [] OTHER ->
         UNION {{Reading(s, FALSE, FALSE) : s \in CacheStreams(c, CachePrefix(f, k))} :
                  k \in 0..Len(Content[f])}

ClaimFile(w) ==
  /\ pc[w] = "claim"
  /\ next_file_index' = next_file_index + 1
  /\ IF next_file_index > Len(Files)
     THEN Goto(w, "exited") /\ UNCHANGED file
     ELSE Goto(w, "open") /\ file' = [file EXCEPT ![w] = next_file_index]
  /\ UNCHANGED <<run, disk, input, processor_mutex, fatal_error, delivery, stats>>

\* traverse_single_file and traverse_analysis_input: which input is read.  A cache
\* generated on demand is read back, and the file still counts as parsed.  (The
\* source is there: RequireSources has seen it and nothing removes it.)
OpenInput(w) ==
  LET f == CurrentFile(w)
      Read(inputs) == /\ \E i \in inputs : input' = [input EXCEPT ![w] = i]
                      /\ Goto(w, "read")
      missing == f \notin forced /\ cache[f] = "absent"
  IN  /\ pc[w] = "open"
      /\ \/ /\ f \in forced
            /\ Read(ParseInputs(chunk, f))
            /\ UNCHANGED cache
         \/ /\ f \notin forced /\ cache[f] # "absent"
            /\ Read(CacheInputs(chunk, f))
            /\ UNCHANGED cache
         \/ /\ missing /\ options.parse_on_cache_miss /\ ~options.persist
            /\ Read(ParseInputs(chunk, f))
            /\ UNCHANGED cache
         \/ /\ missing /\ options.parse_on_cache_miss /\ options.persist
            /\ source[f] = "ok"
            /\ cache' = [cache EXCEPT ![f] = "valid"]
            /\ Read({Reading(s, TRUE, TRUE) : s \in CacheStreams(chunk, MessagesOf(f))})
         \/ /\ missing
            /\ ~options.parse_on_cache_miss \/ (options.persist /\ source[f] = "broken")
            /\ Goto(w, "throw")
            /\ UNCHANGED <<cache, input>>
      /\ UNCHANGED <<run, source, claims, processor_mutex, fatal_error, delivery, stats>>

\* The next batch: full, or the rest of a traversal that ends normally (a
\* traversal that throws never flushes its last, partial batch).
BatchReady(i) == Len(i.todo) >= BatchSize \/ (i.ok /\ i.todo # <<>>)
BatchLength(i) == IF Len(i.todo) < BatchSize THEN Len(i.todo) ELSE BatchSize
Batch(i) == SubSeq(i.todo, 1, BatchLength(i))

\* Mutant of InOrder: the last delivered message is not looked at.
InOrderInside(b) == \A i \in 1..(Len(b) - 1) : Ts(b[i]) <= Ts(b[i + 1])

\* dispatch_message_batch's check: against the last delivered message, then
\* inside the batch.
InOrder(b) ==
  /\ last_delivered # NoTime => last_delivered <= Ts(b[1])
  /\ \A i \in 1..(Len(b) - 1) : Ts(b[i]) <= Ts(b[i + 1])

\* The batch is handed to handle_messages, under the mutex unless the processor
\* handles calls concurrently.
EnterHandler(w) ==
  LET i == input[w]
  IN  /\ pc[w] = "read"
      /\ BatchReady(i)
      /\ options.strict => InOrder(Batch(i))
      /\ \/ /\ Concurrent
            /\ UNCHANGED processor_mutex
         \/ /\ ~Concurrent
            /\ processor_mutex = NoWorker
            /\ processor_mutex' = w
      /\ Goto(w, "handle")
      /\ delivered' = delivered \o Batch(i)
      /\ UNCHANGED <<run, disk, claims, input, fatal_error, last_delivered, stats>>

RejectBatch(w) ==
  /\ pc[w] = "read"
  /\ BatchReady(input[w])
  /\ options.strict /\ ~InOrder(Batch(input[w]))
  /\ Goto(w, "throw")
  /\ UNCHANGED <<run, disk, claims, input, processor_mutex, fatal_error, delivery, stats>>

\* handle_messages returns: the mutex is released, the time of the batch's last
\* message remembered and the batch cleared.
LeaveHandler(w) ==
  LET i == input[w]
      b == Batch(i)
  IN  /\ pc[w] = "handle"
      /\ Goto(w, "read")
      /\ processor_mutex' = IF Concurrent THEN processor_mutex ELSE NoWorker
      /\ last_delivered' = IF options.strict THEN Ts(b[Len(b)]) ELSE last_delivered
      /\ input' = [input EXCEPT ![w] =
                    [i EXCEPT !.todo = SubSeq(@, Len(b) + 1, Len(@)),
                              !.visited = @ + Len(b)]]
      /\ UNCHANGED <<run, disk, claims, fatal_error, delivered, stats>>

\* Mutant of HandlerThrows: the exception leaves the mutex locked.
HandlerThrowsLocked(w) ==
  /\ pc[w] = "handle"
  /\ Goto(w, "throw")
  /\ UNCHANGED <<run, disk, claims, input, processor_mutex, fatal_error, delivery, stats>>

HandlerThrows(w) ==
  /\ pc[w] = "handle"
  /\ Goto(w, "throw")
  /\ processor_mutex' = IF Concurrent THEN processor_mutex ELSE NoWorker
  /\ UNCHANGED <<run, disk, claims, input, fatal_error, delivery, stats>>

\* The traversal is over: it returns its counts or throws.
EndTraversal(w) ==
  /\ pc[w] = "read"
  /\ ~BatchReady(input[w])
  /\ Goto(w, IF input[w].ok THEN "record" ELSE "throw")
  /\ UNCHANGED <<run, disk, claims, input, processor_mutex, fatal_error, delivery, stats>>

\* record_processed_file
RecordFile(w) ==
  /\ pc[w] = "record"
  /\ stats' = [stats EXCEPT !.files_used = @ + 1,
                            !.visited_messages = @ + input[w].visited,
                            !.realtime_parsed_files =
                              @ + IF input[w].realtime THEN 1 ELSE 0]
  /\ input' = [input EXCEPT ![w] = NoInput]
  /\ Goto(w, "claim")
  /\ UNCHANGED <<run, disk, claims, processor_mutex, fatal_error, delivery>>

\* The thread's catch-all: the error is kept for the main thread, the thread ends
\* and the others go on.
StoreError(w) ==
  /\ pc[w] = "throw"
  /\ fatal_error' = TRUE
  /\ input' = [input EXCEPT ![w] = NoInput]
  /\ Goto(w, "exited")
  /\ UNCHANGED <<run, disk, claims, processor_mutex, delivery, stats>>

-----------------------------------------------------------------------------

MainStep ==
  \/ PlanChunk \/ EndPlan \/ BeginChunk \/ RequireSources \/ RecoverCaches
  \/ StartWorkers \/ JoinWorkers \/ Finalize

WorkerStep(w) ==
  \/ ClaimFile(w) \/ OpenInput(w) \/ EnterHandler(w)
  \/ RejectBatch(w) \/ LeaveHandler(w) \/ HandlerThrows(w) \/ EndTraversal(w)
  \/ RecordFile(w) \/ StoreError(w)

\* The run has returned or thrown.
Over == main \in {"done", "failed"}
Stopped == Over /\ UNCHANGED vars

Next == MainStep \/ (\E w \in Worker : WorkerStep(w)) \/ Stopped

Spec == Init /\ [][Next]_vars

\* The operating system runs every thread; handle_messages returns or throws.
FairSpec == Spec /\ WF_vars(MainStep) /\ \A w \in Worker : WF_vars(WorkerStep(w))

-----------------------------------------------------------------------------
(* Properties.                                                             *)

MainLabel   == {"plan", "chunk", "require", "inspect", "start", "join", "done", "failed"}
WorkerLabel == {"exited", "claim", "open", "read", "handle", "record", "throw"}

TypeOK ==
  /\ options \in Option
  /\ source \in [File -> SourceState]
  /\ cache \in [File -> CacheState]
  /\ main \in MainLabel
  /\ remaining_limit \in Int
  /\ planned \in Seq(Seq(File))
  /\ chunk \in Nat
  /\ forced \in SUBSET File
  /\ next_file_index \in Nat \ {0}
  /\ pc \in [Worker -> WorkerLabel]
  /\ file \in [Worker -> Nat]
  /\ input \in [Worker -> Input]
  /\ processor_mutex \in Worker \cup {NoWorker}
  /\ fatal_error \in BOOLEAN
  /\ last_delivered \in Nat \cup {NoTime}
  /\ delivered \in Seq(Message)
  /\ stats \in RangeProcessingStats
  /\ finalized \in BOOLEAN

\* A processor that does not declare itself safe for concurrent calls, or that asks
\* for strict order, is never entered by two threads at once (README.md:636).
SerialHandlers ==
  ~options.concurrent \/ options.strict =>
    \A v, w \in Worker : pc[v] = "handle" /\ pc[w] = "handle" => v = w

\* Under strict order the processor sees times that never go back, across batches,
\* files and chunks, whatever mixture of caches, generated caches and MRT files
\* they come from (README.md:768).
ChronologicalDelivery ==
  options.strict =>
    \A i \in 1..(Len(delivered) - 1) : Ts(delivered[i]) <= Ts(delivered[i + 1])

\* Under strict order nothing more reaches the processor once a thread has failed.
StrictFailureIsFinal ==
  [][options.strict /\ (fatal_error \/ \E w \in Worker : pc[w] = "throw")
       => delivered' = delivered]_vars

FilesPlannedBefore[c \in Nat] ==
  IF c = 0 THEN 0 ELSE FilesPlannedBefore[c - 1] + Len(planned[c])

\* finalize() and the end of run() find every thread gone, so that no call of the
\* processor overlaps them (README.md:760), and finalize() every planned file read.
EndIsQuiescent ==
  /\ Over => \A w \in Worker : pc[w] = "exited"
  /\ finalized => stats.files_used = FilesPlannedBefore[Len(planned)]

\* Between chunks, when the record file is written, the counts are those of the
\* files of the chunks done so far, all of them and each once, and the message
\* count is what the processor has received.
ChunkAccounting ==
  main = "chunk" =>
    /\ stats.chunk_count = chunk - 1
    /\ stats.files_used = FilesPlannedBefore[chunk - 1]
    /\ stats.visited_messages = Len(delivered)

\* With recovery, no thread starts on a chunk before every cache it will read is
\* valid, and the others are bypassed (README.md:648).
RecoveredBeforeDelivery ==
  options.recover /\ main = "join" =>
    \A f \in RangeOf(Files) : f \in forced \/ cache[f] = "valid"

\* Without recovery a run that ends well has used no stale or damaged cache and
\* has not replaced one: such a cache is fatal, never bypassed (README.md:642).
DamageIsFatal ==
  ~options.recover /\ main = "done" =>
    \A c \in DOMAIN planned : \A f \in RangeOf(planned[c]) :
      cache[f] \in {"absent", "valid"}

\* A reading of plugins/timestamp_order_checker/README.md:7, which the code refutes:
\* batches are sorted before delivery, so that a batch is refused only when one of
\* its messages is older than what was delivered already.
OnlyStaleBatchesRefused ==
  [][\A w \in Worker :
       options.strict /\ pc[w] = "read" /\ BatchReady(input[w]) /\ pc'[w] = "throw"
         => \E i \in DOMAIN Batch(input[w]) : Ts(Batch(input[w])[i]) < last_delivered]_vars

\* A reading of README.md:648, which the code refutes: with recovery, messages are
\* delivered only after the files to recover have been parsed, so that a file whose
\* parse is going to fail has delivered nothing.
FailedRecoveryDeliversNothing ==
  options.recover => \A w \in Worker : pc[w] = "handle" => input[w].ok

\* The run ends, well or not.
Terminates == <>Over

-----------------------------------------------------------------------------
(* The promise to the processor.                                           *)

TargetsBefore[c \in Nat] ==
  IF c = 0 THEN 0 ELSE TargetsBefore[c - 1] + Len(Targets[c])

\* Whether the n-th target of chunk c is within the limit of the request.
Requested(c, n) == options.limit < 0 \/ TargetsBefore[c - 1] + n <= options.limit

Expected ==
  {m \in Message :
     \E c \in DOMAIN Targets : \E n \in DOMAIN Targets[c] :
       Requested(c, n) /\ m[1] = Targets[c][n] /\ InRange(c, m)}

Delivery == INSTANCE OrderedDelivery WITH
  Time     <- [m \in Message |-> Ts(m)],
  contract <- [ordered |-> options.strict, expected |-> Expected],
  outcome  <- IF Over THEN main ELSE "running"

\* The engine implements OrderedDelivery: a file at the border of two chunks is
\* traversed in both, yet each of its messages arrives once; a good end means that
\* every message of the request has arrived; nothing arrives after the end.
ImplementsDelivery == Delivery!Spec

=============================================================================
