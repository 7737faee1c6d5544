# A TLA+ model of bgpstream_analyzer

This directory models the program in this repository: an analyzer of BGP archives that
downloads MRT files, turns them into sorted caches and hands their messages, chunk by chunk,
to a processor plugin. The modules are checked with TLC on small instances; the theorems are
proved with TLAPS for every value of the constants. Source lines are named as `file:line`;
`PROJECT.json` maps every definition to the lines it stands for.

## 1. The system

| Part | Source | State | Operations | Hard behaviour |
|---|---|---|---|---|
| Main program | `cpp/src/main.cpp` | configuration, plugin, engine, exit status | download and preparse; analysis; record of a failed run | any part may throw; order of destruction |
| Chunk engine | `cpp/src/chunk_engine.cpp` | plan, per-chunk file index, last delivered time, counts | `run`, `process_files`, `dispatch_message_batch` | parser threads, one mutex, errors of one thread among others, order across chunks |
| Parsed cache | `cpp/src/parsed_cache.cpp` | `.bgpcache`, `.bgpcache.part`, `.bgpcache.sort.part` files | generate, inspect, read, ensure all | kills, replaced sources, damage, concurrent cleaning |
| MRT parser | `cpp/src/mrt_parser.cpp` | stream | `traverse_mrt_file` | fails part of the way |
| Download client | `cpp/src/download_client.cpp` | source files, `.part` files, listing, known sizes | `collect_targets`, `download_range` | broken connections, resumption, retries, worker threads |
| Route Views archive | `cpp/src/routeviews_archive.cpp` | none | months and files of a range | borders of months, gaps of the archive |
| Ranges and options | `cpp/src/common.cpp` | none | splitting a range into chunks, arguments | borders of units |
| Progress display | `cpp/src/common.cpp` | terminal line | update under a mutex | none that is read back |
| Configuration | `cpp/src/config_file.cpp`, `parse_args` | none | two sections, mode, command line | who overwrites whom |
| Plugin loader | `cpp/src/plugin_loader.cpp` | library handle, processor | choose, load, check, destroy | failure at each step |
| Churn plugin | `plugins/single_router_churn` | peers, routes, dump, counters | one handler per message kind | late events, missed session ends, dumps cut short |
| Order checker | `plugins/timestamp_order_checker` | last time, counters | compare | none of its own |
| Maintenance | `manage.sh` | cache files | `cache-clear` and others | runs beside the program |

How they interact. The engine calls the download client on the main thread, to plan and to
recover, and never while parser threads run. It calls the cache and the parser from its
threads, and the processor from those threads under `processor_mutex` or, when the processor
says it can, without it. Processes share only files: a preparse publishes caches by rename, an
analysis opens them, `cache-clear` deletes them, and nobody takes a lock.

What makes each part correct:

- engine: every message of the request arrives once, in order if asked for, handlers exclude
  each other, a run that cannot deliver everything fails, finalize comes last, counts are right;
- cache: whatever is under the final name is complete; a read that ends well has delivered what
  the source held; a broken cache is never read to a good end; repeated preparse converges;
- download: a file under its final name is the remote file; nothing present is touched; every
  failure is tried in each round and reported; repeated calls bring everything;
- selection: chunks partition the range, each chunk reads every file that may have messages of
  it, and the listings of one run agree;
- churn plugin: its table is the one the router's peers announce, what it calls churn is churn,
  and its counters agree with each other and with the table;
- main program: the configuration is what the documentation promises, nothing of the plugin is
  used after its library is closed, and exit status, record file and caches tell the same story.

## 2. The modules

| Module | What it is |
|---|---|
| `OrderedDelivery` | abstract: what an analysis run promises its processor |
| `ChunkEngine` | the engine: main thread, parser threads, the choice of each input |
| `ChunkEngineMC` | instances of it |
| `ChunkEngineProofs` | theorems about it |
| `ParsedCache` | the cache of one file: generation, reading, kills, damage |
| `ParsedCacheMC` | instances of it |
| `ParsedCacheProofs` | theorems about it |
| `DownloadClient` | `download_range`, its rounds, workers and partial files |
| `DownloadClientMC` | instances of it |
| `DownloadClientProofs` | theorems about it |
| `ArchiveSelection` | chunks of the range, months listed, files selected, while the archive publishes |
| `ArchiveSelectionMC` | instances of it |
| `ArchiveSelectionProofs` | theorems about it |
| `RouteChurn` | the single router churn plugin, beside the tables and sessions it hears of |
| `RouteChurnMC` | instances of it |
| `RouteChurnProofs` | theorems about it: tables and sessions; counters, masses and route time |
| `CacheBuilders` | processes that generate the cache of one file at the same time |
| `CacheBuildersMC` | instances of it |
| `CacheBuildersProofs` | theorems about it |
| `Configuration` | config.json, the mode and the command line, as operators |
| `MainProgram` | `main`: both modes, the cache builder's threads, the plugin's life, the record |
| `MainProgramMC` | instances of it |
| `MainProgramProofs` | theorems about it |
| `NaturalFacts` | lemmas on natural numbers that these proofs share |

### ChunkEngine

`main` is the program counter of `ChunkEngine::run`: `plan`, then for each chunk (`chunk`)
`require`, `inspect`, `start`, `join`, and `done` or `failed`. `pc[w]` is that of a thread of
`process_files`: `claim` (next file index), `open` (which input), `read` (between two batches),
`handle` (inside `handle_messages`), `record` (counts), `throw`, `exited`.

A message is a file and a position; `Content` gives the times. A traversal is fixed when its
input is opened: the messages it will hand out, in the order of the cache or of the MRT file,
and whether it ends with an exception. Batches are the chunks of `BatchSize` of it; a traversal
that throws does not flush its last one, as in `read_parsed_cache` and `traverse_mrt_file`. This
keeps what the engine can see and leaves the bytes to `ParsedCache`: `OutcomeFollowsFile` and
`ReadIsFaithful` there are what `CacheInputs` here relies on.

`delivered` is a history variable; `source` and `cache` are the files on disk, which may start
in any state of `PossibleFileStates`. They change only by recovery and by caches made on demand:
other processes are the subject of `ParsedCache`. A listing that cannot be fetched fails the
plan. With recovery a download brings any of the missing files, in a good or a broken state.
`finalize()` and `handle_messages` may throw.

### ParsedCache

A file is a sequence of cells (header, blocks, footer). The builder follows
`generate_parsed_cache` step by step: fingerprint and header into the partial file, spool,
batches, sort, blocks, footer, rename, inspection. The reader follows `read_parsed_cache`: the
open file is a copy, since a rename or a deletion does not touch an open file. The environment
replaces the source (a new version has a new fingerprint), damages the cache in every way a cell
can tell (cut, block, header, footer, appended), clears it, makes a step fail, and kills the
process, whereupon any prefix of the partial file may be on disk.

### DownloadClient

A byte is a version and a position. `main` and `round` follow `download_range`; `pc[w]` follows
a thread of `run_download_round` through `download_resource`: check, probe, compare, request,
verify, then success or failure with or without discard. The transfer of an answer is one
action that ends after any number of bytes: nobody else looks at the partial file meanwhile, and
a process killed during a transfer leaves what an answer that broke off earlier leaves. A write
error is a broken transfer. The `.cache` artifact that `available_local_path` also accepts
stands for a downloaded file. A new process or a new call (`RunAgain`) keeps only the files.

### ArchiveSelection

Time is counted in ticks and a file is the tick its name gives. `Split` is a turn of the loop of
`split_range_by_chunks`; then, chunk by chunk, `FetchMonth` lists the months of
`months_for_range` through the cache of `fetch_routeviews_month_index`, and `PlanTargets` selects
the files as `select_updates_for_range` does. In recovery the files of a chunk are resolved a
second time. `PublishFile` is the archive. The file limit, which cuts the result of a
selection, is part of `ChunkEngine` and left out here.

### RouteChurn

The state is that of the plugin: per peer `PeerData`, per route `RouteState`, the peers of the dump
being read, and the counters of the run, of peers, prefixes, origins and paths, under the names
the code gives them. Beside it stands the truth the messages come from: the table of each peer,
its session (`phase`), and the dump being sent. Each handler of `process_message` is an action
that takes one message; late messages are actions or branches of their own. A route is a digest;
masses are counted in units of which an event has `Whole`, a constant that half an event can be
divided by the number of origins of every route (4 in the runs; the code uses floating point).

What the environment may do. Times do not decrease, as a strict host promises; a message may be
overtaken by messages of its peer with the same time (the order key has more parts than the
time). The plugin starts amid the life of the sessions unless the operator says that the tables
are empty. The end of a session may be missed when the plugin knows the session as established.
A dump is a snapshot with one time, cut
short by any other message; no two dumps have the same time (`last_dump`), as the dump files of a
collector are named by it. An end-of-RIB mark comes only
in a session whose beginning was seen.

Modelling showed some behaviour that holds in the code and limits the properties:

- changes during synchronization count (`sync_*`) also in the warm-up, while the withdrawals of a
  session reset do not (1243);
- the first Up of a peer whose session was never seen resets no routes (1198), so routes heard
  before it stay; the environment above does not miss that Down;
- a reset gives the order of the session message to active routes only (1240): an update of an
  inactive route that the session message has overtaken is still accepted. `trusted` leaves
  such a peer's table out of `TableFollowsTruth`;
- every element of the first record of a dump says Start and clears the peers read so far (1041).

### CacheBuilders

The processes meet in two names. A file is an inode with cells; a stream writes what it was given
at its own offset whenever it likes, truncation empties the inode for everybody, the spool is
mapped by its name and read through the mapping, and what a destructor removes is whatever has the
name by then. `ParsedCache` has one builder at a time but everything else (replaced sources,
damage); this module has overlap and nothing else.

`OverlapLosesOnlyTheFirst` says what can be relied on. Without overlap a read that ends well has
handed out every message. With overlap a cache can be published, and pass every checksum, that
lacks announcements at the beginning of the order: zeros from a page of a truncated spool decode
as an announcement at time 0, which no range contains. Nothing worse happens, since the order check
and the counts by type refuse the rest. The README (line 199) promises parallel generation of
different files only, which is how the program itself uses it.

### Configuration and MainProgram

`Configuration` is `apply_json_config_file` and `parse_args` as operators: `Parsed` is what the
program makes of a file and a command line, `Promised` what the main README says it makes of
them. `pc` in `MainProgram` is the main thread; each step has every outcome its code has, an
exception of the program or of the plugin among them (an exception object of the plugin needs the
plugin's library). The threads of `ensure_parsed_caches` claim, build and tell. `records` is the
record file, where an entry may be torn by a full disk (unchecked) or by a summary that throws.

Behaviour the model follows, for the reader who would expect another:

- `--download-only` is looked for among all words, also as the value of an option (437);
- a selector that names an existing file is that file, whatever plugins are registered, and the
  suffix `_plugin` never tells two plugins apart (111, 207);
- keys of the section that the mode does not use are checked for their types, not their ranges;
- a processor whose constructor throws leaves its library open (188), which is needed: the
  exception is printed later;
- a torn entry "success" may be followed by "failed".

Left out: numerals with trailing garbage, which `std::stoi` accepts, and the conversion of
numbers too large for an `int`; exceptions that are no `std::exception`. The record file's name is chosen when the engine
is constructed and the file is created at the first entry (`chunk_engine.cpp:63`): two
processes that start in the same minute can share it, although the main README (line 421) says that a
suffix keeps them apart. This is not modelled, because the model has one process.

## 3. What is checked

Each property is explained where it is defined. `*` marks a run that is meant to find a
violation: a sentence of the documentation that the code does not keep.

| Run | Question | Properties |
|---|---|---|
| `chunk_engine` | threads, chunks, broken and stale files, with and without strict order: is every promise to the processor kept, and does every run end | `TypeOK`, `ChronologicalDelivery`, `DamageIsFatal`, `SerialHandlers`, `EndIsQuiescent`, `ChunkAccounting`, `RecoveredBeforeDelivery`, `StrictFailureIsFinal`, `ImplementsDelivery`, `Terminates` |
| `chunk_engine_doc_sorting` * | are batches sorted before delivery | `OnlyStaleBatchesRefused` |
| `chunk_engine_doc_recovery` * | is a recovered file parsed before it is delivered | `FailedRecoveryDeliversNothing` |
| `parsed_cache` | generations and a reader among kills, damage, clearing and new sources; does a repeated preparse converge | `TypeOK`, `PublishedIsComplete`, `ReadIsFaithful`, `OutcomeFollowsFile`, `BuiltIsCurrent`, `EventuallyCurrent` |
| `parsed_cache_doc_publish` * | is a cache verified before it is published | `PublishedIsVerified` |
| `download` | rounds, resumption, kills and a changing server | `TypeOK`, `ResumeIsSeamless`, `DownloadIsWhole`, `ReportIsRight`, `SourceIsKept` |
| `download_liveness` | do calls end, and do files arrive at last | `RunEnds`, `EventuallyDownloaded` |
| `selection` | do chunks and selected files cover the range, whatever the archive holds and publishes meanwhile | `TypeOK`, `ChunksPartition`, `NeededAreSelected`, `ListingsAgree` |
| `churn` | does the plugin hold the router's tables and count real churn, once | `TypeOK`, `TableFollowsTruth`, `ExposureIsExact`, `MassIsConserved`, `CountersAddUp`, `ChurnIsReal` |
| `churn_doc_baseline` * | is a baseline complete only at a boundary | `BaselineNeedsBoundary` |
| `builders` | what two generations of one cache at once can do to it | `OverlapLosesOnlyTheFirst` |
| `main` | configuration, cache builder threads, plugin, record and exit status of one run | `TypeOK`, `ConfigurationIsPromised`, `PluginOutlivesItsUse`, `RecordTellsTheEnd`, `EveryFileIsTried`, `PreparseIsWhole` |

`ImplementsDelivery` is a refinement: `ChunkEngine` implements `OrderedDelivery` with the
delivered sequence itself, the messages of the request (files of each chunk, within the limit
and the range of the chunk) as what is expected, and the end of `run` as the outcome. It says at
once that a border file traversed in two chunks delivers each message once, that a good end has
delivered everything, and that nothing is delivered after a failure or the end.

What the four marked runs show:

- `plugins/timestamp_order_checker/README.md:7` says the framework sorts inside a batch;
  `dispatch_message_batch` (`chunk_engine.cpp:512`) only checks, and an MRT file parsed in real
  time fails a strict run for a batch that goes back in itself. (The main README, lines 645 and
  768, describes the code.)
- `README.md:648` says that with `download_and_parse` messages are delivered only after the files
  to recover were parsed. With `persist_realtime_parsed_cache=false` a file is parsed while it is
  delivered (`chunk_engine.cpp:468`), and a parse that fails later has delivered messages.
- `README.md:645` says a cache is verified, then published. `finalize` renames first
  (`parsed_cache.cpp:1232`) and the inspection follows (`:1314`). A reader is not misled:
  `ReadIsFaithful` and `OutcomeFollowsFile` hold, since it compares the fingerprint itself.
- A comment of the churn plugin (`single_router_churn.cpp:829`) grants completeness only at a RIB or
  end-of-RIB boundary or on the operator's assumption; `peer_sync_active` (1007) grants it
  when the grace period is over. `ChurnIsReal` states what is counted with this exception.

### Bounds

- Engine: three files in two chunks, one of them in both; one goes back in time inside a batch,
  one between batches; two threads; batches of two, so that files have full, partial and several
  batches. Under strict order limits -1, 1 and 2 cut before, inside and after the first chunk;
  without it the limit is off, and the options that recovery makes meaningless are fixed. Each file
  starts in one of five states, one for each way a traversal can start. The two marked runs
  have two files, and all possible states of them.
- Cache: a source of three messages in two blocks, with equal times and a step back in time, then
  a source with messages at the borders of a range; two troubles (`MaxTroubles`), enough for
  "killed, then damaged" and "cleared during the rebuild after a kill".
- Download: two files, two workers, one retry round (`Retries`; three in the code: rounds after
  the first are alike), versions of two, one and three bytes so that a partial file can be shorter
  than, as long as and longer than the new file, one file replaced, one kill. The liveness run
  has one worker, because a worker waits for nobody.
- Churn: five messages (`MaxMessages`), enough for "announce, lose the session, resynchronize past
  the grace period, change"; one of them overtaken; times 0 and 2 around the ends of a warm-up and a grace
  period of 1, so that both are met inside and past the bound. Two keys, of one peer or of two; routes with no,
  one and two origins; one key is announced with two routes, the other with one, and a dump may
  bring any. The marked run needs four messages.
- Builders: three messages with a tie and a step back, in blocks of two; two processes, three runs
  (`MaxRuns`), one kill (`MaxKills`), so that a killed run leaves files to two overlapping ones. The
  runs are bounded, so the system stops: no deadlock is looked for.
- Main: two MRT files, two builder threads, one chunk (`MaxRecords`); every pair of six contents of
  each section in both orders with eleven command lines; five manifests; every state of the disk
  before a preparse.
- Selection: months of two, three, one and one days, a day of four ticks, a file of one; ranges of
  one to four days that begin at or after the first of a month and end before, at and after that
  of another; chunks of one and two days and months; every subset of eight file times at both
  sides of the borders, and one file published (`MaxPublished`) at any moment.

`NeededAreSelected` says which files matter: those next to a time of the range, not further away
than a file lasts. A predecessor that lies further back is selected only if a listed month has
it, so with a gap at the beginning of a month the code omits it, rightly. `ListingsAgree`
holds because a month is listed once per process; without that cache a file
published between two listings breaks it. Chunk and run are bounded, so the run of `selection`
stops.

### Fairness

- `ChunkEngine`: weak fairness of the main thread and of each parser thread. The operating
  system schedules threads, and `std::mutex` is enabled for a waiting thread infinitely often
  here only because a run delivers finitely many batches; `handle_messages` is assumed to return
  or throw.
- `ParsedCache`: weak fairness of the builder's steps, with a new preparse after each
  (`Restart`): "the preparse is run again". Troubles and new sources are bounded, as they are
  not fair.
- `DownloadClient`: `RunEnds` uses weak fairness of the threads only: libcurl has a connection
  timeout and a low-speed limit. `EventuallyDownloaded` assumes besides that the operator calls
  again and that a server asked again and again answers in full at last (strong fairness of a
  probe, a whole answer, a directory and a rename), and that it reports sizes: with a partial
  file and a server that reports none, `probe_remote_size` fails for ever.

## 4. What is proved

Each proof module assumes of the constants what the module it is about assumes of them, no more,
and finds for each component an inductive invariant. TLC checked those invariants on the
instances of section 3 before they were proved.

| Module | Theorem | Property |
|---|---|---|
| `ChunkEngineProofs` | `TypeCorrect` | `TypeOK` |
| | `HandlersExclude` | `SerialHandlers` |
| | `DeliveryIsChronological` | `ChronologicalDelivery` |
| | `StrictFailureHolds` | `StrictFailureIsFinal` |
| | `RecoveryPrecedesDelivery` | `RecoveredBeforeDelivery` |
| | `DamageEndsTheRun` | `DamageIsFatal` |
| | `CountsAreExact` | `ChunkAccounting` |
| | `TheEndIsQuiescent` | `EndIsQuiescent` |
| | `EngineDelivers` | `ImplementsDelivery` |
| `MainProgramProofs` | `PluginIsKept` | `PluginOutlivesItsUse` |
| | `RecordIsTrue` | `RecordTellsTheEnd` |
| | `FilesAreShared` | `EveryFileIsTried` |
| | `PreparseKeepsItsWord` | `PreparseIsWhole` |
| | `ConfigurationIsKept` | `ConfigurationIsPromised` |
| | `TypesAreKept` | `TypeOK` |
| `ParsedCacheProofs` | `TypesAreKept` | `TypeOK` |
| | `PublishedFilesAreComplete` | `PublishedIsComplete` |
| | `ReadsAreFaithful` | `ReadIsFaithful` |
| | `OutcomesFollowFiles` | `OutcomeFollowsFile` |
| | `BuiltCachesAreCurrent` | `BuiltIsCurrent` |
| `DownloadClientProofs` | `TypesAreKept` | `TypeOK` |
| | `FilesAreSeamless` | `ResumeIsSeamless` |
| | `DownloadsAreWhole` | `DownloadIsWhole` |
| | `ReportsAreRight` | `ReportIsRight` |
| | `SourcesAreKept` | `SourceIsKept` |
| `ArchiveSelectionProofs` | `TypesAreKept` | `TypeOK` |
| | `RangeIsPartitioned` | `ChunksPartition` |
| | `NeededFilesAreSelected` | `NeededAreSelected` |
| | `ListingsOfOneRunAgree` | `ListingsAgree` |
| `RouteChurnProofs` | `TablesAreTracked` | `TableFollowsTruth` |
| | `TypesAreKept` | `TypeOK` |
| | `CountersAgree` | `CountersAddUp` |
| | `EventMassIsKept` | `MassIsConserved` |
| | `ExposureIsKept` | `ExposureIsExact` |
| | `ChurnIsCounted` | `ChurnIsReal` |
| `CacheBuildersProofs` | `TypesAreKept` | `TypeOK` (proved, in no run) |
| | `OverlapIsHarmlessButForTheFirst` | `OverlapLosesOnlyTheFirst` |

### ChunkEngine

For any set of files, contents, chunks, targets, options, batch size and number of threads
(`ConstantsOK`). `TypeInv` joins `TypeOK` with `Control`, which ties the program counters together:
threads run only while `main` is `join`, the chunk index points into the plan then, and a thread
past `claim` holds the index of a file of the chunk. `TypeOK` alone is not inductive: the type of
`file` and `input` follows only where a claimed index is known to be in range. `MutexInv` says
that without concurrent calls a thread in `handle` holds the mutex, which makes two of them
equal. `StrictInv` says that under strict order only thread 1 runs, that `last_delivered` is the
time of the last delivered message except between the call of the handler and its return, and
that the delivered sequence is in order; the case of interest is a batch entering the handler,
where `InOrder` compares its first message with the last one delivered, whatever file or chunk
that came from. An error ends the only thread, which gives `StrictFailureIsFinal`. `RecoveryInv`
carries "valid or bypassed" from the inspection to the join: caches only become valid meanwhile.

`ClaimInv` says that threads hold different indexes below `next_file_index`, and that a thread that
leaves without an error leaves nothing to claim. With it `DamageInv` says that every file whose
index is past is harmless or in the hands of a thread that will find out; a thread that fails
sets `fatal_error` and the join fails. `AccountInv` counts: what was recorded and what the threads
have in hand is what was claimed, and what was recorded and what they handed out is what the processor
received. The sums over the threads are running sums of a function on the naturals; that they change by
as much as one term does is `RunningSumChange` of `NaturalFacts`.

`EngineDelivers` is the refinement of `OrderedDelivery`: the first states are first states of it, and each
step is one of its steps or a stutter (`DeliveryInit`, `DeliveryStep`; only the handler's start and the two ends
are steps that the processor sees). Three invariants carry it. `PlanInv` says that the targets of the chunks
planned so far are what the request calls for, the limit applied to their sum. `UniqueInv` says that no
message was delivered twice and none that is delivered is still in a thread's hands. `CompleteInv` is
its converse: of a file whose index is past, each message in the range was delivered, is in the hands
of a thread, or is lost to a failure, and then the run has an error. Uniqueness across chunks needs an
assumption of its own, `PlanOK`: a chunk names a file once, and the chunks' ranges follow each other
without overlap. The code sees to the first by sorting and dropping equal names
(`routeviews_archive.cpp:217-223`), to the second in `split_range_by_chunks`, whose model is proved
to partition the range (`RangeIsPartitioned`). A file may belong to two chunks; its messages do not.

### ParsedCache

For any versions of the source, sizes of blocks and batches, ranges and number of troubles. `Laid` says
what a file is while it is written: a header with the stamp, then blocks that hold the sorted
messages of the version that was parsed, one after the other. `BuildInv` keeps this for the partial
file, if it is still there, and `CacheInv` for the published one, up to one damage. Both keep
`Stamps`: the stamp is not later than what was parsed, and that not later than the source on disk.
So a file whose stamp is that of the source (`Fresh`) holds what the source holds, which is the whole
argument for taking the fingerprint first (`BuiltIsCurrent`, and the first half of `ReadIsFaithful`). `ReadInv`
follows a reader through the file that it has open, whatever became of the name: the cells behind
it are as they were written, and what it has handed out or keeps are the messages of the range among
the `seen` first ones. `DamageIsFound` compares each kind of damage with what a reader looks at:
none gets it past the footer.

Two facts about order carry the properties over to the sequences they speak of. That the sort of
the model has a result at all (`OrderExists`) is shown by counting: the number of messages before a
message is its place, and different messages have different numbers. And an ascending sequence that
leaves none out is a beginning of `StableOrder` (`BeginsTheOrder`), by the same count.

### MainProgram

For any files, contents of config.json, command lines and outcomes, with the model's up to three
threads. `LifeInv` is an invariant by program
counter: what exists at each place, where an exception can be on its way, and when the exit status is
decided. `RecordInv` adds that no whole "success" stands in the record file before the exit
status is 0. `ThreadInv` is the claim invariant of the cache builder's threads, with the number of busy
threads as a cardinality; `FilesInv` says that a file whose index is past has a cache, is in the
hands of a thread, or has left a failure behind.

`ConfigurationIsKept` compares two accounts of the configuration: what the program does, section after
section, entry after entry, word after word, with overwriting, a mode that copies keys and an option
that waits for its value; and the promise of the main README, which looks the last value of a key up
where it counts. The folds over the entries and the words are unrolled: `FoldSteps` shows that
what `FoldLeft` chooses is a function of the numbers up to the length (`FoldTable`: one exists), and
the rest is induction over these. `LastGiven` is the heart of it: what is overwritten again and
again is what its last writer said. `SectionIsRead` and `LoadedAsWritten` apply it to the file, in
either order of its sections; `ModeIsKept` to the mode; `GoodToTheEnd`, `ArgumentsInTurn` and
`ProgressIsPromised` to a command line that was not refused; `ParsedIsPromised` puts them together.
`ConfigInv` carries the result through the run, also to where a processor is still to be destroyed.

`InputsOK` says what form the inputs have, and leaves out none: any words can be read as options
with their values and single words such that an option is single only where nothing follows it (take
the words from the left). `WordsOK` is no assumption about the program: it says of the model's own
literals that they are in `STRING`, which the provers do not know.

### DownloadClient

For any files, versions, sizes, workers and retry rounds. `FileInv` says that each partial or
finished file consists of bytes at their places, of versions up to that on the server: resumption
keeps it since a request starts at the length that the file has. `ClaimInv` says that workers hold
different files and that what a worker knows of its partial file stays true, which is what two
processes in one directory would break. `SizeInv` says that a known size is one of a version
up to the present one. `LedgerInv` says that each file of a call is completed, pending, a failure or in
one worker's hands, and has been tried in every round so far. `SourceIsKept` is an action property: it
follows because a worker that can rename holds a file that nobody has downloaded.

### ArchiveSelection

For any calendar, range, chunk length and archive (`ConstantsOK`). `ChunkInv` says that the chunks made
so far partition the range up to where the split is. `IndexInv` says that a listing that was taken
before anything was published is the directory, `ListInv` where the plan is in the months of its
chunk, and `SelectInv` that what was selected for a chunk is what one would select from the
listings of now, which never change once taken: that is why neighbouring chunks and recovery
agree. Stating `NeededAreSelected` for a proof showed that its second conjunct was bracketed by its
layout into a quantifier and so said nothing; it was repaired, and holds.

### RouteChurn

For any peers, prefixes, routes, times and numbers of messages (`ChurnAssumption`). The handlers are
first summed up: each is an update of one route, an element of a dump, the beginning or end of a
session, or something that no table sees (`AnnouncementIsUpdate` and the others). `OrderInv` ties the
order keys of the plugin to those of the truth: the order that a route holds is that of the last
message about it, or that of a later end of its peer's session. `TableInv` is the property with
what it needs: the set of active routes of a peer agrees with the routes, and is empty while
the session is down. A repeated announcement is recognised by its path and attributes, not by the
set of its origins; that this is enough needs the fact that a path determines its members
(`derive_path_member_set`), which `ChurnAssumption` states.

The second half of the module is about sums. A sum over a finite set is a fold that takes the element that
`CHOOSE` gives; `FoldExists` shows that the fold exists, and by induction over the number of
elements the sum changes as one term does (`SumChange` and its relatives), whatever the order.
`Balanced` is `CountersAddUp` with the sums over every counter; each handler is shown to add the same
outcome to a prefix, its peer and the run (`Balances`), and a session reset as many
withdrawals as the peer has active routes. `MassInv` follows the mass of events: a credit
hands out shares of `Whole` that divide without a rest, which is what `ChurnAssumption` asks of it,
so that a fold of credits over the routes of a peer (`ResetLedger`) gives one event each.
`ExposureInv` says that what was watched is the route time in the ledger and the open intervals;
a handler closes the interval of one key, of the keys of a peer, or of none (`Closes`), and what it
opens begins at the time of the message.

`ChurnIsCounted` needs to know what the plugin knows of sessions, which is `SessionInv` of
the first half: a peer that resynchronizes is known to, since its session began, or the grace
period is over; a route never heard of is one of a session whose beginning was not seen and whose
baseline is not complete; the peers collected for a dump are peers that this dump told of, or of an
earlier one with another time. Looking for this invariant showed that the model was too generous:
with two dumps of one time, the second with a late first element (which `handle_rib` drops
before it clears the peers read, 1041), a peer of the first counts as complete amid its
resynchronization, and TLC finds `ChurnIsReal` violated with three keys and seven messages. The
program compares the times of dumps, which differ, and so is right: `last_dump` now says so. The
comparison matters: without it the same happens with dumps of different times.

### CacheBuilders

For any messages, block size and number of processes, runs and kills (`ConstantsOK`). Every process can
write into every file at any time, so an invariant about the contents of a file cannot depend on who
wrote it. Two observations make one possible. The first is about names: the spool and the partial file
have different ones, a rename takes a file only from the partial name to the final one, and so an inode
is a spool for ever or never. `FilesInv` says that there is such a set of spools, `Owned`,
that the streams, mappings, names and the reader keep to. The second is about places: what runs
write at one place is always the same, up to zeros. `PartFile` says that a frame in a partial file,
whichever run wrote it, is that of the block whose place it is in (`Slice`: its messages begin
where the blocks before end), and a footer is that of the MRT file; `SpoolFile` that message `i` of a
spool is at place `i`, or a hole. Both are kept when one stream writes over another one, which is
what `FilledPart` and `FilledSpool` show. The first needs that a run never gives its stream a
block with the wrong messages (`Copying`), the second that a mapping shows the message of its place, or
zeros (`MappedShown`).

So a reader that gets to the footer has seen one message for each place of the order, or zeros.
Zeros are in front: a block, and each block after the one before, is compared for its order, and
only zeros have time 0 (`SeenMore`). And the footer counts announcements: with as many of them
seen as there are, and zeros seen as such, the places that were lost are those of announcements, by
counting (`EndsWell`). Holes, finally, need an overlap: `AloneInv` says that while no two
runs were under way at one time, the active one finds in its spool what it wrote there.

### How induction is done

The library's induction rules take a predicate as a parameter, which the provers here cannot
instantiate. `NatSetInduction` is induction for a set instead: a set that has 0 and, with a number, its
successor has all naturals. With it, what a recursive function or a fold computes can be shown for
every natural number, after it has been shown that such a function exists (`RunningSumExists`,
`FoldTable`).

### Model-checked only

Everything temporal beyond `[]` and action properties: `Terminates`, `EventuallyCurrent`, `RunEnds` and
`EventuallyDownloaded` are liveness under fairness, which with `ENABLED` is out of the prover's
reach. Every invariant and every action property of the passing runs is a theorem.

## 5. What is not modelled, and the plan

Not modelled: the conversion of libBGPStream elements into messages and the encoding of fields
in a cache block; the characters of JSON text and dates; formatting, logs, printed summaries and the
progress display (terminal output under a mutex that nothing reads back); the timestamp order
checker plugin (one comparison of adjacent times; what it relies on is `ChronologicalDelivery`); of
the churn plugin the decaying counters, the cursors of records, messages of other routers and the
non-strict mode that merges them, elements without a prefix; the broker's answers; two processes
that download into one directory; build files, examples and tests.

Plan: the modules above cover the program, and what their passing runs check besides liveness is
proved. What could follow is a second process in `DownloadClient`, which would show what two
downloads into one directory do to each other's partial files.
