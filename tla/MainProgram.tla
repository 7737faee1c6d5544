----------------------------- MODULE MainProgram -----------------------------
(***************************************************************************)
(* One run of the program (cpp/src/main.cpp): the configuration, then        *)
(* either run_download_and_preparse with the threads of ensure_parsed_caches *)
(* (cpp/src/parsed_cache.cpp), or the processor plugin                       *)
(* (cpp/src/plugin_loader.cpp), the engine, the record file and the order in *)
(* which all of it is taken down.                                            *)
(*                                                                          *)
(* ChunkEngine and DownloadClient model what happens inside engine->run and  *)
(* download_range; here they have any of their outcomes.                     *)
(***************************************************************************)
EXTENDS Configuration, FiniteSets

CONSTANTS
  Inputs,      \* what runs begin with: [file, arguments, manifest, mrt, caches]
  OnDisk,      \* the selectors that name an existing file
  Stem,        \* the names with the suffix _plugin, and what they are without it
  Source,      \* the MRT files of the archive
  MaxRecords   \* bound on the chunks of an analysis

\* A command line is read as the options with their values and single words; an option
\* is a single word only where nothing follows.
ASSUME InputsOK ==
  /\ \A i \in Inputs :
       /\ i.file \in Seq([name : STRING, entries : Seq(STRING \X STRING)])
       /\ i.arguments \in Seq(((DOMAIN Option) \X STRING) \cup [1..1 -> STRING])
       /\ \A j \in DOMAIN i.arguments :
            Len(i.arguments[j]) = 1 /\ IsOption(i.arguments[j][1]) => j = Len(i.arguments)
       /\ i.caches \subseteq i.mrt /\ i.mrt \subseteq Source
  /\ IsFiniteSet(Source)
  /\ MaxRecords \in Nat

\* What Configuration writes as words is strings, of which the provers know nothing.
ASSUME WordsOK ==
  {"", "-1", "1", "3", "bgpdata", "/repo/bgpdata", "--parser-workers", "--limit",
   "--download-workers", "--processor-plugin", "--chunk-size"} \subseteq STRING

VARIABLES
  input,      \* config.json, the command line, and bgpstream_processor_plugins.tsv:
              \* the names of the registered plugins, or <<"broken">>
  pc,         \* where the main thread is
  config,     \* the result of parse_args
  fault,      \* the exception on its way: none, of the program or of the plugin
  exit,       \* the exit status
  handle,     \* the plugin's library
  processor,  \* the plugin's processor
  engine,     \* the engine exists
  records,    \* the entries of the record file
  targets,    \* run_download_and_preparse: the files of the range
  mrt,        \* the MRT files on disk
  caches,     \* the MRT files with a valid parsed cache
  pending,    \* ensure_parsed_caches: the files to parse
  next,       \* next_index
  worker,     \* its threads
  summary     \* what they report

program  == <<input, config>>
plugin   == <<handle, processor, engine>>
preparse == <<targets, mrt, caches, pending, next, worker, summary>>
vars     == <<program, pc, fault, exit, plugin, records, preparse>>

-----------------------------------------------------------------------------
NoExit   == -1
Worker   == 1..3
Workers(n) == {w \in Worker : w <= n}
NoSummary == [reused |-> 0, generated |-> 0, failures |-> <<>>]
Idle      == [at |-> "off", index |-> 0, built |-> FALSE]

\* A word of the configuration as a number.
Number(numeral) == CASE numeral = "1" -> 1 [] numeral = "2" -> 2 [] OTHER -> 3

Init ==
  /\ input \in Inputs
  /\ pc = "parse"
  /\ config = Untouched
  /\ fault = "none"
  /\ exit = NoExit
  /\ handle = "none"
  /\ processor = "none"
  /\ engine = FALSE
  /\ records = <<>>
  /\ targets = {}
  /\ mrt = input.mrt
  /\ caches = input.caches
  /\ pending = <<>>
  /\ next = 1
  /\ worker = [w \in Worker |-> Idle]
  /\ summary = NoSummary

-----------------------------------------------------------------------------
(* The main thread.                                                        *)

GoTo(here, there) == pc = here /\ pc' = there /\ fault' = fault /\ exit' = exit

\* An exception leaves the try block of main.  One of the plugin that is not a
\* std::exception is not modelled.
Throw(here, origin) == pc = here /\ pc' = "catch" /\ fault' = origin /\ exit' = exit

ParseArgs ==
  LET result == Parsed(input.file, Words(input.arguments))
  IN  /\ \/ result.status = "error" /\ Throw("parse", "program")
         \/ result.status = "help" /\ pc = "parse" /\ pc' = "exited"
              /\ exit' = 0 /\ fault' = fault
         \/ result.status = "ok" /\ result.config.download_only /\ GoTo("parse", "collect")
         \/ result.status = "ok" /\ ~result.config.download_only /\ GoTo("parse", "resolve")
      /\ config' = result.config
      /\ UNCHANGED <<input, plugin, records, preparse>>

-----------------------------------------------------------------------------
(* run_download_and_preparse                                               *)

Listing == {l \in SUBSET Source : config.own["limit"] = "-1"
                                  \/ Cardinality(l) <= Number(config.own["limit"])}

\* The directory of the archive is read.
CollectTargets ==
  /\ \/ Throw("collect", "program") /\ UNCHANGED targets
     \/ targets' \in Listing \ {{}} /\ GoTo("collect", "download")
     \/ targets' = {} /\ Throw("collect", "program")
  /\ UNCHANGED <<program, plugin, records, mrt, caches, pending, next, worker, summary>>

\* download_range reads the directory again and downloads what it lists and is not
\* there.  A download that fails is only reported.
DownloadRange ==
  /\ \/ Throw("download", "program") /\ UNCHANGED mrt
     \/ /\ GoTo("download", "check")
        /\ \E listed \in Listing : \E downloaded \in SUBSET (listed \ mrt) :
             mrt' = mrt \cup downloaded
  /\ UNCHANGED <<program, plugin, records, targets, caches, pending, next, worker, summary>>

\* Mutant of Missing: a file that was there once is not looked for.
MissingOfNone == {}

Missing == targets \ mrt

CheckDownload ==
  /\ IF Missing # {} THEN Throw("check", "program") ELSE GoTo("check", "inspect")
  /\ UNCHANGED <<program, plugin, records, preparse>>

\* ensure_parsed_caches: inspect every file, start the threads.
InspectCaches ==
  LET files == (targets \cap mrt) \ caches
  IN  /\ GoTo("inspect", IF files = {} THEN "report" ELSE "join")
      /\ pending' = SetToSeq(files)
      /\ next' = 1
      /\ summary' = [NoSummary EXCEPT !.reused = Cardinality(targets \cap mrt \cap caches)]
      /\ worker' = [w \in Worker |->
           IF w <= Number(config.own["parser_workers"]) /\ w <= Len(pending')
           THEN [Idle EXCEPT !.at = "claim"] ELSE Idle]
      /\ UNCHANGED <<program, plugin, records, targets, mrt, caches>>

thread == <<program, plugin, records, pc, fault, exit, targets, mrt, pending>>

\* Mutant of ClaimFile: the last index is taken for a file.
ClaimFileBeyond(w) ==
  /\ worker[w].at = "claim"
  /\ next' = next + 1
  /\ worker' = [worker EXCEPT ![w] = IF next > Len(pending) + 1 THEN Idle
                                     ELSE [Idle EXCEPT !.at = "build", !.index = next]]
  /\ UNCHANGED <<thread, caches, summary>>

ClaimFile(w) ==
  /\ worker[w].at = "claim"
  /\ next' = next + 1
  /\ worker' = [worker EXCEPT ![w] = IF next > Len(pending) THEN Idle
                                     ELSE [Idle EXCEPT !.at = "build", !.index = next]]
  /\ UNCHANGED <<thread, caches, summary>>

\* generate_parsed_cache succeeds or throws.
BuildCache(w) ==
  /\ worker[w].at = "build"
  /\ \E built \in BOOLEAN :
       /\ worker' = [worker EXCEPT ![w].at = "tell", ![w].built = built]
       /\ caches' = IF built THEN caches \cup {pending[worker[w].index]} ELSE caches
  /\ UNCHANGED <<thread, next, summary>>

\* Mutant of AfterFile: a thread whose file failed ends.
AfterFileIfBuilt(w) == IF worker[w].built THEN [Idle EXCEPT !.at = "claim"] ELSE Idle

AfterFile(w) == [Idle EXCEPT !.at = "claim"]

\* Under result_mutex.
TellResult(w) ==
  /\ worker[w].at = "tell"
  /\ summary' = IF worker[w].built THEN [summary EXCEPT !.generated = @ + 1]
                ELSE [summary EXCEPT !.failures = Append(@, pending[worker[w].index])]
  /\ worker' = [worker EXCEPT ![w] = AfterFile(w)]
  /\ UNCHANGED <<thread, next, caches>>

JoinBuilders ==
  /\ \A w \in Worker : worker[w].at = "off"
  /\ IF summary.failures # <<>> THEN Throw("join", "program") ELSE GoTo("join", "report")
  /\ UNCHANGED <<program, plugin, records, preparse>>

ReportPreparse ==
  /\ pc = "report"
  /\ pc' = "unwind"
  /\ exit' = 0
  /\ UNCHANGED <<program, fault, plugin, records, preparse>>

-----------------------------------------------------------------------------
(* LoadedProcessorPlugin                                                   *)

\* strip_plugin_suffix
Stripped(name) == IF name \in DOMAIN Stem THEN Stem[name] ELSE name

\* resolve_from_registered_plugins: the suffix never tells two plugins apart.
Matches(selector) ==
  {i \in DOMAIN input.manifest : Stripped(input.manifest[i]) = Stripped(selector)}

\* resolve_plugin_path finds a path.
PathFound ==
  LET selector == config.own["processor_plugin"]
  IN  /\ input.manifest # <<"broken">>
      /\ IF selector = "" THEN Len(input.manifest) = 1
         ELSE selector \in OnDisk \/ Cardinality(Matches(selector)) = 1

ResolvePlugin ==
  /\ IF PathFound THEN GoTo("resolve", "open") ELSE Throw("resolve", "program")
  /\ UNCHANGED <<program, plugin, records, preparse>>

OpenLibrary ==
  /\ \/ Throw("open", "program") /\ UNCHANGED handle
     \/ GoTo("open", "symbols") /\ handle' = "open"
  /\ UNCHANGED <<program, processor, engine, records, preparse>>

\* The API version and the two functions: one is missing or wrong, or all are right.
CheckSymbols ==
  /\ \/ Throw("symbols", "program") /\ handle' = "closed"
     \/ GoTo("symbols", "create") /\ UNCHANGED handle
  /\ UNCHANGED <<program, processor, engine, records, preparse>>

\* Mutant of Throwing: a constructor that throws closes the library, as one that
\* returns null does.
ThrowingClosed == Throw("create", "plugin") /\ handle' = "closed" /\ UNCHANGED processor

\* create_processor throws: the library stays open, nothing will close it.
Throwing == Throw("create", "plugin") /\ UNCHANGED <<handle, processor>>

CreateProcessor ==
  /\ \/ Throwing
     \/ Throw("create", "program") /\ handle' = "closed" /\ UNCHANGED processor
     \/ GoTo("create", "engine") /\ processor' = "live" /\ UNCHANGED handle
  /\ UNCHANGED <<program, engine, records, preparse>>

\* Its log directory cannot be made, the libraries of the download client fail.
CreateEngine ==
  /\ \/ Throw("engine", "program") /\ UNCHANGED engine
     \/ GoTo("engine", "run") /\ engine' = TRUE
  /\ UNCHANGED <<program, handle, processor, records, preparse>>

-----------------------------------------------------------------------------
(* The record file.                                                        *)

Entry(status, whole) == [status |-> status, whole |-> whole]

\* write_record_file appends an entry, of which a full disk takes a part or all, unseen;
\* or it throws: the file cannot be opened; or print_summary of the processor throws
\* within the entry.
Recorded(status)     == \E whole \in BOOLEAN : records' = Append(records, Entry(status, whole))
NotOpened            == UNCHANGED records
SummaryThrew(status) == records' = Append(records, Entry(status, FALSE))

RunChunk ==
  /\ Len(records) < MaxRecords
  /\ \/ GoTo("run", "run") /\ Recorded("chunk-complete")
     \/ Throw("run", "program") /\ NotOpened
     \/ Throw("run", "plugin") /\ SummaryThrew("chunk-complete")
  /\ UNCHANGED <<program, plugin, preparse>>

\* engine->run throws before a chunk ends; an exception of the processor comes through
\* from the thread it was thrown in.
RunFails ==
  /\ \E origin \in {"program", "plugin"} : Throw("run", origin)
  /\ UNCHANGED <<program, plugin, records, preparse>>

\* It returns; no file was used, or some.
RunEnds ==
  /\ \/ Throw("run", "program")
     \/ GoTo("run", "summary")
  /\ UNCHANGED <<program, plugin, records, preparse>>

\* Mutant of PrintSummary: the success is recorded before the summary is printed.
PrintSummaryLast ==
  /\ pc = "summary"
  /\ Recorded("success")
  /\ \/ Throw("summary", "plugin")
     \/ pc' = "unwind" /\ exit' = 0 /\ fault' = fault
  /\ UNCHANGED <<program, plugin, preparse>>

PrintSummary ==
  /\ \/ Throw("summary", "plugin")
     \/ GoTo("summary", "success")
  /\ UNCHANGED <<program, plugin, records, preparse>>

RecordSuccess ==
  /\ \/ Throw("success", "program") /\ NotOpened
     \/ Throw("success", "plugin") /\ SummaryThrew("success")
     \/ /\ pc = "success"
        /\ pc' = "unwind"
        /\ exit' = 0
        /\ fault' = fault
        /\ Recorded("success")
  /\ UNCHANGED <<program, plugin, preparse>>

\* The handler of main: what write_record_file throws is caught and printed.
RecordFailure ==
  /\ pc = "catch"
  /\ pc' = "tell"
  /\ IF engine THEN NotOpened \/ SummaryThrew("failed") \/ Recorded("failed")
               ELSE UNCHANGED records
  /\ UNCHANGED <<program, fault, exit, plugin, preparse>>

\* what() is printed and the exception goes with its handler, before main returns.
PrintFault ==
  /\ pc = "tell"
  /\ pc' = "unwind"
  /\ fault' = "none"
  /\ exit' = 1
  /\ UNCHANGED <<program, plugin, records, preparse>>

-----------------------------------------------------------------------------
(* main returns: engine and processor_plugin are destroyed, in the reverse  *)
(* order of their declarations.                                             *)

DestroyEngine ==
  /\ pc = "unwind"
  /\ pc' = IF processor = "live" THEN "destroy" ELSE "exited"
  /\ engine' = FALSE
  /\ UNCHANGED <<program, fault, exit, handle, processor, records, preparse>>

\* ~LoadedProcessorPlugin: first the processor.
DestroyProcessor ==
  /\ pc = "destroy"
  /\ pc' = "close"
  /\ processor' = "destroyed"
  /\ UNCHANGED <<program, fault, exit, handle, engine, records, preparse>>

CloseLibrary ==
  /\ pc = "close"
  /\ pc' = "exited"
  /\ handle' = "closed"
  /\ UNCHANGED <<program, fault, exit, processor, engine, records, preparse>>

Exited == pc = "exited" /\ UNCHANGED vars

Next ==
  \/ ParseArgs \/ CollectTargets \/ DownloadRange \/ CheckDownload \/ InspectCaches
  \/ \E w \in Worker : ClaimFile(w) \/ BuildCache(w) \/ TellResult(w)
  \/ JoinBuilders \/ ReportPreparse
  \/ ResolvePlugin \/ OpenLibrary \/ CheckSymbols \/ CreateProcessor \/ CreateEngine
  \/ RunChunk \/ RunFails \/ RunEnds \/ PrintSummary \/ RecordSuccess
  \/ RecordFailure \/ PrintFault
  \/ DestroyEngine \/ DestroyProcessor \/ CloseLibrary
  \/ Exited

Spec == Init /\ [][Next]_vars

-----------------------------------------------------------------------------
(* Properties.                                                             *)

Place == {"parse", "collect", "download", "check", "inspect", "join", "report",
          "resolve", "open", "symbols", "create", "engine", "run", "summary", "success",
          "catch", "tell", "unwind", "destroy", "close", "exited"}
Status == {"chunk-complete", "success", "failed"}

\* The type invariant.
TypeOK ==
  /\ input \in Inputs
  /\ pc \in Place
  /\ config.cache \in [CacheKey -> STRING]
  /\ config.own \in [Key -> STRING]
  /\ config.download_only \in BOOLEAN
  /\ fault \in {"none", "program", "plugin"}
  /\ exit \in {NoExit, 0, 1}
  /\ handle \in {"none", "open", "closed"}
  /\ processor \in {"none", "live", "destroyed"}
  /\ engine \in BOOLEAN
  /\ records \in Seq([status : Status, whole : BOOLEAN])
  /\ targets \subseteq Source /\ mrt \subseteq Source /\ caches \subseteq mrt
  /\ pending \in Seq(Source)
  /\ next \in Nat \ {0}
  /\ worker \in [Worker -> [at : {"off", "claim", "build", "tell"},
                            index : 0..Len(pending), built : BOOLEAN]]
  /\ summary.reused \in Nat /\ summary.generated \in Nat
  /\ summary.failures \in Seq(Source)

\* README.md on the configuration: a run that begins its work has for every option the
\* value of the command line, or else of its mode's section, or else the default, in
\* whatever order the sections and arguments stand; the cache root is that of the
\* section cache; and no worker count or limit is out of range.
ConfigurationIsPromised ==
  pc \notin {"parse", "catch", "tell", "unwind", "exited"} =>
    /\ config.own = Promised(input.file, input.arguments)
    /\ InRange(config.own)
    /\ config.download_only <=> pc \in {"collect", "download", "check", "inspect",
                                        "join", "report"}

\* Code of the plugin never runs, and no exception object of the plugin lives, while
\* its library is not open; the engine never outlives the processor; and when the
\* program has ended the processor is destroyed and the library closed, unless its
\* constructor threw.
PluginOutlivesItsUse ==
  /\ processor = "live" \/ fault = "plugin" => handle = "open"
  /\ engine => processor = "live"
  /\ pc = "exited" /\ handle = "open" => processor = "none" /\ exit = 1
  /\ pc = "exited" => ~engine /\ processor # "live"

\* The record file tells how an analysis ended: a whole entry "success" stands last and
\* means exit status 0; exit status 0 means that "success" was the last to be written; a
\* run that got no processor writes nothing.
RecordTellsTheEnd ==
  /\ \A i \in DOMAIN records : records[i] = Entry("success", TRUE) =>
       exit = 0 /\ i = Len(records)
  /\ exit = 0 /\ processor # "none" =>
       records # <<>> /\ records[Len(records)].status = "success"
  /\ processor = "none" => records = <<>>

\* Threads share the work of ensure_parsed_caches: every file is built at most once at
\* a time and told once; when they are joined each file was tried, whichever failed.
EveryFileIsTried ==
  LET busy == {w \in Worker : worker[w].at \in {"build", "tell"}}
      told == summary.generated + Len(summary.failures)
  IN  /\ \A v, w \in busy : v # w => worker[v].index # worker[w].index
      /\ told + Cardinality(busy) = IF next > Len(pending) THEN Len(pending) ELSE next - 1
      /\ pc = "join" /\ (\A w \in Worker : worker[w].at = "off") => told = Len(pending)

\* A download and preparse run ends with exit status 0 only if every file of the range,
\* as the first reading of the directory gave it, is on disk with a valid cache.
PreparseIsWhole ==
  exit = 0 /\ config.download_only /\ targets # {} =>
    /\ targets \subseteq mrt \cap caches
    /\ summary.reused + summary.generated = Cardinality(targets)
=============================================================================
