---------------------------- MODULE Configuration ----------------------------
(***************************************************************************)
(* How the configuration of a run comes about (cpp/src/config_file.cpp and  *)
(* parse_args in cpp/src/common.cpp): the two sections of config.json, the  *)
(* mode --download-only, the command line, the checks.                      *)
(*                                                                          *)
(* The options of one kind behave alike, and one stands for all of them:    *)
(*   parser_workers    start_date, end_date, project, collector,            *)
(*                     message_batch_size                                   *)
(*   chunk_size        processor_plugin, the chunk_unit, the switches       *)
(* Values and arguments are strings, a numeral standing for its number.     *)
(***************************************************************************)
EXTENDS Integers, Sequences, SequencesExt

AnalysisKey == {"parser_workers", "limit", "processor_plugin", "chunk_size"}
CacheKey    == {"parser_workers", "limit", "download_workers", "output_dir"}
Key         == AnalysisKey \cup CacheKey

\* The options that --download-only takes from the section cache.
ModeKey == {"parser_workers", "limit", "download_workers"}

Numeral == {"-1", "0", "1", "2", "3"}
Text    == {"processor_plugin", "output_dir"}

Defaults ==
  [parser_workers |-> "3", limit |-> "-1", download_workers |-> "3",
   processor_plugin |-> "", chunk_size |-> "1", output_dir |-> "bgpdata"]

-----------------------------------------------------------------------------
(* config.json: a sequence of sections, [name, entries]; an entry is <<key, *)
(* value>>.                                                                *)

SectionKeys(name) == IF name = "analysis" THEN AnalysisKey ELSE CacheKey

\* require_int, require_string: null is a value of limit only.
WellTyped(key, value) ==
  IF key \in Text THEN value # "null"
                  ELSE value \in Numeral \/ (key = "limit" /\ value = "null")

EntryOK(name, entry) ==
  entry[1] \in SectionKeys(name) /\ WellTyped(entry[1], entry[2])

\* JsonConfigParser::parse throws unless there are exactly these two sections, in
\* either order; parse_section throws on an unknown key or a value of a wrong type,
\* also in the section that the mode does not use.
FileOK(file) ==
  /\ Len(file) = 2
  /\ {file[i].name : i \in DOMAIN file} = {"analysis", "cache"}
  /\ \A i \in DOMAIN file : \A j \in DOMAIN file[i].entries :
       EntryOK(file[i].name, file[i].entries[j])

ConfigValue(key, value) == IF key = "limit" /\ value = "null" THEN "-1" ELSE value

\* apply_analysis_value and apply_cache_value, entry after entry: the last of two with
\* one key wins.
WithSection(config, section) ==
  FoldLeft(LAMBDA c, e :
             IF section.name = "analysis"
             THEN [c EXCEPT !.own[e[1]] = ConfigValue(e[1], e[2])]
             ELSE [c EXCEPT !.cache[e[1]] = ConfigValue(e[1], e[2])],
           config, section.entries)

Untouched == [own |-> Defaults, cache |-> [k \in CacheKey |-> Defaults[k]],
              download_only |-> FALSE]

\* A relative cache root is taken from the directory of config.json.
AbsoluteRoot(dir) == IF dir = "bgpdata" THEN "/repo/bgpdata" ELSE dir

\* apply_json_config_file
LoadedFile(file) ==
  LET read == FoldLeft(WithSection, Untouched, file)
      root == AbsoluteRoot(read.cache["output_dir"])
  IN  [read EXCEPT !.cache["output_dir"] = root,
                   !.own["output_dir"] = root,
                   !.own["download_workers"] = read.cache["download_workers"]]

-----------------------------------------------------------------------------
(* The command line: a sequence of strings.                                *)

Option == [key \in Key \ {"output_dir"} |->
             CASE key = "parser_workers"   -> "--parser-workers"
               [] key = "limit"            -> "--limit"
               [] key = "download_workers" -> "--download-workers"
               [] key = "processor_plugin" -> "--processor-plugin"
               [] key = "chunk_size"       -> "--chunk-size"]
IsOption(word) == \E key \in DOMAIN Option : Option[key] = word
KeyOf(word)    == CHOOSE key \in DOMAIN Option : Option[key] = word

\* The first loop of parse_args: the word anywhere, also as the value of an option.
AsksForDownload(argv) == "--download-only" \in ToSet(argv)

\* Mutant of InMode: the limit stays that of the section analysis.
InModeOfAnalysisLimit(config, argv) ==
  IF ~AsksForDownload(argv) THEN config
  ELSE [config EXCEPT
          !.own = [k \in Key |-> IF k \in ModeKey \ {"limit"} THEN config.cache[k] ELSE @[k]],
          !.download_only = TRUE]

InMode(config, argv) ==
  IF ~AsksForDownload(argv) THEN config
  ELSE [config EXCEPT
          !.own = [k \in Key |-> IF k \in ModeKey THEN config.cache[k] ELSE @[k]],
          !.download_only = TRUE]

\* One turn of the second loop.  A scan is <<what the words so far came to, the option
\* that waits for its value, the configuration>>.
Scanned(scan, word) ==
  LET status == scan[1]  option == scan[2]  config == scan[3]
  IN  CASE status # "ok" -> scan
        [] status = "ok" /\ option # "" ->
             IF option \in Text \/ word \in Numeral
             THEN <<"ok", "", [config EXCEPT !.own[option] = word]>>
             ELSE <<"error", "", config>>
        [] status = "ok" /\ option = "" /\ IsOption(word) -> <<"ok", KeyOf(word), config>>
        [] status = "ok" /\ option = "" /\ word = "--download-only" ->
             <<"ok", "", [config EXCEPT !.download_only = TRUE]>>
        [] status = "ok" /\ option = "" /\ word = "--help" -> <<"help", "", config>>
        [] OTHER -> <<"error", "", config>>

InRange(own) ==
  /\ \A key \in {"parser_workers", "download_workers", "chunk_size"} :
       own[key] \notin {"-1", "0"}
  /\ own["limit"] # "0"

\* parse_args: [status, config], the status "ok", "error" (it throws) or "help" (it
\* ends the program).
Parsed(file, argv) ==
  IF ~FileOK(file) \/ LoadedFile(file).cache["output_dir"] = ""
  THEN [status |-> "error", config |-> Untouched]
  ELSE LET scan == FoldLeft(Scanned, <<"ok", "", InMode(LoadedFile(file), argv)>>, argv)
           bad  == scan[1] = "ok" /\ (scan[2] # "" \/ ~InRange(scan[3].own))
       IN  [status |-> IF bad THEN "error" ELSE scan[1], config |-> scan[3]]

-----------------------------------------------------------------------------
(* What README.md promises of the result, without the order in which the    *)
(* program does things.  Here a command line is a sequence of arguments,    *)
(* <<key, value>> or <<flag>>.                                              *)

Words(arguments) ==
  FlattenSeq([i \in DOMAIN arguments |->
    IF Len(arguments[i]) = 2 THEN <<Option[arguments[i][1]], arguments[i][2]>>
                             ELSE arguments[i]])

\* The value the last pair of s with the key gives it.
LastOf(s, key, otherwise) ==
  LET given == {i \in DOMAIN s : s[i][1] = key /\ Len(s[i]) = 2}
  IN  IF given = {} THEN otherwise
      ELSE s[CHOOSE i \in given : \A j \in given : j <= i][2]

\* A value comes from the command line, else from the section of the mode, else it is
\* the default; the cache root comes from the section cache only.
Promised(file, arguments) ==
  LET entries(name) == (CHOOSE s \in ToSet(file) : s.name = name).entries
      section(key)  == IF key \in CacheKey \ {"parser_workers", "limit"}
                            \/ (key \in ModeKey /\ AsksForDownload(Words(arguments)))
                       THEN entries("cache") ELSE entries("analysis")
      written(key)  == ConfigValue(key, LastOf(section(key), key, Defaults[key]))
  IN  [key \in Key |->
         IF key = "output_dir" THEN AbsoluteRoot(written(key))
                               ELSE LastOf(arguments, key, written(key))]
=============================================================================
