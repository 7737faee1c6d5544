---------------------------- MODULE MainProgramMC ----------------------------
(* Instances of MainProgram for TLC: configuration files and command lines, plugin
   manifests, and what is on disk before a preparse. *)
EXTENDS MainProgram

CONSTANTS s1, s2

Section(name, entries) == [name |-> name, entries |-> entries]

AnalysisEntries ==
  {<<>>,
   <<<<"limit", "1">>, <<"limit", "null">>>>,
   <<<<"parser_workers", "1">>, <<"processor_plugin", "a_plugin">>>>,
   <<<<"chunk_size", "0">>>>,
   <<<<"limit", "0">>>>,
   <<<<"download_workers", "2">>>>}
CacheEntries ==
  {<<>>,
   <<<<"parser_workers", "2">>, <<"limit", "2">>>>,
   <<<<"output_dir", "/data">>, <<"download_workers", "1">>>>,
   <<<<"output_dir", "">>>>,
   <<<<"limit", "null">>, <<"parser_workers", "0">>>>,
   <<<<"limit", "many">>>>}

MCFiles ==
  {<<Section("analysis", a), Section("cache", c)>> : a \in AnalysisEntries, c \in CacheEntries}
    \cup {<<Section("cache", c), Section("analysis", a)>> :
            a \in AnalysisEntries, c \in CacheEntries}
    \cup {<<Section("analysis", <<>>)>>,
          <<Section("cache", <<>>), Section("cache", <<>>)>>}

MCArguments ==
  {<<>>, <<<<"--download-only">>>>, <<<<"--help">>>>, <<<<"--nonsense">>>>,
   <<<<"parser_workers", "1">>, <<"--download-only">>>>,
   <<<<"--download-only">>, <<"limit", "3">>, <<"parser_workers", "2">>>>,
   <<<<"processor_plugin", "b">>, <<"limit", "-1">>>>,
   <<<<"processor_plugin", "--download-only">>>>,
   <<<<"chunk_size", "2">>, <<"chunk_size", "1">>, <<"--help">>>>,
   <<<<"download_workers", "many">>>>,
   <<<<"--download-only">>, <<"--limit">>>>}

\* Every configuration, with an empty disk and one plugin.
Configurations ==
  [file : MCFiles, arguments : MCArguments, manifest : {<<"a">>}, mrt : {{}}, caches : {{}}]

\* The plain configuration, with every manifest and disk.
PlainFile == <<Section("analysis", <<>>), Section("cache", <<>>)>>
Analyses ==
  [file : {PlainFile}, arguments : {<<>>} \cup {<<<<"processor_plugin", p>>>> : p \in {"a", "b"}},
   manifest : {<<>>, <<"a">>, <<"a", "a_plugin">>, <<"a", "b">>, <<"broken">>},
   mrt : {{}}, caches : {{}}]
Preparses ==
  {[file |-> PlainFile, arguments |-> <<<<"parser_workers", n>>, <<"--download-only">>>>,
    manifest |-> <<>>, mrt |-> m, caches |-> c] :
     n \in {"1", "2"}, m \in SUBSET Source, c \in SUBSET Source}

MCInputs == Configurations \cup Analyses \cup {i \in Preparses : i.caches \subseteq i.mrt}
MCStem   == [n \in {"a_plugin", "b_plugin"} |-> IF n = "a_plugin" THEN "a" ELSE "b"]
=============================================================================
