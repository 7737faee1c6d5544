---------------------------- MODULE ChunkEngineMC ----------------------------
(* Instances of ChunkEngine for TLC.                                       *)
EXTENDS ChunkEngine, TLC

CONSTANTS f1, f2, f3

\* Two chunks; f2 has messages of both.  In MRT order f1 goes back in time inside
\* a batch of two, and f2 across the batches of its part of chunk 2.
MCContent ==
  [f \in File |-> CASE f = f1 -> <<1, 0>> [] f = f2 -> <<3, 5, 6, 4>> [] f = f3 -> <<2>>]
MCChunkRange == <<[start |-> 0, end |-> 4], [start |-> 4, end |-> 8]>>
TwoFiles     == <<<<f1, f2>>, <<f2>>>>
ThreeFiles   == <<<<f1, f3, f2>>, <<f2>>>>

OptionsWith(stricts, limits) ==
  [strict : stricts, concurrent : BOOLEAN, recover : BOOLEAN,
   parse_on_cache_miss : BOOLEAN, persist : BOOLEAN, limit : limits]

StrictOptions   == OptionsWith({TRUE}, {-1, 1, 2})

\* With recovery no cache is missing when a thread opens its file, so that
\* parse_on_cache_miss has no effect: one value is enough.
ParallelOptions ==
  {o \in OptionsWith({FALSE}, {-1}) : o.recover => ~o.parse_on_cache_miss}

AllOptions      == StrictOptions \cup ParallelOptions

\* One state per way a traversal can start.
FewFileStates == {<<"ok", "absent">>, <<"ok", "valid">>, <<"ok", "damaged">>,
                  <<"broken", "absent">>, <<"absent", "stale">>}
=============================================================================
