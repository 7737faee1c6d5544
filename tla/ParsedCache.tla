----------------------------- MODULE ParsedCache -----------------------------
(***************************************************************************)
(* The life of the parsed cache of one MRT file (cpp/src/parsed_cache.cpp): *)
(* generate_parsed_cache, run by one preparse process after another, and    *)
(* read_parsed_cache, run by an analysis beside it, while processes are     *)
(* killed, the source is replaced, files are damaged and caches cleared.    *)
(*                                                                          *)
(* A cache file is a sequence of cells: a header with the fingerprint of    *)
(* the source, blocks of messages with their checksums, a footer with the   *)
(* message count.  A message is <<source version, position in the MRT>>.    *)
(***************************************************************************)
EXTENDS Integers, Sequences, FiniteSets, SequencesExt

CONSTANTS
  Content,      \* Content[v]: the timestamps of version v of the source, in MRT order
  BlockSize,    \* cache.message_batch_size
  BatchSize,    \* analysis.message_batch_size
  Ranges,       \* the chunks a reader may ask for: records [start, end)
  NoFile,       \* the value of a name that names no file
  MaxTroubles   \* bound on crashes, failures, damages and cache-clears

ASSUME ConstantsOK ==
  /\ Content \in Seq(Seq(Nat))
  /\ Content # <<>>
  /\ BlockSize \in Nat \ {0}
  /\ BatchSize \in Nat \ {0}
  /\ Ranges \subseteq [start : Int, end : Int]
  /\ MaxTroubles \in Nat

\* Versions have distinct fingerprints (size and modification time).
Version   == DOMAIN Content
Message   == UNION {{v} \X DOMAIN Content[v] : v \in Version}
Ts(m)     == Content[m[1]][m[2]]
NoVersion == 0
NoTime    == -1

VARIABLES
  source,    \* the version of the MRT file on disk
  cache,     \* the .bgpcache file
  part,      \* the .bgpcache.part file
  spool,     \* the .bgpcache.sort.part file
  builder,   \* the preparse process
  reader,    \* the analysis reading the cache
  tampered,  \* history: cache was damaged since it was published
  troubles   \* troubles so far

files == <<cache, part, spool>>
vars  == <<source, files, builder, reader, tampered, troubles>>

-----------------------------------------------------------------------------
(* Cells and files.                                                        *)

Header(v) == [kind |-> "header", stamp |-> v]
Block(s)  == [kind |-> "block", messages |-> s, intact |-> TRUE]
Footer(n) == [kind |-> "footer", count |-> n]

Cell ==
  [kind : {"header"}, stamp : Version \cup {NoVersion}]
    \cup [kind : {"block"}, messages : Seq(Message), intact : BOOLEAN]
    \cup [kind : {"footer"}, count : Nat]

IsBlock(c) == c.kind = "block"
Blocks(f)  == {i \in DOMAIN f : IsBlock(f[i])}
MessageCount(f) == Cardinality(UNION {{i} \X DOMAIN f[i].messages : i \in Blocks(f)})

\* validate_cache_envelope: a header, blocks, a footer with their message count and
\* nothing after it; the payload of the blocks is skipped, not checked.
WellFramed(f) ==
  /\ Len(f) >= 2
  /\ f[1].kind = "header"
  /\ Blocks(f) = 2..(Len(f) - 1)
  /\ f[Len(f)] = Footer(MessageCount(f))

\* Mutant of Fresh: the fingerprint is not compared.
FreshBySchema(f) == f # <<>> /\ f[1].kind = "header"

\* read_header and verify_header_for_source
Fresh(f) == f # <<>> /\ f[1] = Header(source)

\* inspect_parsed_cache finds the cache valid.
Reusable == cache # NoFile /\ Fresh(cache) /\ WellFramed(cache)

\* The order of the sort index: by time, then by offset in the spool.
Before(s, i, j) == Ts(s[i]) < Ts(s[j]) \/ (Ts(s[i]) = Ts(s[j]) /\ i < j)

\* close_and_sort
Sorted(s) ==
  LET order == CHOOSE p \in [DOMAIN s -> DOMAIN s] :
                 \A i, j \in DOMAIN s : i < j => Before(s, p[i], p[j])
  IN  [i \in DOMAIN s |-> s[order[i]]]

\* The messages first, first + 1, ... of s, at most size of them.
Piece(s, first, size) ==
  SubSeq(s, first, IF first + size - 1 < Len(s) THEN first + size - 1 ELSE Len(s))

\* Writing through an open file whose name may have been deleted.
Written(f, cells) == IF f = NoFile THEN NoFile ELSE f \o cells

-----------------------------------------------------------------------------
(* Environment.                                                            *)

NoBuilder == [pc |-> "idle", stamp |-> NoVersion, parsed |-> NoVersion,
              taken |-> 0, entries |-> <<>>, written |-> 0]
NoReader  == [pc |-> "idle", file |-> <<>>, range |-> [start |-> 0, end |-> 0],
              checked |-> NoVersion, sound |-> FALSE, cell |-> 1, next |-> 1, seen |-> 0,
              previous |-> NoTime, batch |-> <<>>, delivered |-> <<>>]

Init ==
  /\ source = 1
  /\ cache = NoFile
  /\ part = NoFile
  /\ spool = NoFile
  /\ builder = NoBuilder
  /\ reader = NoReader
  /\ tampered = FALSE
  /\ troubles = 0

Trouble == troubles < MaxTroubles /\ troubles' = troubles + 1

\* The MRT file is replaced by another one.
ReplaceSource ==
  /\ source < Len(Content)
  /\ source' = source + 1
  /\ UNCHANGED <<files, builder, reader, tampered, troubles>>

\* What damage makes of a file: cut short, the payload of a block changed, the header
\* or the footer changed, something appended.
Damaged(f) ==
  {SubSeq(f, 1, k) : k \in 0..(Len(f) - 1)}
    \cup {[f EXCEPT ![i].intact = FALSE] : i \in Blocks(f)}
    \cup {[f EXCEPT ![i] = Header(NoVersion)] : i \in {i \in DOMAIN f : f[i].kind = "header"}}
    \cup {[f EXCEPT ![i] = Footer(@.count + 1)] : i \in {i \in DOMAIN f : f[i].kind = "footer"}}
    \cup {Append(f, Footer(0))}

Damage ==
  /\ Trouble
  /\ cache # NoFile
  /\ ~tampered
  /\ cache' \in Damaged(cache)
  /\ tampered' = TRUE
  /\ UNCHANGED <<source, part, spool, builder, reader>>

\* manage.sh cache-clear, which does not ask whether a process is at work.
ClearCache ==
  /\ Trouble
  /\ cache' = NoFile
  /\ part' = NoFile
  /\ spool' = NoFile
  /\ tampered' = FALSE
  /\ UNCHANGED <<source, builder, reader>>

-----------------------------------------------------------------------------
(* ensure_parsed_caches and generate_parsed_cache.                         *)

\* The file is reused when the inspection finds it valid, unless force_rebuild.
CheckCache ==
  /\ builder.pc = "idle"
  /\ \/ /\ Reusable
        /\ builder' = [builder EXCEPT !.pc = "reused"]
     \/ builder' = [builder EXCEPT !.pc = "create"]  \* not valid, or force_rebuild
  /\ UNCHANGED <<source, files, reader, tampered, troubles>>

\* Mutant of Truncated: what a killed process left in the file stays in it.
KeptOr(f, cells) == IF f = NoFile THEN cells ELSE f \o cells

\* A file opened with std::ios::trunc that holds the given cells.
Truncated(f, cells) == cells

\* ParsedCacheWriter: the fingerprint is taken, then the partial file is opened and
\* its header written.
CreateWriter ==
  /\ builder.pc = "create"
  /\ builder' = [builder EXCEPT !.pc = "open", !.stamp = source]
  /\ part' = Truncated(part, <<Header(source)>>)
  /\ UNCHANGED <<source, cache, spool, reader, tampered, troubles>>

\* The spool is created, then the parser opens the MRT file.
OpenSource ==
  /\ builder.pc = "open"
  /\ builder' = [builder EXCEPT !.pc = "parse", !.parsed = source]
  /\ spool' = Truncated(spool, <<>>)
  /\ UNCHANGED <<source, cache, part, reader, tampered, troubles>>

\* traverse_mrt_file hands batches to the spool until the end of the file.
ParseBatch ==
  LET batch == Piece([i \in DOMAIN Content[builder.parsed] |-> <<builder.parsed, i>>],
                     builder.taken + 1, BlockSize)
  IN  /\ builder.pc = "parse"
      /\ builder.taken < Len(Content[builder.parsed])
      /\ builder' = [builder EXCEPT !.taken = @ + Len(batch)]
      /\ spool' = Written(spool, batch)
      /\ UNCHANGED <<source, cache, part, reader, tampered, troubles>>

\* The index is sorted and the spool mapped: it must still be there, with its size.
SpoolIntact == spool # NoFile /\ Len(spool) = builder.taken

SortSpool ==
  /\ builder.pc = "parse"
  /\ builder.taken = Len(Content[builder.parsed])
  /\ SpoolIntact
  /\ builder' = [builder EXCEPT !.pc = "write", !.entries = Sorted(spool)]
  /\ UNCHANGED <<source, files, reader, tampered, troubles>>

AllWritten == builder.written = Len(builder.entries)

\* The next block, in the order of the index.
WriteBlock ==
  LET block == Piece(builder.entries, builder.written + 1, BlockSize)
  IN  /\ builder.pc = "write"
      /\ ~AllWritten
      /\ builder' = [builder EXCEPT !.written = @ + Len(block)]
      /\ part' = Written(part, <<Block(block)>>)
      /\ UNCHANGED <<source, cache, spool, reader, tampered, troubles>>

\* ParsedCacheWriter::finalize writes the footer and closes the file, ...
WriteFooter ==
  /\ builder.pc = "write"
  /\ AllWritten
  /\ builder' = [builder EXCEPT !.pc = "rename"]
  /\ part' = Written(part, <<Footer(builder.written)>>)
  /\ UNCHANGED <<source, cache, spool, reader, tampered, troubles>>

\* Mutant of Published: the fingerprint is that of the source at the end.
PublishedRestamped(f) == [f EXCEPT ![1] = Header(source)]

\* What the rename puts in place: the file, unchanged.
Published(f) == f

\* ... then renames it to the final name.
Publish ==
  /\ builder.pc = "rename"
  /\ part # NoFile
  /\ cache' = Published(part)
  /\ part' = NoFile
  /\ tampered' = FALSE
  /\ builder' = [builder EXCEPT !.pc = "inspect"]
  /\ UNCHANGED <<source, spool, reader, troubles>>

\* Mutant of Accepted: the frame is checked, the fingerprint is not.
AcceptedByFrame == cache # NoFile /\ WellFramed(cache)

\* The inspection that follows publication.
Accepted == Reusable

\* The file is inspected under its final name; the spool is removed on the way out.
InspectBuilt ==
  /\ builder.pc = "inspect"
  /\ builder' = [builder EXCEPT !.pc = IF Accepted THEN "built" ELSE "failed"]
  /\ spool' = NoFile
  /\ UNCHANGED <<source, cache, part, reader, tampered, troubles>>

\* A file vanished under the builder or changed its size: the spool cannot be mapped or
\* the partial file not renamed.  The destructors remove the spool and leave the partial file.
LoseFile ==
  /\ \/ /\ builder.pc = "parse"
        /\ builder.taken = Len(Content[builder.parsed])
        /\ ~SpoolIntact
     \/ builder.pc = "rename" /\ part = NoFile
  /\ builder' = [builder EXCEPT !.pc = "failed"]
  /\ spool' = NoFile
  /\ UNCHANGED <<source, cache, part, reader, tampered, troubles>>

\* Any other exception: parsing fails, a write fails, the disk is full.
FailBuild ==
  /\ Trouble
  /\ builder.pc \in {"create", "open", "parse", "write", "rename"}
  /\ builder' = [builder EXCEPT !.pc = "failed"]
  /\ spool' = IF builder.pc \in {"create", "open"} THEN spool ELSE NoFile
  /\ UNCHANGED <<source, cache, part, reader, tampered>>

\* The process is killed; what it wrote so far reaches the disk or does not.
Crash ==
  /\ Trouble
  /\ builder.pc \notin {"idle", "reused", "built", "failed"}
  /\ builder' = NoBuilder
  /\ IF builder.pc \in {"open", "parse", "write"} /\ part # NoFile
     THEN \E k \in 0..Len(part) : part' = SubSeq(part, 1, k)
     ELSE UNCHANGED part
  /\ UNCHANGED <<source, cache, spool, reader, tampered>>

\* The next run of the preparse.
Restart ==
  /\ builder.pc \in {"reused", "built", "failed"}
  /\ builder' = NoBuilder
  /\ UNCHANGED <<source, files, reader, tampered, troubles>>

-----------------------------------------------------------------------------
(* read_parsed_cache.                                                      *)

ReaderStep == UNCHANGED <<source, files, builder, tampered, troubles>>

\* The file is opened: a later rename or cache-clear does not touch it.
OpenCache ==
  /\ reader.pc = "idle"
  /\ cache # NoFile
  /\ \E range \in Ranges :
       reader' = [NoReader EXCEPT !.pc = "header", !.file = cache, !.range = range,
                                  !.sound = ~tampered]
  /\ ReaderStep

CheckHeader ==
  /\ reader.pc = "header"
  /\ reader' = IF Fresh(reader.file)
               THEN [reader EXCEPT !.pc = "cells", !.checked = source, !.cell = 2]
               ELSE [reader EXCEPT !.pc = "failed"]
  /\ ReaderStep

\* The messages of a block are numbered from one.  Its mutant counts from zero.
FirstMessageTooLow == 0
FirstMessage == 1

\* The next cell is a block: its checksum must match.
ReadBlock ==
  /\ reader.pc = "cells"
  /\ reader.cell <= Len(reader.file)
  /\ IsBlock(reader.file[reader.cell])
  /\ reader' = IF reader.file[reader.cell].intact
               THEN [reader EXCEPT !.pc = "messages", !.next = FirstMessage]
               ELSE [reader EXCEPT !.pc = "failed"]
  /\ ReaderStep

InRange(range, m) == range.start <= Ts(m) /\ Ts(m) < range.end

\* The batch after it was handed out.
AfterFlush(batch) == <<>>

\* One message of a block: it must not be older than the one before it; it joins the
\* batch when in range, and a full batch is handed out.
TakeMessage ==
  LET messages == reader.file[reader.cell].messages
      m        == messages[reader.next]
      batch    == IF InRange(reader.range, m) THEN Append(reader.batch, m) ELSE reader.batch
      full     == Len(batch) >= BatchSize
      last     == reader.next = Len(messages)
      taken    == [reader EXCEPT
                     !.pc        = IF last THEN "cells" ELSE "messages",
                     !.cell      = IF last THEN @ + 1 ELSE @,
                     !.next      = @ + 1,
                     !.seen      = @ + 1,
                     !.previous  = Ts(m),
                     !.batch     = IF full THEN AfterFlush(batch) ELSE batch,
                     !.delivered = IF full THEN @ \o batch ELSE @]
  IN  /\ reader.pc = "messages"
      /\ reader' = IF Ts(m) < reader.previous THEN [reader EXCEPT !.pc = "failed"] ELSE taken
      /\ ReaderStep

\* Mutant of AtEnd: bytes after the footer are not looked for.
AtFooter(r) == r.cell <= Len(r.file) /\ r.file[r.cell] = Footer(r.seen)

\* The footer, with the right count, and the end of the file.
AtEnd(r) == r.cell = Len(r.file) /\ r.file[r.cell] = Footer(r.seen)

\* Anything but a block: the footer ends the file, with the right count, and the rest
\* of the messages is handed out; otherwise the read fails, and they are not.
ReadFooter ==
  /\ reader.pc = "cells"
  /\ ~(reader.cell <= Len(reader.file) /\ IsBlock(reader.file[reader.cell]))
  /\ reader' = IF AtEnd(reader)
               THEN [reader EXCEPT !.pc = "done", !.delivered = @ \o reader.batch,
                                   !.batch = <<>>]
               ELSE [reader EXCEPT !.pc = "failed"]
  /\ ReaderStep

CloseCache ==
  /\ reader.pc \in {"done", "failed"}
  /\ reader' = NoReader
  /\ ReaderStep

-----------------------------------------------------------------------------

BuilderStep ==
  \/ CheckCache \/ CreateWriter \/ OpenSource \/ ParseBatch \/ SortSpool \/ WriteBlock
  \/ WriteFooter \/ Publish \/ InspectBuilt \/ LoseFile \/ Restart

ReadStep ==
  \/ OpenCache \/ CheckHeader \/ ReadBlock \/ TakeMessage \/ ReadFooter \/ CloseCache

Environment == ReplaceSource \/ Damage \/ ClearCache \/ FailBuild \/ Crash

Next == BuilderStep \/ ReadStep \/ Environment

Spec == Init /\ [][Next]_vars

\* The preparse is run again and again, and its process is scheduled.
FairSpec == Spec /\ WF_vars(BuilderStep)

-----------------------------------------------------------------------------
(* Properties.                                                             *)

BuilderLabel == {"idle", "create", "open", "parse", "write", "rename", "inspect",
                 "reused", "built", "failed"}
ReaderLabel  == {"idle", "header", "cells", "messages", "done", "failed"}

CacheFile == Seq(Cell) \cup {NoFile}

TypeOK ==
  /\ source \in Version
  /\ cache \in CacheFile
  /\ part \in CacheFile
  /\ spool \in Seq(Message) \cup {NoFile}
  /\ builder \in [pc : BuilderLabel, stamp : Version \cup {NoVersion},
                  parsed : Version \cup {NoVersion}, taken : Nat,
                  entries : Seq(Message), written : Nat]
  /\ reader \in [pc : ReaderLabel, file : Seq(Cell), range : [start : Int, end : Int],
                 checked : Version \cup {NoVersion}, sound : BOOLEAN, cell : Nat \ {0},
                 next : Nat \ {0}, seen : Nat, previous : Nat \cup {NoTime},
                 batch : Seq(Message), delivered : Seq(Message)]
  /\ tampered \in BOOLEAN
  /\ troubles \in 0..MaxTroubles

\* The messages of S by time and then by position in the MRT file: each at the place
\* given by the number of those before it.
Earlier(m, n) == Ts(m) < Ts(n) \/ (Ts(m) = Ts(n) /\ m[2] < n[2])
StableOrder(S) ==
  [i \in 1..Cardinality(S) |->
     CHOOSE m \in S : Cardinality({n \in S : Earlier(n, m)}) = i - 1]

MessagesOf(v) == {v} \X DOMAIN Content[v]
Requested == {m \in MessagesOf(reader.checked) :
                Ts(m) \in reader.range.start..(reader.range.end - 1)}

\* All messages of a file.
Contents(f) ==
  LET upto[k \in 0..Len(f)] ==
        IF k = 0 THEN <<>>
        ELSE upto[k - 1] \o (IF IsBlock(f[k]) THEN f[k].messages ELSE <<>>)
  IN  upto[Len(f)]

\* Whatever was killed, failed or left behind before, the file under the final name
\* is complete: the messages of one version of the source in stable order, framed
\* (README.md:197).
PublishedIsComplete ==
  cache # NoFile /\ ~tampered =>
    /\ WellFramed(cache)
    /\ \A i \in Blocks(cache) : cache[i].intact
    /\ \E v \in Version : Contents(cache) = StableOrder(MessagesOf(v))

\* A read that ends well has handed out the messages that the source held when its
\* fingerprint was compared, those of the chunk, in stable order, each once, even
\* when the cache is replaced, cleared or its source replaced during the read.  A read
\* that has failed, or is under way, has handed out whole batches from the beginning
\* of that sequence, damaged file or not.
ReadIsFaithful ==
  reader.checked # NoVersion =>
    LET expected == StableOrder(Requested)
        n        == Len(reader.delivered)
    IN  IF reader.pc = "done"
        THEN reader.delivered = expected
        ELSE IsPrefix(reader.delivered, expected) /\ n % BatchSize = 0

\* What ChunkEngine!CacheInputs takes for granted: a sound and fresh cache is always
\* read to its end, a stale one hands out nothing, a damaged one always fails.
OutcomeFollowsFile ==
  /\ reader.pc = "done" => reader.sound
  /\ reader.pc = "failed" /\ reader.sound =>
       reader.checked = NoVersion /\ reader.delivered = <<>>

\* When generation reports success, the file holds what the source holds now, although
\* the source is read after its fingerprint was taken.
BuiltIsCurrent ==
  [][builder.pc = "inspect" /\ builder'.pc = "built" /\ ~tampered
       => Contents(cache) = StableOrder(MessagesOf(source))]_vars

\* A preparse that is repeated replaces missing, stale and structurally damaged caches
\* until one of the present source is there (README.md:27); damage inside a block, which
\* the inspection skips, may stay.
EventuallyCurrent ==
  <>[](/\ cache # NoFile
       /\ IF tampered THEN WellFramed(cache)
          ELSE Contents(cache) = StableOrder(MessagesOf(source)))

\* README.md:645, which the code refutes: the file is verified, then published.
PublishedIsVerified ==
  [][builder.pc = "rename" /\ builder'.pc = "inspect" => Reusable']_vars

=============================================================================
