---------------------------- MODULE CacheBuilders ----------------------------
(***************************************************************************)
(* Several processes that generate the parsed cache of one MRT file at the  *)
(* same time (generate_parsed_cache in cpp/src/parsed_cache.cpp), with no    *)
(* lock between them: they meet in the names of the partial file and of the *)
(* spool.  ParsedCache has one process after another, and a source that     *)
(* changes; here the source stays and the files are those of POSIX: a name  *)
(* leads to an inode, a stream writes at its own offset into the inode it   *)
(* opened, when it likes, and O_TRUNC empties the inode for all.            *)
(***************************************************************************)
EXTENDS Integers, Sequences, FiniteSets, SequencesExt

CONSTANTS
  Process,     \* the processes
  Time,        \* Time[i]: the timestamp of message i of the MRT file
  Announced,   \* the messages that are announcements
  BlockSize,   \* cache.message_batch_size, the same for all
  NoFile,      \* what a name leads to that names no file
  MaxRuns,     \* bound on the runs of all processes
  MaxKills     \* bound on the processes killed

ASSUME ConstantsOK ==
  /\ Time \in Seq(Nat \ {0})
  /\ Time # <<>>
  /\ Announced \subseteq DOMAIN Time
  /\ BlockSize \in Nat \ {0}
  /\ NoFile \notin Nat
  /\ MaxRuns \in Nat /\ MaxKills \in Nat

VARIABLES
  store,     \* store[i]: the contents of inode i, a sequence of cells
  names,     \* the inode each name leads to
  process,   \* the processes
  runs,      \* runs begun so far
  kills,     \* processes killed so far
  overlap,   \* history: two runs were under way at one time
  reader     \* an analysis that reads the published file

vars == <<store, names, process, runs, kills, overlap, reader>>

-----------------------------------------------------------------------------
Count == Len(Time)

\* The order of the sort index: by time, then by offset.
Before(i, j) == Time[i] < Time[j] \/ (Time[i] = Time[j] /\ i < j)
Sorted == CHOOSE s \in [1..Count -> 1..Count] :
            \A i, j \in 1..Count : i < j => Before(s[i], s[j])

\* Cells.  A cell of a spool is the encoded message i, of a partial file the header, the
\* frame of a block (its marker, counts and checksum), its payload, or the footer.  Bytes
\* never written are zeros.
Hole        == <<"hole">>
Message(i)  == <<"message", i>>
Header      == <<"header">>
Frame(p)    == <<"frame", p>>
Payload(p)  == <<"payload", p>>
Footer(n,a) == <<"footer", n, a>>

\* Zeros where a message should be: inspect_encoded_message reads an announcement at
\* time zero.
Zeros    == 0
TimeOf(m) == IF m = Zeros THEN 0 ELSE Time[m]
IsAnnouncement(m) == m = Zeros \/ m \in Announced
Announcements(s)  == Cardinality({i \in DOMAIN s : IsAnnouncement(s[i])})

\* A stream: the inode, what was given to it, how much of that it has written.
Closed == [inode |-> NoFile, cells |-> <<>>, written |-> 0]

\* The contents f of the inode after the stream has written as far as its cell k.
Filled(f, stream, k) ==
  [i \in 1..(IF Len(f) > k THEN Len(f) ELSE k) |->
     IF stream.written < i /\ i <= k THEN stream.cells[i]
     ELSE IF i <= Len(f) THEN f[i] ELSE Hole]

WrittenOut(st, stream) ==
  IF stream.inode = NoFile THEN st
  ELSE [st EXCEPT ![stream.inode] = Filled(@, stream, Len(stream.cells))]

\* validate_cache_envelope after read_header: payloads are skipped.
Envelope(f) ==
  /\ Len(f) >= 2 /\ Len(f) % 2 = 0
  /\ f[1] = Header
  /\ \A i \in 2..(Len(f) - 1) : i % 2 = 0 => f[i][1] = "frame"
  /\ f[Len(f)][1] = "footer"
  /\ f[Len(f)][2] = Len(FlattenSeq([k \in 1..(Len(f) \div 2 - 1) |-> f[2 * k][2]]))

Valid == names["cache"] # NoFile /\ Envelope(store[names["cache"]])

-----------------------------------------------------------------------------
NewRun == [pc |-> "part", part |-> Closed, spool |-> Closed, mapped |-> NoFile,
           entry |-> 1, payload |-> <<>>, last |-> 0, copied |-> <<>>]
NoReader == [pc |-> "idle", inode |-> NoFile, cell |-> 2, last |-> 0, seen |-> <<>>]

Init ==
  /\ store = <<>>
  /\ names = [n \in {"cache", "part", "spool"} |-> NoFile]
  /\ process = [p \in Process |-> [NewRun EXCEPT !.pc = "idle"]]
  /\ runs = 0
  /\ kills = 0
  /\ overlap = FALSE
  /\ reader = NoReader

Active(p) == process[p].pc \notin {"idle", "built", "failed", "reused"}
Bounded   == UNCHANGED <<runs, kills, overlap, reader>>

\* A run begins: it reuses a valid cache, or builds, also with force_rebuild.
Start(p) ==
  /\ ~Active(p)
  /\ runs < MaxRuns
  /\ runs' = runs + 1
  /\ process' = [process EXCEPT ![p] = NewRun]
  /\ overlap' = (overlap \/ \E q \in Process : Active(q))
  /\ UNCHANGED <<store, names, kills, reader>>

Reuse(p) ==
  /\ process[p].pc = "part"
  /\ Valid
  /\ process' = [process EXCEPT ![p].pc = "reused"]
  /\ UNCHANGED <<store, names>> /\ Bounded

\* A stream on the file of that name, created or emptied (std::ios::trunc), that was given
\* the cells.
Open(p, name, field, cells, there) ==
  LET old   == names[name]
      inode == IF old = NoFile THEN Len(store) + 1 ELSE old
  IN  /\ store' = IF old = NoFile THEN Append(store, <<>>)
                  ELSE [store EXCEPT ![old] = <<>>]
      /\ names' = [names EXCEPT ![name] = inode]
      /\ process' = [process EXCEPT ![p][field] = [Closed EXCEPT !.inode = inode, !.cells = cells],
                                    ![p].pc = there]
      /\ Bounded

\* ParsedCacheWriter::Impl
OpenPart(p) == process[p].pc = "part" /\ Open(p, "part", "part", <<Header>>, "spool")

\* SortedMessageSpool
OpenSpool(p) == process[p].pc = "spool" /\ Open(p, "spool", "spool", <<>>, "parse")

\* traverse_mrt_file hands the spool the messages, one batch or many.
Parse(p) ==
  /\ process[p].pc = "parse"
  /\ process' = [process EXCEPT ![p].pc = "sort",
                                ![p].spool.cells = [i \in 1..Count |-> Message(i)]]
  /\ UNCHANGED <<store, names>> /\ Bounded

\* A stream writes some of what it was given.
WriteOut(p) ==
  \E field \in {"part", "spool"} :
    LET stream == process[p][field]
    IN  \E k \in (stream.written + 1)..Len(stream.cells) :
          /\ stream.inode # NoFile
          /\ store' = [store EXCEPT ![stream.inode] = Filled(@, stream, k)]
          /\ process' = [process EXCEPT ![p][field].written = k]
          /\ UNCHANGED names /\ Bounded

\* The destructors, of the spool first: its stream is written out, its name removed,
\* whatever file it leads to; then the stream of the partial file, if it is open.
Leave(p, there, st, nm) ==
  /\ store' = WrittenOut(WrittenOut(st, process[p].spool), process[p].part)
  /\ names' = [nm EXCEPT !["spool"] = NoFile]
  /\ process' = [process EXCEPT ![p] = [NewRun EXCEPT !.pc = there]]
  /\ Bounded

\* ReadOnlyFileMapping opens the name, not the stream's file.
SpoolIntact == names["spool"] # NoFile /\ Len(store[names["spool"]]) = Count

\* close_and_sort, and the mapping.
MapSpool(p) ==
  /\ process[p].pc = "sort"
  /\ process[p].spool.written = Count
  /\ IF SpoolIntact
     THEN /\ process' = [process EXCEPT ![p].pc = "copy", ![p].mapped = names["spool"],
                                        ![p].spool = Closed]
          /\ UNCHANGED <<store, names>> /\ Bounded
     ELSE Leave(p, "failed", store, names)

\* What the mapping shows of message i.  Beyond the end of the file, which another
\* process has cut, the rest of its last page is zeros.
Mapped(p, i) ==
  LET f == store[process[p].mapped]
  IN  IF i <= Len(f) /\ f[i] # Hole THEN f[i][2] ELSE Zeros

\* append_serialized_block accepts the block.
InOrder(last, payload) ==
  \A i \in DOMAIN payload :
    TimeOf(payload[i]) >= (IF i = 1 THEN last ELSE TimeOf(payload[i - 1]))

\* With this entry the payload is a whole block, or the last.
Full(entry, payload) == Len(payload) = BlockSize \/ entry = Count

\* The next entry of the index is copied into the payload; a full block, or the last, is
\* checked for its order and given to the stream of the partial file.
CopyEntry(p) ==
  LET here    == process[p]
      payload == Append(here.payload, Mapped(p, Sorted[here.entry]))
      full    == Full(here.entry, payload)
  IN  /\ here.pc = "copy"
      /\ Len(store[here.mapped]) > 0
      /\ IF full /\ ~InOrder(here.last, payload) THEN Leave(p, "failed", store, names)
         ELSE /\ process' = [process EXCEPT
                   ![p].pc = IF here.entry = Count THEN "finalize" ELSE "copy",
                   ![p].entry = @ + 1,
                   ![p].payload = IF full THEN <<>> ELSE payload,
                   ![p].last = IF full THEN TimeOf(payload[Len(payload)]) ELSE @,
                   ![p].copied = IF full THEN @ \o payload ELSE @,
                   ![p].part.cells = IF full THEN @ \o <<Frame(payload), Payload(payload)>> ELSE @]
              /\ UNCHANGED <<store, names>> /\ Bounded

\* A page of the mapping that the file no longer reaches: SIGBUS, without destructors.
FaultOnPage(p) ==
  /\ process[p].pc = "copy"
  /\ Len(store[process[p].mapped]) < Count
  /\ process' = [process EXCEPT ![p] = [NewRun EXCEPT !.pc = "idle"]]
  /\ UNCHANGED <<store, names>> /\ Bounded

\* Mutant of SameStats: the messages are counted, their types are not.
SameCount(s) == Len(s) = Count

\* same_stats of the parser's and the writer's counts.
SameStats(s) == Len(s) = Count /\ Announcements(s) = Cardinality(Announced)

\* finalize gives the footer to the stream and closes it, ...
WriteFooter(p) ==
  LET here   == process[p]
      stream == [here.part EXCEPT !.cells = Append(@, Footer(Count, Announcements(here.copied)))]
  IN  /\ here.pc = "finalize"
      /\ IF SameStats(here.copied)
         THEN /\ store' = WrittenOut(store, stream)
              /\ process' = [process EXCEPT ![p].pc = "rename", ![p].part = Closed]
              /\ UNCHANGED names /\ Bounded
         ELSE Leave(p, "failed", store, names)

\* ... then renames whatever file has the name of the partial file.
Rename(p) ==
  /\ process[p].pc = "rename"
  /\ IF names["part"] = NoFile THEN Leave(p, "failed", store, names)
     ELSE /\ names' = [names EXCEPT !["cache"] = names["part"], !["part"] = NoFile]
          /\ process' = [process EXCEPT ![p].pc = "inspect"]
          /\ UNCHANGED store /\ Bounded

InspectBuilt(p) ==
  /\ process[p].pc = "inspect"
  /\ Leave(p, IF Valid THEN "built" ELSE "failed", store, names)

\* What the streams have not written is lost.
Kill(p) ==
  /\ Active(p)
  /\ kills < MaxKills
  /\ kills' = kills + 1
  /\ process' = [process EXCEPT ![p] = [NewRun EXCEPT !.pc = "idle"]]
  /\ UNCHANGED <<store, names, runs, overlap, reader>>

-----------------------------------------------------------------------------
(* read_parsed_cache over a range that holds every message, block by block, *)
(* while a stream may still write into the file.                           *)

Reading(new) == reader' = new /\ UNCHANGED <<store, names, process, runs, kills, overlap>>

OpenCache ==
  /\ reader.pc = "idle"
  /\ names["cache"] # NoFile
  /\ LET f == store[names["cache"]]
     IN  Reading([NoReader EXCEPT !.pc = IF f # <<>> /\ f[1] = Header THEN "blocks" ELSE "failed",
                                  !.inode = names["cache"]])

\* A block: its checksum, its order.  Zeros have a time in no range: they are passed over
\* and not decoded.
ReadBlock ==
  LET f == store[reader.inode]
      k == reader.cell
  IN  /\ reader.pc = "blocks"
      /\ k <= Len(f) /\ f[k][1] = "frame"
      /\ Reading(IF k < Len(f) /\ f[k + 1] = Payload(f[k][2]) /\ InOrder(reader.last, f[k][2])
                 THEN [reader EXCEPT !.cell = k + 2, !.seen = @ \o f[k][2],
                                     !.last = TimeOf(f[k][2][Len(f[k][2])])]
                 ELSE [reader EXCEPT !.pc = "failed"])

ReadFooter ==
  LET f == store[reader.inode]
      k == reader.cell
  IN  /\ reader.pc = "blocks"
      /\ ~(k <= Len(f) /\ f[k][1] = "frame")
      /\ Reading([reader EXCEPT !.pc =
           IF k = Len(f) /\ f[k] = Footer(Len(reader.seen), Announcements(reader.seen))
           THEN "done" ELSE "failed"])

Next ==
  \/ \E p \in Process :
       \/ Start(p) \/ Reuse(p) \/ OpenPart(p) \/ OpenSpool(p) \/ Parse(p) \/ WriteOut(p)
       \/ MapSpool(p) \/ CopyEntry(p) \/ FaultOnPage(p) \/ WriteFooter(p) \/ Rename(p)
       \/ InspectBuilt(p) \/ Kill(p)
  \/ OpenCache \/ ReadBlock \/ ReadFooter

Spec == Init /\ [][Next]_vars

-----------------------------------------------------------------------------
(* Properties.                                                             *)

\* The values that the files, the streams and the runs can have, with n inodes.
Cell == {Hole, Header} \cup ({"message"} \X (1..Count))
          \cup ({"frame", "payload"} \X Seq(0..Count)) \cup ({"footer"} \X Nat \X Nat)

Inode(n)  == 1..n \cup {NoFile}
Stream(n) == [inode : Inode(n), cells : Seq(Cell), written : Nat]
Run(n)    == [pc : {"idle", "part", "spool", "parse", "sort", "copy", "finalize", "rename",
                    "inspect", "built", "failed", "reused"},
              part : Stream(n), spool : Stream(n), mapped : Inode(n), entry : 1..(Count + 1),
              payload : Seq(0..Count), last : Nat, copied : Seq(0..Count)]

\* Every name, stream and mapping leads to a file that exists, a stream has not written
\* more than it was given, and a payload is cut before it is longer than a block.
TypeOK ==
  /\ store \in Seq(Seq(Cell))
  /\ names \in [{"cache", "part", "spool"} -> Inode(Len(store))]
  /\ process \in [Process -> Run(Len(store))]
  /\ \A p \in Process :
       /\ process[p].part.written <= Len(process[p].part.cells)
       /\ process[p].spool.written <= Len(process[p].spool.cells)
       /\ Len(process[p].payload) < BlockSize
  /\ runs \in 0..MaxRuns /\ kills \in 0..MaxKills /\ overlap \in BOOLEAN
  /\ reader \in [pc : {"idle", "blocks", "done", "failed"}, inode : Inode(Len(store)), cell : Nat,
                 last : Nat, seen : Seq(0..Count)]

\* A read of the published file that ends well has seen the messages of the MRT file in order
\* when no two runs were ever under way at one time, whatever was killed.  Runs beside each
\* other can spoil the cache, and no checksum tells; but then it is announcements from the
\* beginning of the order that are zeros, which are handed to nobody: nothing is out of
\* order, doubled, or lost from between.
OverlapLosesOnlyTheFirst ==
  reader.pc = "done" =>
    \E lost \in 0..Count :
      /\ reader.seen = [i \in 1..Count |-> IF i <= lost THEN Zeros ELSE Sorted[i]]
      /\ \A i \in 1..lost : Sorted[i] \in Announced
      /\ lost = 0 \/ overlap
=============================================================================
