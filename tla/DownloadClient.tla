--------------------------- MODULE DownloadClient ---------------------------
(***************************************************************************)
(* DownloadClient::download_range (cpp/src/download_client.cpp): the rounds *)
(* in which worker threads download the listed files, each into a partial   *)
(* file that a later attempt, round or process resumes, from a server that  *)
(* loses connections, answers in full or in part, reports sizes or not and  *)
(* may replace a file.                                                      *)
(*                                                                          *)
(* A byte is <<version of the remote file, position>>.                      *)
(***************************************************************************)
EXTENDS Integers, Sequences, FiniteSets

CONSTANTS
  Resources,        \* the number of listed files
  DownloadWorkers,  \* download_workers
  Retries,          \* kDefaultRetries
  Size,             \* Size[v]: the length of version v of a remote file
  Reporting,        \* whether answers report the size: a set of Booleans
  NoFile,           \* the value of a name that names no file
  MaxReplaced,      \* bound on the remote files that are replaced
  MaxCrashes        \* bound on kills of the process

ASSUME ConstantsOK ==
  /\ Resources \in Nat
  /\ DownloadWorkers \in Nat \ {0}
  /\ Retries \in Nat
  /\ Size \in Seq(Nat \ {0})
  /\ Size # <<>>
  /\ Reporting \subseteq BOOLEAN
  /\ NoFile \notin Seq((DOMAIN Size) \X Nat)
  /\ MaxReplaced \in Nat
  /\ MaxCrashes \in Nat

Resource == 1..Resources
Worker   == 1..DownloadWorkers
Version  == DOMAIN Size
Byte     == Version \X (Nat \ {0})
Unknown  == 0

VARIABLES
  remote,       \* the version of each file on the server
  part,         \* the .part files
  destination,  \* the downloaded files
  main,         \* where download_range is
  round,        \* the round: 0, then retry_round
  pending,      \* files of this round that no worker has claimed
  failures,     \* files that failed in this round
  discarded,    \* those of them with discard_partial
  completed,    \* completed_resources
  remote_size,  \* Resource::remote_size
  pc,           \* where each worker is
  job,          \* the file it claimed
  existing,     \* existing_size: the length of its .part before the request
  tried,        \* history: the rounds of this call in which each file was tried
  sized,        \* history: files whose size was compared before the rename
  crashes       \* kills so far

local   == <<part, destination, sized>>
results == <<failures, discarded, completed>>
workers == <<pc, job, existing>>
rounds  == <<main, round>>
vars == <<remote, local, rounds, pending, results, remote_size, workers, tried, crashes>>

-----------------------------------------------------------------------------

Whole(v) == [i \in 1..Size[v] |-> <<v, i>>]

\* Mutant of Available: files that are there are not looked for.
NeverAvailable(r) == FALSE

\* available_local_path
Available(r) == destination[r] # NoFile

PartSize(r) == IF part[r] = NoFile THEN 0 ELSE Len(part[r])

Least(S) == CHOOSE r \in S : \A q \in S : r <= q

Init ==
  /\ remote = [r \in Resource |-> 1]
  /\ part = [r \in Resource |-> NoFile]
  /\ destination = [r \in Resource |-> NoFile]
  /\ main = "scan"
  /\ round = 0
  /\ pending = {}
  /\ failures = {}
  /\ discarded = {}
  /\ completed = {}
  /\ remote_size = [r \in Resource |-> Unknown]
  /\ pc = [w \in Worker |-> "exited"]
  /\ job = [w \in Worker |-> 0]
  /\ existing = [w \in Worker |-> 0]
  /\ tried = [r \in Resource |-> {}]
  /\ sized = {}
  /\ crashes = 0

-----------------------------------------------------------------------------
(* download_range on its own thread.                                       *)

\* run_download_round starts its threads for a set of files.
StartRound(files) ==
  /\ pending' = files
  /\ failures' = {}
  /\ discarded' = {}
  /\ pc' = [w \in Worker |-> IF w <= Cardinality(files) THEN "claim" ELSE "exited"]

Scan ==
  LET missing == {r \in Resource : ~Available(r)}
  IN  /\ main = "scan"
      /\ completed' = Resource \ missing
      /\ main' = IF missing = {} THEN "over" ELSE "round"
      /\ StartRound(missing)
      /\ UNCHANGED <<remote, local, round, remote_size, job, existing, tried, crashes>>

\* Mutants of RoundsOver: a round too many; a round too few.
RoundsOverLate  == round > Retries
RoundsOverEarly == round + 1 >= Retries
RoundsOver == round = Retries

\* Mutant of RoundAfter: the rounds are not counted.
RoundUncounted == round
RoundAfter == round + 1

\* All threads are joined; the failures are tried again or reported.
EndRound ==
  /\ main = "round"
  /\ \A w \in Worker : pc[w] = "exited"
  /\ IF failures = {} \/ RoundsOver
     THEN /\ main' = "report"
          /\ UNCHANGED <<round, pending, failures, discarded, pc>>
     ELSE /\ round' = RoundAfter
          /\ StartRound(failures)
          /\ UNCHANGED main
  /\ UNCHANGED <<remote, local, completed, remote_size, job, existing, tried, crashes>>

\* Mutant of Removed: the removal has no effect.
NotRemoved(p) == p
Removed(p) == NoFile

\* Partial files that cannot be resumed are removed, the others kept.
Report ==
  /\ main = "report"
  /\ main' = "over"
  /\ part' = [r \in Resource |-> IF r \in discarded THEN Removed(part[r]) ELSE part[r]]
  /\ UNCHANGED <<remote, destination, sized, round, pending, results, remote_size, workers,
                 tried, crashes>>

-----------------------------------------------------------------------------
(* The workers: run_download_round's threads and download_resource.        *)

Goto(w, label) == pc' = [pc EXCEPT ![w] = label]
WorkerFrame == UNCHANGED <<rounds, crashes>>

\* The shared index moves past the claimed file.
Remaining(r) == pending \ {r}

Claim(w) ==
  /\ pc[w] = "claim"
  /\ IF pending = {}
     THEN Goto(w, "exited") /\ UNCHANGED <<pending, job, tried>>
     ELSE LET r == Least(pending)
          IN  /\ pending' = Remaining(r)
              /\ job' = [job EXCEPT ![w] = r]
              /\ tried' = [tried EXCEPT ![r] = @ \cup {round}]
              /\ Goto(w, "check")
  /\ WorkerFrame
  /\ UNCHANGED <<remote, local, results, remote_size, existing>>

\* A file that is there is left alone; a partial file of unknown size needs a probe.
CheckLocal(w) ==
  LET r == job[w]
  IN  /\ pc[w] = "check"
      /\ existing' = [existing EXCEPT ![w] = PartSize(r)]
      /\ \/ Available(r) /\ Goto(w, "succeed")
         \/ ~Available(r) /\ remote_size[r] = Unknown /\ PartSize(r) > 0 /\ Goto(w, "probe")
         \/ ~Available(r) /\ (remote_size[r] # Unknown \/ PartSize(r) = 0) /\ Goto(w, "compare")
         \/ ~Available(r) /\ Goto(w, "fail")  \* the directory cannot be created
      /\ WorkerFrame
      /\ UNCHANGED <<remote, local, pending, results, remote_size, job, tried>>

\* probe_remote_size: it fails when no attempt is answered with a size.
Probe(w) ==
  LET r == job[w]
  IN  /\ pc[w] = "probe"
      /\ \/ /\ TRUE \in Reporting
            /\ remote_size' = [remote_size EXCEPT ![r] = Size[remote[r]]]
            /\ Goto(w, "compare")
         \/ Goto(w, "fail") /\ UNCHANGED remote_size
      /\ WorkerFrame
      /\ UNCHANGED <<remote, local, pending, results, job, existing, tried>>

\* The .part file is removed and the attempt fails with discard_partial.
Discard(w) ==
  /\ part' = [part EXCEPT ![job[w]] = Removed(@)]
  /\ Goto(w, "fail discard")
  /\ UNCHANGED <<destination, sized>>

\* The .part file becomes the destination.
Rename(w) ==
  LET r == job[w]
  IN  /\ destination' = [destination EXCEPT ![r] = part[r]]
      /\ part' = [part EXCEPT ![r] = NoFile]
      /\ sized' = IF remote_size[r] = Unknown THEN sized \ {r} ELSE sized \cup {r}
      /\ Goto(w, "succeed")

RenameFails(w) == Goto(w, "fail") /\ UNCHANGED local

Unchecked == <<remote, pending, results, remote_size, job, existing, tried>>

\* The partial file against the size: too long, complete, or to be continued.
Compare(w) ==
  LET size == remote_size[job[w]]
  IN  /\ pc[w] = "compare"
      /\ \/ size # Unknown /\ existing[w] > size /\ Discard(w)
         \/ size # Unknown /\ existing[w] = size /\ (Rename(w) \/ RenameFails(w))
         \/ /\ size = Unknown \/ existing[w] < size
            /\ Goto(w, "request")
            /\ UNCHANGED local
      /\ WorkerFrame
      /\ UNCHANGED Unchecked

\* Mutant of Appends: the answer's status is not looked at.
AppendsAlways(w, status) == existing[w] > 0

\* FileSink::open_if_needed appends to the partial file only for an answer in part.
Appends(w, status) == existing[w] > 0 /\ status = 206

\* The .part file after count bytes of an answer that starts at position first; it is
\* opened by the first byte.
Sink(w, status, first, count) ==
  LET r     == job[w]
      bytes == SubSeq(Whole(remote[r]), first + 1, first + count)
  IN  IF count = 0 THEN part[r]
      ELSE IF Appends(w, status) THEN part[r] \o bytes
      ELSE bytes

\* The server may answer a request for the rest of the file in full or in part.
Answers(w) ==
  {[status |-> 200, first |-> 0]}
    \cup {[status |-> 206, first |-> n] :
            n \in {existing[w]} \cap (1..(Size[remote[job[w]]] - 1))}

\* The transfer is over, and libcurl has seen no error; the size is taken from the
\* answer when it reports one.  Nothing received still leaves an empty file.
Received(w, answer, count, reported) ==
  LET r == job[w]
      p == Sink(w, answer.status, answer.first, count)
  IN  /\ part' = [part EXCEPT ![r] = IF p = NoFile THEN <<>> ELSE p]
      /\ remote_size' = [remote_size EXCEPT ![r] = IF reported THEN Size[remote[r]] ELSE @]
      /\ Goto(w, "verify")

RequestFrame ==
  /\ WorkerFrame
  /\ UNCHANGED <<remote, destination, sized, pending, results, job, existing, tried>>

\* The whole answer arrives.
ReceiveAll(w) ==
  /\ pc[w] = "request"
  /\ \E answer \in Answers(w), reported \in Reporting :
       Received(w, answer, Size[remote[job[w]]] - answer.first, reported)
  /\ RequestFrame

\* The connection ends early; without a reported size libcurl may take it for the end.
ReceiveSome(w) ==
  /\ pc[w] = "request"
  /\ \E answer \in Answers(w) :
       \E count \in 0..(Size[remote[job[w]]] - answer.first - 1) :
         \/ /\ part' = [part EXCEPT ![job[w]] = Sink(w, answer.status, answer.first, count)]
            /\ Goto(w, "fail")
            /\ UNCHANGED remote_size
         \/ /\ FALSE \in Reporting
            /\ Received(w, answer, count, FALSE)
  /\ RequestFrame

\* No connection, or an HTTP error: its body is not written.
ReceiveNothing(w) ==
  /\ pc[w] = "request"
  /\ Goto(w, "fail")
  /\ UNCHANGED <<part, remote_size>>
  /\ RequestFrame

\* Mutant of SizeRight: the size is not compared.
SizeUnchecked(r) == TRUE
SizeRight(r) == remote_size[r] = Unknown \/ Len(part[r]) = remote_size[r]

Verify(w) ==
  /\ pc[w] = "verify"
  /\ \/ ~SizeRight(job[w]) /\ Discard(w)
     \/ SizeRight(job[w]) /\ (Rename(w) \/ RenameFails(w))
  /\ WorkerFrame
  /\ UNCHANGED Unchecked

Succeed(w) ==
  /\ pc[w] = "succeed"
  /\ completed' = completed \cup {job[w]}
  /\ Goto(w, "claim")
  /\ WorkerFrame
  /\ UNCHANGED <<remote, local, pending, failures, discarded, remote_size, job, existing,
                 tried>>

Fail(w) ==
  /\ pc[w] \in {"fail", "fail discard"}
  /\ failures' = failures \cup {job[w]}
  /\ discarded' = IF pc[w] = "fail discard" THEN discarded \cup {job[w]} ELSE discarded
  /\ Goto(w, "claim")
  /\ WorkerFrame
  /\ UNCHANGED <<remote, local, pending, completed, remote_size, job, existing, tried>>

-----------------------------------------------------------------------------
(* Environment.                                                            *)

\* A file is replaced on the server.
ReplaceRemote ==
  \E r \in Resource :
    /\ remote[r] < Len(Size)
    /\ Cardinality({q \in Resource : remote[q] > 1} \cup {r}) <= MaxReplaced
    /\ remote' = [remote EXCEPT ![r] = @ + 1]
    /\ UNCHANGED <<local, rounds, pending, results, remote_size, workers, tried, crashes>>

\* A process starts anew: nothing but the files is left of the last one.
NewProcess ==
  /\ main' = "scan"
  /\ round' = 0
  /\ pending' = {}
  /\ failures' = {}
  /\ discarded' = {}
  /\ completed' = {}
  /\ remote_size' = [r \in Resource |-> Unknown]
  /\ pc' = [w \in Worker |-> "exited"]
  /\ job' = [w \in Worker |-> 0]
  /\ existing' = [w \in Worker |-> 0]
  /\ tried' = [r \in Resource |-> {}]
  /\ UNCHANGED <<remote, local>>

\* The process is killed.  (Bytes it had received and not written are those of an answer
\* that ended earlier.)
Crash ==
  /\ main # "over"
  /\ crashes < MaxCrashes
  /\ crashes' = crashes + 1
  /\ NewProcess

\* The next call, or the next run of the program.
RunAgain ==
  /\ main = "over"
  /\ NewProcess
  /\ UNCHANGED crashes

-----------------------------------------------------------------------------

RangeStep == Scan \/ EndRound \/ Report

WorkerStep(w) ==
  \/ Claim(w) \/ CheckLocal(w) \/ Probe(w) \/ Compare(w)
  \/ ReceiveAll(w) \/ ReceiveSome(w) \/ ReceiveNothing(w)
  \/ Verify(w) \/ Succeed(w) \/ Fail(w)

Next ==
  \/ RangeStep \/ (\E w \in Worker : WorkerStep(w))
  \/ ReplaceRemote \/ Crash \/ RunAgain

Spec == Init /\ [][Next]_vars

\* Every thread runs: libcurl gives up a connection that makes no progress.
FairSpec == Spec /\ WF_vars(RangeStep) /\ \A w \in Worker : WF_vars(WorkerStep(w))

-----------------------------------------------------------------------------
(* Properties.                                                             *)

WorkerLabel == {"exited", "claim", "check", "probe", "compare", "request", "verify",
                "succeed", "fail", "fail discard"}

TypeOK ==
  /\ remote \in [Resource -> Version]
  /\ part \in [Resource -> Seq(Byte) \cup {NoFile}]
  /\ destination \in [Resource -> Seq(Byte) \cup {NoFile}]
  /\ main \in {"scan", "round", "report", "over"}
  /\ round \in 0..Retries
  /\ pending \subseteq Resource
  /\ failures \subseteq Resource
  /\ discarded \subseteq failures
  /\ completed \subseteq Resource
  /\ remote_size \in [Resource -> Nat]
  /\ pc \in [Worker -> WorkerLabel]
  /\ job \in [Worker -> Resource \cup {0}]
  /\ existing \in [Worker -> Nat]
  /\ tried \in [Resource -> SUBSET (0..Retries)]
  /\ sized \subseteq Resource
  /\ crashes \in 0..MaxCrashes

\* Resuming leaves no gap and repeats nothing, whatever mixture of answers in full and in
\* part a file was put together from: each byte is at its own place, and all are of one
\* version unless the server has replaced the file.
ResumeIsSeamless ==
  \A r \in Resource : \A f \in {part[r], destination[r]} \ {NoFile} :
    \A i \in DOMAIN f : f[i][2] = i /\ f[i][1] <= remote[r]

\* A file that got its final name after its size was compared has the size of a version
\* of the remote file, and is that file if it was never replaced (README.md:178).
DownloadIsWhole ==
  \A r \in sized :
    /\ \E v \in Version : Len(destination[r]) = Size[v]
    /\ remote[r] = 1 => destination[r] = Whole(1)

\* When the call ends, the files reported as available are those that are, and the others
\* have been tried in every round (README.md:179).
ReportIsRight ==
  main \in {"report", "over"} =>
    \A r \in Resource :
      /\ r \in completed <=> destination[r] # NoFile
      /\ r \notin completed => r \in failures /\ tried[r] = 0..Retries

\* A downloaded file is never changed, replaced or removed (README.md:181).
SourceIsKept ==
  [][\A r \in Resource : destination[r] # NoFile => destination'[r] = destination[r]]_vars

\* Every call ends.
RunEnds == main = "scan" ~> main = "over"

\* The download is called again when files are missing, and a server that is asked often
\* enough answers a probe and a request; directories can be made and files renamed at last.
Helped ==
  /\ WF_vars(RunAgain)
  /\ \A w \in Worker :
       /\ SF_vars(CheckLocal(w) /\ pc'[w] # "fail")
       /\ SF_vars(Probe(w) /\ pc'[w] = "compare")
       /\ SF_vars(ReceiveAll(w))
       /\ SF_vars((Compare(w) \/ Verify(w)) /\ pc'[w] = "succeed")

\* No partial file is in the way for ever: all files arrive at last.
EventuallyDownloaded == Helped => <>(\A r \in Resource : destination[r] # NoFile)

=============================================================================
