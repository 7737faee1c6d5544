------------------------- MODULE DownloadClientProofs -------------------------
(***************************************************************************)
(* Theorems about DownloadClient, for any number of files, versions, worker *)
(* threads, retry rounds, replaced remote files and kills: the types, what  *)
(* resumption makes of a file, that a downloaded file is the remote file    *)
(* and is never touched again, and what a call reports.                     *)
(***************************************************************************)
EXTENDS DownloadClient, FiniteSetTheorems, SequenceTheorems, NaturalFacts, TLAPS

-----------------------------------------------------------------------------
(* Files.                                                                  *)

LEMMA Versions ==
  /\ Version = 1..Len(Size) /\ Len(Size) \in Nat \ {0} /\ 1 \in Version
  /\ \A v \in Version : v \in Nat \ {0} /\ Size[v] \in Nat \ {0}
<1>1. Size \in Seq(Nat \ {0}) /\ Size # <<>>
  BY ConstantsOK
<1>2. Len(Size) \in Nat \ {0} /\ DOMAIN Size = 1..Len(Size)
  BY <1>1, EmptySeq, LenProperties
<1>3. \A v \in 1..Len(Size) : Size[v] \in Nat \ {0}
  BY <1>1, ElementOfSeq
<1> QED
  BY <1>2, <1>3 DEF Version

\* NoFile is no file.
LEMMA NoFileIsNone == NoFile \notin Seq(Byte)
<1>1. Byte \subseteq (DOMAIN Size) \X Nat
  BY DEF Byte, Version
<1>2. \A f \in Seq(Byte) : f \in Seq((DOMAIN Size) \X Nat)
  BY <1>1, SeqMonotonic
<1> QED
  BY <1>2, ConstantsOK

\* A file without a gap or a repetition, of versions up to n.
Seamless(f, n) == \A i \in DOMAIN f : f[i][2] = i /\ f[i][1] <= n

\* What a name can stand for while the remote file has version n.
FileUpTo(n) == {f \in Seq(Byte) : Seamless(f, n)} \cup {NoFile}

LEMMA FileGrows ==
  ASSUME NEW m \in Nat, NEW n \in Nat, m <= n
  PROVE  FileUpTo(m) \subseteq FileUpTo(n)
<1> SUFFICES ASSUME NEW f \in Seq(Byte), Seamless(f, m) PROVE Seamless(f, n)
  BY DEF FileUpTo
<1>1. \A i \in DOMAIN f : f[i][1] \in Nat
  BY LenProperties, ElementOfSeq, Versions DEF Byte
<1> QED
  BY <1>1 DEF Seamless

LEMMA EmptyFile ==
  ASSUME NEW n
  PROVE  <<>> \in FileUpTo(n) /\ <<>> \in Seq(Byte) /\ <<>> # NoFile
<1>1. <<>> \in Seq(Byte) /\ DOMAIN <<>> = {}
  BY EmptySeq, LenProperties
<1> QED
  BY <1>1, NoFileIsNone DEF FileUpTo, Seamless

\* The bytes of an answer that starts at position first.
LEMMA AnsweredBytes ==
  ASSUME NEW v \in Version, NEW first \in Nat, NEW count \in Nat, first + count <= Size[v]
  PROVE  LET bytes == SubSeq(Whole(v), first + 1, first + count)
         IN  /\ bytes \in Seq(Byte) /\ Len(bytes) = count
             /\ \A i \in 1..count : bytes[i] = <<v, first + i>>
<1> DEFINE bytes == SubSeq(Whole(v), first + 1, first + count)
<1>1. Size[v] \in Nat
  BY Versions
<1>2. \A i \in (first + 1)..(first + count) : Whole(v)[i] = <<v, i>> /\ Whole(v)[i] \in Byte
  BY <1>1 DEF Whole, Byte
<1>3. /\ bytes \in Seq(Byte)
      /\ Len(bytes) = IF first + 1 <= first + count THEN (first + count) - (first + 1) + 1 ELSE 0
      /\ \A i \in 1..((first + count) - (first + 1) + 1) : bytes[i] = Whole(v)[(first + 1) + i - 1]
  BY <1>2, SubSeqProperties
<1> HIDE DEF bytes
<1>4. Len(bytes) = count
  BY <1>3
<1>5. ASSUME NEW i \in 1..count
      PROVE  bytes[i] = <<v, first + i>>
  <2>1. bytes[i] = Whole(v)[(first + 1) + i - 1] /\ (first + 1) + i - 1 = first + i
    BY <1>3
  <2> QED
    BY <1>2, <2>1
<1> QED
  BY <1>3, <1>4, <1>5 DEF bytes

\* A file of the right length and of one version is that version.
LEMMA WholeFile ==
  ASSUME NEW f \in FileUpTo(1), f # NoFile, Len(f) = Size[1]
  PROVE  f = Whole(1)
<1>1. f \in Seq(Byte) /\ Seamless(f, 1) /\ Size[1] \in Nat /\ 1 \in Version
  BY Versions DEF FileUpTo
<1>2. DOMAIN f = 1..Size[1] /\ f \in [1..Size[1] -> Byte]
  BY <1>1, LenProperties
<1>3. ASSUME NEW i \in 1..Size[1]
      PROVE  f[i] = <<1, i>>
  <2>1. f[i] \in Byte /\ f[i][2] = i /\ f[i][1] <= 1
    BY <1>1, <1>2 DEF Seamless
  <2> QED
    BY <2>1, Versions DEF Byte
<1> QED
  BY <1>2, <1>3 DEF Whole

-----------------------------------------------------------------------------
(* The inductive invariant.                                                *)

\* A worker that has claimed a file and not yet put it down.
Active == {w \in Worker : pc[w] \notin {"exited", "claim"}}

\* Every file under a name is seamless, up to the version on the server.
FileInv ==
  \A r \in Resource : part[r] \in FileUpTo(remote[r]) /\ destination[r] \in FileUpTo(remote[r])

\* Workers hold different files, which nobody has downloaded; what a worker knows of its
\* partial file stays true; and when no thread is left no file is unclaimed.
ClaimInv ==
  /\ \A w \in Worker : pc[w] # "exited" => main = "round"
  /\ main = "round" => pending = {} \/ \E w \in Worker : pc[w] # "exited"
  /\ \A w \in Active : job[w] \in Resource
  /\ \A v, w \in Active : v # w => job[v] # job[w]
  /\ \A w \in Active : destination[job[w]] # NoFile <=> pc[w] = "succeed"
  /\ \A w \in Worker : pc[w] \in {"probe", "compare", "request"} => existing[w] = PartSize(job[w])
  /\ \A w \in Worker : pc[w] = "verify" => part[job[w]] # NoFile

\* A known size is that of a version up to the one on the server, and so is the length of a
\* downloaded file whose size was compared.
SizeInv ==
  /\ \A r \in Resource : remote_size[r] # Unknown =>
       \E v \in Version : v <= remote[r] /\ remote_size[r] = Size[v]
  /\ \A r \in sized : destination[r] # NoFile
  /\ DownloadIsWhole

\* Every file of a call is in one of four places, and has been tried in each round so far.
LedgerInv ==
  /\ main = "scan" => round = 0 /\ \A r \in Resource : tried[r] = {}
  /\ main # "scan" => \A r \in Resource :
       /\ r \in completed => destination[r] # NoFile /\ r \notin pending \cup failures
       /\ r \in pending => destination[r] = NoFile /\ r \notin failures /\ tried[r] = 0..(round - 1)
       /\ r \in failures => destination[r] = NoFile /\ tried[r] = 0..round
       /\ r \notin completed \cup pending \cup failures =>
            tried[r] = 0..round /\ \E w \in Active : job[w] = r
       /\ \A w \in Active : job[w] = r => r \notin completed \cup pending \cup failures
  /\ main \in {"report", "over"} =>
       pending = {} /\ (failures # {} => round = Retries)

\* The inductive invariant.
Inv == TypeOK /\ FileInv /\ ClaimInv /\ SizeInv /\ LedgerInv

\* What the invariant says of a worker that holds a file.
LEMMA HeldFile ==
  ASSUME Inv, NEW w \in Active
  PROVE  /\ w \in Worker /\ job[w] \in Resource /\ main = "round" /\ pc[w] \in WorkerLabel
         /\ remote[job[w]] \in Version /\ remote[job[w]] \in Nat \ {0}
         /\ Size[remote[job[w]]] \in Nat \ {0}
         /\ part[job[w]] \in FileUpTo(remote[job[w]])
         /\ existing[w] \in Nat /\ PartSize(job[w]) \in Nat
         /\ remote_size[job[w]] \in Nat
<1>1. w \in Worker /\ job[w] \in Resource /\ main = "round"
  BY DEF Inv, ClaimInv, Active
<1>2. remote[job[w]] \in Version /\ pc[w] \in WorkerLabel
      /\ existing[w] \in Nat /\ remote_size[job[w]] \in Nat
  BY <1>1 DEF Inv, TypeOK
<1>3. part[job[w]] \in FileUpTo(remote[job[w]])
  BY <1>1 DEF Inv, FileInv
<1>4. PartSize(job[w]) \in Nat
  BY <1>3, LenProperties DEF PartSize, FileUpTo
<1> QED
  BY <1>1, <1>2, <1>3, <1>4, Versions

LEMMA InvInit == Init => Inv
<1> SUFFICES ASSUME Init PROVE Inv
  OBVIOUS
<1>1. TypeOK
  BY ConstantsOK, Versions DEF Init, TypeOK, Unknown, WorkerLabel
<1>2. FileInv
  BY DEF Init, FileInv, FileUpTo
<1>3. ClaimInv
  BY DEF Init, ClaimInv, Active
<1>4. SizeInv
  BY DEF Init, SizeInv, DownloadIsWhole
<1>5. LedgerInv
  BY DEF Init, LedgerInv
<1> QED
  BY <1>1, <1>2, <1>3, <1>4, <1>5 DEF Inv

-----------------------------------------------------------------------------
(* What a worker that holds a file does.                                   *)

\* The labels a worker can come to with a file in its hands.
Held == {"probe", "compare", "request", "verify", "succeed", "fail", "fail discard"}

\* The steps between claim and result touch nothing but the worker's own file: its partial
\* file, its size, and at the rename its final name.
HeldStep(w) ==
  LET r == job[w]
  IN  /\ w \in Active
      /\ \E label \in Held : pc' = [pc EXCEPT ![w] = label]
      /\ \E n \in Nat : existing' = [existing EXCEPT ![w] = n]
      /\ \E f \in FileUpTo(remote[r]) : part' = [part EXCEPT ![r] = f]
      /\ \E n \in {remote_size[r], Size[remote[r]]} : remote_size' = [remote_size EXCEPT ![r] = n]
      /\ \/ UNCHANGED <<destination, sized>> /\ pc'[w] # "succeed"
         \/ /\ pc'[w] = "succeed" /\ part[r] # NoFile
            /\ destination' = [destination EXCEPT ![r] = part[r]]
            /\ sized' = IF remote_size[r] = Unknown THEN sized \ {r} ELSE sized \cup {r}
            /\ remote_size[r] = Unknown \/ Len(part[r]) = remote_size[r]
      /\ destination[r] = NoFile
      /\ pc'[w] \in {"probe", "compare", "request"} => existing'[w] = PartSize(r)'
      /\ pc'[w] = "verify" => part'[r] # NoFile
      /\ UNCHANGED <<remote, main, round, pending, failures, discarded, completed, job, tried,
                     crashes>>

\* The rename of a complete partial file.
LEMMA Renames ==
  ASSUME Inv, NEW w \in Active, destination[job[w]] = NoFile, part[job[w]] # NoFile,
         remote_size[job[w]] = Unknown \/ Len(part[job[w]]) = remote_size[job[w]],
         Rename(w), UNCHANGED Unchecked, UNCHANGED <<rounds, crashes>>
  PROVE  HeldStep(w)
<1> DEFINE r == job[w]
<1>1. /\ r \in Resource /\ existing \in [Worker -> Nat] /\ remote_size \in [Resource -> Nat]
      /\ part[r] \in FileUpTo(remote[r]) /\ w \in Worker /\ pc \in [Worker -> WorkerLabel]
  BY HeldFile DEF Inv, TypeOK
<1>2. /\ pc' = [pc EXCEPT ![w] = "succeed"] /\ existing' = [existing EXCEPT ![w] = existing[w]]
      /\ remote_size' = [remote_size EXCEPT ![r] = remote_size[r]]
      /\ part' = [part EXCEPT ![r] = NoFile]
  BY <1>1 DEF Rename, Goto, Unchecked
<1>3. NoFile \in FileUpTo(remote[r])
  BY DEF FileUpTo
<1>4. pc'[w] = "succeed"
  BY <1>1, <1>2
<1>5. /\ destination' = [destination EXCEPT ![r] = part[r]]
      /\ sized' = IF remote_size[r] = Unknown THEN sized \ {r} ELSE sized \cup {r}
      /\ UNCHANGED <<remote, main, round, pending, failures, discarded, completed, job, tried, crashes>>
  BY DEF Rename, Unchecked, results, rounds
<1> QED
  BY <1>1, <1>2, <1>3, <1>4, <1>5 DEF HeldStep, Held

\* A partial file that is removed or left, with a failure.
LEMMA Gives ==
  ASSUME Inv, NEW w \in Active, destination[job[w]] = NoFile,
         Discard(w) \/ RenameFails(w),
         UNCHANGED Unchecked, UNCHANGED <<rounds, crashes>>
  PROVE  HeldStep(w)
<1> DEFINE r == job[w]
<1>1. /\ r \in Resource /\ existing \in [Worker -> Nat] /\ remote_size \in [Resource -> Nat]
      /\ part[r] \in FileUpTo(remote[r]) /\ w \in Worker /\ pc \in [Worker -> WorkerLabel]
      /\ part \in [Resource -> Seq(Byte) \cup {NoFile}]
  BY HeldFile DEF Inv, TypeOK
<1>2. NoFile \in FileUpTo(remote[r])
  BY DEF FileUpTo
<1>3. /\ existing' = [existing EXCEPT ![w] = existing[w]]
      /\ remote_size' = [remote_size EXCEPT ![r] = remote_size[r]]
      /\ UNCHANGED <<destination, sized>>
      /\ UNCHANGED <<remote, main, round, pending, failures, discarded, completed, job, tried, crashes>>
  BY <1>1 DEF Discard, RenameFails, Unchecked, results, rounds, local
<1>4. \E f \in FileUpTo(remote[r]) : part' = [part EXCEPT ![r] = f]
  <2>1. CASE Discard(w)
    BY <1>2, <2>1 DEF Discard, Removed
  <2>2. CASE RenameFails(w)
    BY <1>1, <2>2 DEF RenameFails, local
  <2> QED
    BY <2>1, <2>2
<1>5. \E label \in {"fail", "fail discard"} : pc' = [pc EXCEPT ![w] = label]
  BY DEF Discard, RenameFails, Goto
<1>6. pc'[w] \in {"fail", "fail discard"}
  BY <1>1, <1>5
<1> QED
  BY <1>1, <1>3, <1>4, <1>5, <1>6 DEF HeldStep, Held

LEMMA CheckHeld ==
  ASSUME Inv, NEW w \in Worker, CheckLocal(w)
  PROVE  HeldStep(w)
<1> DEFINE r == job[w]
<1>1. w \in Active /\ pc[w] = "check"
  BY DEF CheckLocal, Active
<1>2. /\ r \in Resource /\ existing \in [Worker -> Nat] /\ remote_size \in [Resource -> Nat]
      /\ part[r] \in FileUpTo(remote[r]) /\ PartSize(r) \in Nat
      /\ part \in [Resource -> Seq(Byte) \cup {NoFile}] /\ pc \in [Worker -> WorkerLabel]
  BY <1>1, HeldFile DEF Inv, TypeOK
<1>3. destination[r] = NoFile
  BY <1>1 DEF Inv, ClaimInv
<1>4. /\ existing' = [existing EXCEPT ![w] = PartSize(r)]
      /\ remote_size' = [remote_size EXCEPT ![r] = remote_size[r]]
      /\ part' = [part EXCEPT ![r] = part[r]] /\ UNCHANGED part
      /\ UNCHANGED <<destination, sized>>
      /\ UNCHANGED <<remote, main, round, pending, failures, discarded, completed, job, tried, crashes>>
  BY <1>2 DEF CheckLocal, results, rounds, local, WorkerFrame
<1>5. \E label \in {"probe", "compare", "fail"} : pc' = [pc EXCEPT ![w] = label]
  BY <1>3 DEF CheckLocal, Goto, Available
<1>6. pc'[w] \in {"probe", "compare", "fail"} /\ existing'[w] = PartSize(r)'
  BY <1>2, <1>4, <1>5 DEF PartSize
<1> QED
  BY <1>1, <1>2, <1>3, <1>4, <1>5, <1>6 DEF HeldStep, Held

LEMMA ProbeHeld ==
  ASSUME Inv, NEW w \in Worker, Probe(w)
  PROVE  HeldStep(w)
<1> DEFINE r == job[w]
<1>1. w \in Active /\ pc[w] = "probe"
  BY DEF Probe, Active
<1>2. /\ r \in Resource /\ existing \in [Worker -> Nat] /\ remote_size \in [Resource -> Nat]
      /\ part[r] \in FileUpTo(remote[r])
      /\ part \in [Resource -> Seq(Byte) \cup {NoFile}] /\ pc \in [Worker -> WorkerLabel]
  BY <1>1, HeldFile DEF Inv, TypeOK
<1>3. destination[r] = NoFile /\ existing[w] = PartSize(r)
  BY <1>1 DEF Inv, ClaimInv
<1>4. /\ existing' = [existing EXCEPT ![w] = existing[w]] /\ existing' = existing
      /\ part' = [part EXCEPT ![r] = part[r]] /\ UNCHANGED part
      /\ UNCHANGED <<destination, sized>>
      /\ UNCHANGED <<remote, main, round, pending, failures, discarded, completed, job, tried, crashes>>
  BY <1>2 DEF Probe, results, rounds, local, WorkerFrame
<1>5. \E n \in {remote_size[r], Size[remote[r]]} : remote_size' = [remote_size EXCEPT ![r] = n]
  BY <1>2 DEF Probe
<1>6. \E label \in {"compare", "fail"} : pc' = [pc EXCEPT ![w] = label]
  BY DEF Probe, Goto
<1>7. pc'[w] \in {"compare", "fail"} /\ existing'[w] = PartSize(r)'
  BY <1>2, <1>3, <1>4, <1>6 DEF PartSize
<1> QED
  BY <1>1, <1>2, <1>3, <1>4, <1>5, <1>6, <1>7 DEF HeldStep, Held

LEMMA CompareHeld ==
  ASSUME Inv, NEW w \in Worker, Compare(w)
  PROVE  HeldStep(w)
<1> DEFINE r == job[w]
<1>1. w \in Active /\ pc[w] = "compare"
  BY DEF Compare, Active
<1>2. /\ r \in Resource /\ existing \in [Worker -> Nat] /\ remote_size \in [Resource -> Nat]
      /\ part[r] \in FileUpTo(remote[r])
      /\ part \in [Resource -> Seq(Byte) \cup {NoFile}] /\ pc \in [Worker -> WorkerLabel]
  BY <1>1, HeldFile DEF Inv, TypeOK
<1>3. destination[r] = NoFile /\ existing[w] = PartSize(r)
  BY <1>1 DEF Inv, ClaimInv
<1>4. UNCHANGED Unchecked /\ UNCHANGED <<rounds, crashes>>
  BY DEF Compare, WorkerFrame
<1>5. CASE Discard(w) \/ RenameFails(w)
  BY <1>1, <1>3, <1>4, <1>5, Gives
<1>6. CASE remote_size[r] # Unknown /\ existing[w] = remote_size[r] /\ Rename(w)
  <2>1. part[r] # NoFile /\ Len(part[r]) = remote_size[r]
    BY <1>3, <1>6 DEF PartSize, Unknown
  <2> QED
    BY <1>1, <1>3, <1>4, <1>6, <2>1, Renames
<1>7. CASE Goto(w, "request") /\ UNCHANGED local
  <2>1. /\ existing' = [existing EXCEPT ![w] = existing[w]] /\ existing' = existing
        /\ remote_size' = [remote_size EXCEPT ![r] = remote_size[r]]
        /\ part' = [part EXCEPT ![r] = part[r]] /\ UNCHANGED part
        /\ UNCHANGED <<destination, sized>>
        /\ UNCHANGED <<remote, main, round, pending, failures, discarded, completed, job, tried, crashes>>
    BY <1>2, <1>4, <1>7 DEF Unchecked, local, rounds, results
  <2>2. pc' = [pc EXCEPT ![w] = "request"] /\ pc'[w] = "request"
    BY <1>2, <1>7 DEF Goto
  <2>3. existing'[w] = PartSize(r)'
    BY <1>3, <2>1 DEF PartSize
  <2> QED
    BY <1>1, <1>2, <1>3, <2>1, <2>2, <2>3 DEF HeldStep, Held
<1> QED
  BY <1>5, <1>6, <1>7 DEF Compare

LEMMA VerifyHeld ==
  ASSUME Inv, NEW w \in Worker, Verify(w)
  PROVE  HeldStep(w)
<1>1. w \in Active /\ pc[w] = "verify"
  BY DEF Verify, Active
<1>2. destination[job[w]] = NoFile /\ part[job[w]] # NoFile
  BY <1>1 DEF Inv, ClaimInv
<1>3. UNCHANGED Unchecked /\ UNCHANGED <<rounds, crashes>>
  BY DEF Verify, WorkerFrame
<1>4. CASE Discard(w) \/ RenameFails(w)
  BY <1>1, <1>2, <1>3, <1>4, Gives
<1>5. CASE SizeRight(job[w]) /\ Rename(w)
  BY <1>1, <1>2, <1>3, <1>5, Renames DEF SizeRight
<1> QED
  BY <1>4, <1>5 DEF Verify

\* Whatever part of an answer is written, the partial file stays seamless: an answer in part
\* begins where the file ends, an answer in full replaces it.
LEMMA SinkIsSeamless ==
  ASSUME Inv, NEW w \in Worker, pc[w] = "request", NEW answer \in Answers(w), NEW count \in Nat,
         answer.first + count <= Size[remote[job[w]]]
  PROVE  Sink(w, answer.status, answer.first, count) \in FileUpTo(remote[job[w]])
<1> DEFINE r == job[w]
           v == remote[r]
           first == answer.first
           bytes == SubSeq(Whole(v), first + 1, first + count)
<1>1. /\ r \in Resource /\ v \in Version /\ v \in Nat /\ part[r] \in FileUpTo(v)
      /\ existing[w] = PartSize(r) /\ existing[w] \in Nat
  BY HeldFile DEF Inv, ClaimInv, Active
<1>2. \/ answer.status = 200 /\ first = 0
      \/ answer.status = 206 /\ first = existing[w] /\ existing[w] > 0
  BY DEF Answers
<1>3. first \in Nat
  BY <1>1, <1>2
<1>4. /\ bytes \in Seq(Byte) /\ Len(bytes) = count
      /\ \A i \in 1..count : bytes[i] = <<v, first + i>>
  BY <1>1, <1>3, AnsweredBytes
<1> HIDE DEF bytes
<1>5. ASSUME NEW i \in 1..count
      PROVE  bytes[i][1] = v /\ bytes[i][2] = first + i
  <2>1. bytes[i] = <<v, first + i>>
    BY <1>4
  <2> QED
    BY <2>1
<1>6. CASE count = 0
  BY <1>1, <1>6 DEF Sink
<1>7. CASE count # 0 /\ Appends(w, answer.status)
  <2>1. first = existing[w] /\ existing[w] > 0 /\ part[r] \in Seq(Byte) /\ Len(part[r]) = first
        /\ Seamless(part[r], v) /\ DOMAIN part[r] = 1..first
    BY <1>1, <1>2, <1>7, LenProperties DEF Appends, PartSize, FileUpTo
  <2> DEFINE f == part[r] \o bytes
  <2>2. /\ f \in Seq(Byte) /\ Len(f) = first + count
        /\ \A i \in 1..(first + count) : f[i] = IF i <= first THEN part[r][i] ELSE bytes[i - first]
    <3>1. /\ f \in Seq(Byte) /\ Len(f) = Len(part[r]) + Len(bytes)
          /\ \A i \in 1..(Len(part[r]) + Len(bytes)) :
               f[i] = IF i <= Len(part[r]) THEN part[r][i] ELSE bytes[i - Len(part[r])]
      BY ZenonT(40), <1>4, <2>1, ConcatProperties
    <3> HIDE DEF f
    <3>2. Len(part[r]) = first /\ Len(bytes) = count
      BY <1>4, <2>1
    <3> QED
      BY <3>1, <3>2
  <2>3. Sink(w, answer.status, first, count) = f
    BY <1>7 DEF Sink, bytes
  <2> HIDE DEF f
  <2>4. ASSUME NEW i \in 1..(first + count)
        PROVE  f[i][2] = i /\ f[i][1] <= v
    <3>1. CASE i <= first
      <4>1. i \in 1..first /\ f[i] = part[r][i]
        BY <1>3, <2>2, <3>1
      <4> QED
        BY <2>1, <4>1 DEF Seamless
    <3>2. CASE ~(i <= first)
      <4>1. i - first \in 1..count /\ f[i] = bytes[i - first] /\ first + (i - first) = i
        BY <1>3, <2>2, <3>2
      <4> QED
        BY <1>1, <1>5, <4>1
    <3> QED
      BY <3>1, <3>2
  <2>5. DOMAIN f = 1..(first + count)
    BY <2>2, LenProperties
  <2> QED
    BY <2>2, <2>3, <2>4, <2>5 DEF Seamless, FileUpTo
<1>8. CASE count # 0 /\ ~Appends(w, answer.status)
  <2>1. first = 0
    BY <1>1, <1>2, <1>8 DEF Appends
  <2>2. Sink(w, answer.status, first, count) = bytes
    BY <1>8 DEF Sink, bytes
  <2>3. DOMAIN bytes = 1..count
    BY <1>4, LenProperties
  <2> QED
    BY <1>1, <1>4, <1>5, <2>1, <2>2, <2>3 DEF Seamless, FileUpTo
<1> QED
  BY <1>6, <1>7, <1>8

\* The end of a transfer that libcurl has seen no error in.
LEMMA ReceivedHeld ==
  ASSUME Inv, NEW w \in Worker, pc[w] = "request", NEW answer \in Answers(w), NEW count \in Nat,
         NEW reported \in BOOLEAN, answer.first + count <= Size[remote[job[w]]],
         Received(w, answer, count, reported), RequestFrame
  PROVE  HeldStep(w)
<1> DEFINE r == job[w]
           p == Sink(w, answer.status, answer.first, count)
           f == IF p = NoFile THEN <<>> ELSE p
           n == IF reported THEN Size[remote[r]] ELSE remote_size[r]
<1>1. w \in Active
  BY DEF Active
<1>2. /\ r \in Resource /\ existing \in [Worker -> Nat] /\ remote_size \in [Resource -> Nat]
      /\ pc \in [Worker -> WorkerLabel] /\ part \in [Resource -> Seq(Byte) \cup {NoFile}]
  BY <1>1, HeldFile DEF Inv, TypeOK
<1>3. p \in FileUpTo(remote[r])
  BY SinkIsSeamless
<1>4. f \in FileUpTo(remote[r]) /\ f # NoFile
  <2> HIDE DEF p
  <2> QED
    BY <1>3, EmptyFile
<1>5. part' = [part EXCEPT ![r] = f] /\ pc' = [pc EXCEPT ![w] = "verify"]
      /\ remote_size' = [remote_size EXCEPT ![r] = n]
  BY DEF Received, Goto
<1> HIDE DEF f
<1>6. part'[r] # NoFile /\ pc'[w] = "verify"
  BY <1>2, <1>4, <1>5
<1>7. n \in {remote_size[r], Size[remote[r]]}
  OBVIOUS
<1>8. destination[r] = NoFile
  BY <1>1 DEF Inv, ClaimInv
<1>9. /\ existing' = [existing EXCEPT ![w] = existing[w]]
      /\ UNCHANGED <<destination, sized>>
      /\ UNCHANGED <<remote, main, round, pending, failures, discarded, completed, job, tried, crashes>>
  BY <1>2 DEF RequestFrame, WorkerFrame, results, rounds
<1> HIDE DEF n
<1> QED
  BY <1>1, <1>2, <1>4, <1>5, <1>6, <1>7, <1>8, <1>9 DEF HeldStep, Held

\* A transfer that ends in an error.
LEMMA BrokenHeld ==
  ASSUME Inv, NEW w \in Worker, pc[w] = "request", NEW f \in FileUpTo(remote[job[w]]),
         part' = [part EXCEPT ![job[w]] = f], Goto(w, "fail"), UNCHANGED remote_size, RequestFrame
  PROVE  HeldStep(w)
<1> DEFINE r == job[w]
<1>1. w \in Active
  BY DEF Active
<1>2. /\ r \in Resource /\ existing \in [Worker -> Nat] /\ remote_size \in [Resource -> Nat]
      /\ pc \in [Worker -> WorkerLabel]
  BY <1>1, HeldFile DEF Inv, TypeOK
<1>3. pc' = [pc EXCEPT ![w] = "fail"] /\ pc'[w] = "fail"
  BY <1>2 DEF Goto
<1>4. destination[r] = NoFile
  BY <1>1 DEF Inv, ClaimInv
<1>5. /\ existing' = [existing EXCEPT ![w] = existing[w]]
      /\ remote_size' = [remote_size EXCEPT ![r] = remote_size[r]]
      /\ UNCHANGED <<destination, sized>>
      /\ UNCHANGED <<remote, main, round, pending, failures, discarded, completed, job, tried, crashes>>
  BY <1>2 DEF RequestFrame, WorkerFrame, results, rounds
<1> QED
  BY <1>1, <1>2, <1>3, <1>4, <1>5 DEF HeldStep, Held

LEMMA ReceiveHeld ==
  ASSUME Inv, NEW w \in Worker, ReceiveAll(w) \/ ReceiveSome(w) \/ ReceiveNothing(w)
  PROVE  HeldStep(w)
<1> DEFINE r == job[w]
           size == Size[remote[r]]
<1>1. w \in Active /\ pc[w] = "request" /\ RequestFrame
  BY DEF Active, ReceiveAll, ReceiveSome, ReceiveNothing
<1>2. /\ r \in Resource /\ size \in Nat \ {0} /\ existing[w] \in Nat
      /\ part[r] \in FileUpTo(remote[r]) /\ part \in [Resource -> Seq(Byte) \cup {NoFile}]
  BY <1>1, HeldFile DEF Inv, TypeOK
<1>3. \A answer \in Answers(w) : answer.first \in 0..(size - 1)
  BY <1>2 DEF Answers
<1> HIDE DEF size
<1>4. CASE ReceiveAll(w)
  <2>1. PICK answer \in Answers(w), reported \in Reporting :
          Received(w, answer, size - answer.first, reported)
    BY <1>4 DEF ReceiveAll, size
  <2>2. size - answer.first \in Nat /\ answer.first + (size - answer.first) <= Size[remote[job[w]]]
    BY <1>2, <1>3 DEF size
  <2>3. reported \in BOOLEAN
    BY ConstantsOK
  <2> QED
    BY <1>1, <2>1, <2>2, <2>3, ReceivedHeld
<1>5. CASE ReceiveSome(w)
  <2>1. PICK answer \in Answers(w) :
          \E count \in 0..(size - answer.first - 1) :
            \/ /\ part' = [part EXCEPT ![r] = Sink(w, answer.status, answer.first, count)]
               /\ Goto(w, "fail")
               /\ UNCHANGED remote_size
            \/ Received(w, answer, count, FALSE)
    BY <1>5 DEF ReceiveSome, size
  <2>2. PICK count \in 0..(size - answer.first - 1) :
          \/ /\ part' = [part EXCEPT ![r] = Sink(w, answer.status, answer.first, count)]
             /\ Goto(w, "fail")
             /\ UNCHANGED remote_size
          \/ Received(w, answer, count, FALSE)
    BY <2>1
  <2>3. count \in Nat /\ answer.first + count <= Size[remote[job[w]]]
    BY <1>2, <1>3 DEF size
  <2>4. CASE Received(w, answer, count, FALSE)
    BY <1>1, <2>3, <2>4, ReceivedHeld
  <2>5. CASE /\ part' = [part EXCEPT ![r] = Sink(w, answer.status, answer.first, count)]
             /\ Goto(w, "fail")
             /\ UNCHANGED remote_size
    <3>1. Sink(w, answer.status, answer.first, count) \in FileUpTo(remote[r])
      BY <1>1, <2>3, SinkIsSeamless
    <3> QED
      BY <1>1, <2>5, <3>1, BrokenHeld
  <2> QED
    BY <2>2, <2>4, <2>5
<1>6. CASE ReceiveNothing(w)
  <2>1. Goto(w, "fail") /\ UNCHANGED remote_size /\ part' = [part EXCEPT ![r] = part[r]]
    BY <1>2, <1>6 DEF ReceiveNothing
  <2> QED
    BY <1>1, <1>2, <2>1, BrokenHeld
<1> QED
  BY <1>4, <1>5, <1>6

-----------------------------------------------------------------------------
(* Such a step keeps the invariant.                                        *)

\* What changes, worker by worker and file by file.
LEMMA HeldChanges ==
  ASSUME Inv, NEW w \in Worker, HeldStep(w)
  PROVE  LET r == job[w]
         IN  /\ w \in Active /\ r \in Resource /\ main = "round" /\ destination[r] = NoFile
             /\ \A q \in Resource \ {r} : /\ part'[q] = part[q] /\ destination'[q] = destination[q]
                                          /\ remote_size'[q] = remote_size[q]
                                          /\ q \in sized' <=> q \in sized
             /\ \A v \in Worker \ {w} : pc'[v] = pc[v] /\ existing'[v] = existing[v]
             /\ pc'[w] \in Held /\ Active' = Active
             /\ part'[r] \in FileUpTo(remote[r])
             /\ remote_size'[r] \in {remote_size[r], Size[remote[r]]}
             /\ part' \in [Resource -> Seq(Byte) \cup {NoFile}]
             /\ destination' \in [Resource -> Seq(Byte) \cup {NoFile}]
             /\ remote_size' \in [Resource -> Nat] /\ existing' \in [Worker -> Nat]
             /\ pc' \in [Worker -> WorkerLabel] /\ sized' \subseteq Resource
<1> DEFINE r == job[w]
<1>1. /\ w \in Active /\ r \in Resource /\ main = "round" /\ destination[r] = NoFile
      /\ part[r] \in FileUpTo(remote[r]) /\ Size[remote[r]] \in Nat
  BY HeldFile DEF HeldStep
<1>2. TypeOK
  BY DEF Inv
<1>3. PICK label \in Held : pc' = [pc EXCEPT ![w] = label]
  BY DEF HeldStep
<1>4. PICK e \in Nat : existing' = [existing EXCEPT ![w] = e]
  BY DEF HeldStep
<1>5. PICK f \in FileUpTo(remote[r]) : part' = [part EXCEPT ![r] = f]
  BY DEF HeldStep
<1>6. PICK n \in {remote_size[r], Size[remote[r]]} : remote_size' = [remote_size EXCEPT ![r] = n]
  BY DEF HeldStep
<1>7. Held \subseteq WorkerLabel /\ "exited" \notin Held /\ "claim" \notin Held
  BY DEF Held, WorkerLabel
<1>8. /\ \A v \in Worker \ {w} : pc'[v] = pc[v] /\ existing'[v] = existing[v]
      /\ pc'[w] \in Held /\ pc' \in [Worker -> WorkerLabel] /\ existing' \in [Worker -> Nat]
  BY <1>2, <1>3, <1>4, <1>7 DEF TypeOK
<1>9. Active' = Active
  BY <1>1, <1>7, <1>8 DEF Active
<1>10. \A g \in FileUpTo(remote[r]) : g \in Seq(Byte) \cup {NoFile}
  BY DEF FileUpTo
<1>11. /\ \A q \in Resource \ {r} : part'[q] = part[q] /\ remote_size'[q] = remote_size[q]
       /\ part'[r] \in FileUpTo(remote[r]) /\ part' \in [Resource -> Seq(Byte) \cup {NoFile}]
       /\ remote_size'[r] \in {remote_size[r], Size[remote[r]]} /\ remote_size' \in [Resource -> Nat]
  BY <1>1, <1>2, <1>5, <1>6, <1>10 DEF TypeOK
<1>12. /\ \A q \in Resource \ {r} : destination'[q] = destination[q] /\ (q \in sized' <=> q \in sized)
       /\ destination' \in [Resource -> Seq(Byte) \cup {NoFile}] /\ sized' \subseteq Resource
  <2>1. CASE UNCHANGED <<destination, sized>>
    BY <1>2, <2>1 DEF TypeOK
  <2>2. CASE /\ destination' = [destination EXCEPT ![r] = part[r]]
             /\ sized' = IF remote_size[r] = Unknown THEN sized \ {r} ELSE sized \cup {r}
    BY <1>1, <1>2, <1>10, <2>2 DEF TypeOK
  <2> QED
    BY <2>1, <2>2 DEF HeldStep
<1> QED
  BY <1>1, <1>8, <1>9, <1>11, <1>12

LEMMA HeldKeepsTypes ==
  ASSUME Inv, NEW w \in Worker, HeldStep(w)
  PROVE  TypeOK'
<1>1. UNCHANGED <<remote, main, round, pending, failures, discarded, completed, job, tried, crashes>>
  BY DEF HeldStep
<1> QED
  BY <1>1, HeldChanges DEF Inv, TypeOK, Resource, Worker, Version, Byte, WorkerLabel

LEMMA HeldKeepsFiles ==
  ASSUME Inv, NEW w \in Worker, HeldStep(w)
  PROVE  FileInv'
<1> DEFINE r == job[w]
<1>1. UNCHANGED remote
  BY DEF HeldStep
<1>2. ASSUME NEW q \in Resource
      PROVE  part'[q] \in FileUpTo(remote[q]) /\ destination'[q] \in FileUpTo(remote[q])
  <2>1. part[q] \in FileUpTo(remote[q]) /\ destination[q] \in FileUpTo(remote[q])
    BY DEF Inv, FileInv
  <2>2. CASE q # r
    BY <2>1, <2>2, HeldChanges
  <2>3. CASE q = r
    <3>1. destination \in [Resource -> Seq(Byte) \cup {NoFile}]
      BY DEF Inv, TypeOK
    <3>2. destination'[r] \in {destination[r], part[r]}
      BY <2>3, <3>1 DEF HeldStep
    <3> QED
      BY <2>1, <2>3, <3>2, HeldChanges
  <2> QED
    BY <2>2, <2>3
<1> QED
  BY <1>1, <1>2 DEF FileInv, FileUpTo, Byte, Version, Resource

LEMMA HeldKeepsClaims ==
  ASSUME Inv, NEW w \in Worker, HeldStep(w)
  PROVE  ClaimInv'
<1> DEFINE r == job[w]
<1>1. UNCHANGED <<main, job>> /\ ClaimInv
  BY DEF HeldStep, Inv
<1>2. /\ w \in Active /\ r \in Resource /\ main = "round" /\ Active' = Active
      /\ \A q \in Resource \ {r} : part'[q] = part[q] /\ destination'[q] = destination[q]
      /\ \A v \in Worker \ {w} : pc'[v] = pc[v] /\ existing'[v] = existing[v]
      /\ pc'[w] \in Held /\ destination[r] = NoFile
  BY HeldChanges
<1>3. \E v \in Worker : pc'[v] # "exited"
  BY <1>2 DEF Held
<1>4. ASSUME NEW v \in Active
      PROVE  destination'[job[v]] # NoFile <=> pc'[v] = "succeed"
  <2>1. CASE v # w
    BY <1>1, <1>2, <2>1 DEF ClaimInv, Active
  <2>2. CASE v = w
    <3>1. destination \in [Resource -> Seq(Byte) \cup {NoFile}]
      BY DEF Inv, TypeOK
    <3> QED
      BY <1>2, <2>2, <3>1 DEF HeldStep
  <2> QED
    BY <2>1, <2>2
<1>5. ASSUME NEW v \in Worker, pc'[v] \in {"probe", "compare", "request"}
      PROVE  existing'[v] = PartSize(job[v])'
  <2>1. CASE v # w
    <3>1. v \in Active /\ existing[v] = PartSize(job[v]) /\ job[v] \in Resource \ {r}
      BY <1>1, <1>2, <1>5, <2>1 DEF ClaimInv, Active
    <3> QED
      BY <1>1, <1>2, <2>1, <3>1 DEF PartSize
  <2>2. CASE v = w
    BY <1>1, <1>5, <2>2 DEF HeldStep, PartSize
  <2> QED
    BY <2>1, <2>2
<1>6. ASSUME NEW v \in Worker, pc'[v] = "verify"
      PROVE  part'[job[v]] # NoFile
  <2>1. CASE v # w
    BY <1>1, <1>2, <1>6, <2>1 DEF ClaimInv, Active
  <2>2. CASE v = w
    BY <1>6, <2>2 DEF HeldStep
  <2> QED
    BY <2>1, <2>2
<1>7. /\ \A v \in Active' : job'[v] \in Resource
      /\ \A u, v \in Active' : u # v => job'[u] # job'[v]
  BY <1>1, <1>2 DEF ClaimInv
<1>8. /\ \A v \in Active' : destination'[job'[v]] # NoFile <=> pc'[v] = "succeed"
      /\ \A v \in Worker : pc'[v] \in {"probe", "compare", "request"} => existing'[v] = PartSize(job[v])'
      /\ \A v \in Worker : pc'[v] = "verify" => part'[job'[v]] # NoFile
  BY <1>1, <1>2, <1>4, <1>5, <1>6
<1>9. main' = "round"
  BY <1>1, <1>2
<1> HIDE DEF r
<1> QED
  BY <1>3, <1>7, <1>8, <1>9 DEF ClaimInv, Resource, Worker

LEMMA HeldKeepsSizes ==
  ASSUME Inv, NEW w \in Worker, HeldStep(w)
  PROVE  SizeInv'
<1> DEFINE r == job[w]
<1>1. UNCHANGED remote /\ SizeInv /\ TypeOK
  BY DEF HeldStep, Inv
<1>2. /\ w \in Active /\ r \in Resource /\ destination[r] = NoFile
      /\ remote[r] \in Version /\ remote[r] \in Nat \ {0} /\ part[r] \in FileUpTo(remote[r])
      /\ remote_size'[r] \in {remote_size[r], Size[remote[r]]}
      /\ \A q \in Resource \ {r} : /\ destination'[q] = destination[q]
                                   /\ remote_size'[q] = remote_size[q] /\ (q \in sized' <=> q \in sized)
  BY HeldChanges, HeldFile
<1>3. ASSUME NEW q \in Resource, remote_size'[q] # Unknown
      PROVE  \E v \in Version : v <= remote[q] /\ remote_size'[q] = Size[v]
  BY <1>1, <1>2, <1>3 DEF SizeInv
<1>4. sized' \subseteq Resource
  BY HeldChanges
<1>5. ASSUME NEW q \in sized'
      PROVE  /\ destination'[q] # NoFile
             /\ \E v \in Version : Len(destination'[q]) = Size[v]
             /\ remote[q] = 1 => destination'[q] = Whole(1)
  <2>1. CASE q # r
    BY <1>1, <1>2, <1>4, <2>1 DEF SizeInv, DownloadIsWhole
  <2>2. CASE q = r
    <3>1. CASE UNCHANGED <<destination, sized>>
      BY <1>1, <1>2, <2>2, <3>1 DEF SizeInv
    <3>2. CASE /\ part[r] # NoFile
               /\ destination' = [destination EXCEPT ![r] = part[r]]
               /\ sized' = IF remote_size[r] = Unknown THEN sized \ {r} ELSE sized \cup {r}
               /\ remote_size[r] = Unknown \/ Len(part[r]) = remote_size[r]
      <4>1. destination'[r] = part[r] /\ Len(part[r]) = remote_size[r] /\ remote_size[r] # Unknown
        BY <1>1, <1>2, <2>2, <3>2 DEF TypeOK
      <4>2. PICK v \in Version : v <= remote[r] /\ remote_size[r] = Size[v]
        BY <1>1, <1>2, <4>1 DEF SizeInv
      <4>3. ASSUME remote[r] = 1
            PROVE  part[r] = Whole(1)
        <5>1. v = 1
          BY <4>2, <4>3, Versions
        <5> QED
          BY <1>2, <3>2, <4>1, <4>2, <4>3, <5>1, WholeFile
      <4> QED
        BY <2>2, <3>2, <4>1, <4>2, <4>3
    <3> QED
      BY <3>1, <3>2 DEF HeldStep
  <2> QED
    BY <2>1, <2>2
<1>6. DownloadIsWhole'
  BY <1>1, <1>5 DEF DownloadIsWhole, Version, Whole
<1> QED
  BY <1>1, <1>3, <1>5, <1>6 DEF SizeInv, Version, Resource

LEMMA HeldKeepsLedger ==
  ASSUME Inv, NEW w \in Worker, HeldStep(w)
  PROVE  LedgerInv'
<1> DEFINE r == job[w]
<1>1. UNCHANGED <<main, round, pending, failures, completed, job, tried>> /\ LedgerInv
  BY DEF HeldStep, Inv
<1>2. /\ w \in Active /\ r \in Resource /\ main = "round" /\ Active' = Active
      /\ \A q \in Resource \ {r} : destination'[q] = destination[q]
  BY HeldChanges
<1>3. r \notin completed \cup pending \cup failures
  BY <1>1, <1>2 DEF LedgerInv
<1>4. \A q \in completed \cup pending \cup failures :
        q \in Resource => destination'[q] = destination[q]
  BY <1>2, <1>3
<1> HIDE DEF r
<1> QED
  BY <1>1, <1>2, <1>4 DEF LedgerInv, Resource

LEMMA HeldKeeps ==
  ASSUME Inv, NEW w \in Worker, HeldStep(w)
  PROVE  Inv'
BY HeldKeepsTypes, HeldKeepsFiles, HeldKeepsClaims, HeldKeepsSizes, HeldKeepsLedger DEF Inv

-----------------------------------------------------------------------------
(* A worker takes a file, and puts it down.                                *)

LEMMA LeastPending ==
  ASSUME NEW S \in SUBSET Resource, S # {}
  PROVE  Least(S) \in S
<1>1. S \subseteq Nat
  BY ConstantsOK DEF Resource
<1>2. \E r \in S : \A q \in S : r <= q
  BY <1>1, LeastNatural
<1> QED
  BY <1>2 DEF Least

LEMMA ClaimKeeps ==
  ASSUME Inv, NEW w \in Worker, Claim(w)
  PROVE  Inv'
<1>1. /\ pc[w] = "claim" /\ w \notin Active /\ main = "round"
      /\ UNCHANGED <<remote, part, destination, sized, main, round, failures, discarded, completed,
                     remote_size, existing, crashes>>
  BY DEF Inv, ClaimInv, Claim, Active, WorkerFrame, local, results, rounds
<1>2. TypeOK /\ FileInv /\ ClaimInv /\ SizeInv /\ LedgerInv
  BY DEF Inv
<1>3. FileInv'
  BY <1>1, <1>2 DEF FileInv, FileUpTo, Byte, Version, Resource
<1>4. SizeInv'
  BY <1>1, <1>2 DEF SizeInv, DownloadIsWhole, Version, Resource, Whole
<1>5. CASE pending = {}
  <2>1. /\ pc' = [pc EXCEPT ![w] = "exited"] /\ UNCHANGED <<pending, job, tried>>
    BY <1>5 DEF Claim, Goto
  <2>2. Active' = Active
    BY <1>1, <1>2, <2>1 DEF Active, TypeOK
  <2>3. TypeOK'
    BY <1>1, <1>2, <2>1 DEF TypeOK, Resource, Worker, Version, Byte, WorkerLabel
  <2>4. ClaimInv'
    <3>1. /\ \A v \in Worker : pc'[v] \in {pc[v], "exited"}
          /\ \A v \in Active : pc'[v] = pc[v]
      BY <1>1, <1>2, <2>1 DEF TypeOK, Active
    <3> QED
      BY <1>1, <1>2, <1>5, <2>1, <2>2, <3>1 DEF ClaimInv, Resource, Worker, PartSize
  <2>5. LedgerInv'
    BY <1>1, <1>2, <2>1, <2>2 DEF LedgerInv, Resource
  <2> QED
    BY <1>3, <1>4, <2>3, <2>4, <2>5 DEF Inv
<1>6. CASE pending # {}
  <2> DEFINE r == Least(pending)
  <2>1. /\ r \in pending /\ r \in Resource
        /\ pending' = pending \ {r} /\ job' = [job EXCEPT ![w] = r]
        /\ tried' = [tried EXCEPT ![r] = @ \cup {round}] /\ pc' = [pc EXCEPT ![w] = "check"]
    BY <1>2, <1>6, LeastPending DEF Claim, Goto, Remaining, TypeOK
  <2> HIDE DEF r
  <2>2. /\ pc'[w] = "check" /\ job'[w] = r
        /\ \A v \in Worker \ {w} : pc'[v] = pc[v] /\ job'[v] = job[v]
        /\ Active' = Active \cup {w}
    BY <1>2, <2>1 DEF TypeOK, Active
  <2>3. destination[r] = NoFile /\ tried[r] = 0..(round - 1) /\ r \notin failures /\ r \notin completed
    BY <1>1, <1>2, <2>1 DEF LedgerInv
  <2>4. /\ \A v \in Active : job[v] # r
        /\ \A v \in Active : v # w /\ job'[v] = job[v] /\ pc'[v] = pc[v]
    BY <1>1, <1>2, <2>1, <2>2 DEF LedgerInv, Active
  <2>5. tried'[r] = 0..round /\ \A q \in Resource \ {r} : tried'[q] = tried[q]
    <3>1. round \in Nat
      BY <1>2, ConstantsOK DEF TypeOK
    <3>2. (0..(round - 1)) \cup {round} = 0..round
      BY <3>1
    <3> QED
      BY <1>2, <2>1, <2>3, <3>2 DEF TypeOK
  <2>6. TypeOK'
    <3>1. "check" \in WorkerLabel /\ round \in 0..Retries
      BY <1>2 DEF WorkerLabel, TypeOK
    <3>2. /\ pc' \in [Worker -> WorkerLabel] /\ job' \in [Worker -> Resource \cup {0}]
          /\ tried' \in [Resource -> SUBSET (0..Retries)] /\ pending' \subseteq Resource
      BY <1>2, <2>1, <3>1 DEF TypeOK
    <3> QED
      BY <1>1, <1>2, <3>2 DEF TypeOK, Resource, Worker, Version, Byte, WorkerLabel
  <2>7. ClaimInv'
    <3>1. /\ \A v \in Active' : job'[v] \in Resource
          /\ \A u, v \in Active' : u # v => job'[u] # job'[v]
      BY <1>2, <2>1, <2>2, <2>4 DEF ClaimInv
    <3>2. \A v \in Active' : destination'[job'[v]] # NoFile <=> pc'[v] = "succeed"
      BY <1>1, <1>2, <2>2, <2>3, <2>4 DEF ClaimInv
    <3>3. /\ \A v \in Worker : pc'[v] \in {"probe", "compare", "request"} => existing'[v] = PartSize(job[v]) /\ job'[v] = job[v]
          /\ \A v \in Worker : pc'[v] = "verify" => part'[job'[v]] # NoFile
      BY <1>1, <1>2, <2>2 DEF ClaimInv
    <3>4. main' = "round" /\ \E v \in Worker : pc'[v] # "exited"
      BY <1>1, <2>2
    <3> QED
      BY <1>1, <3>1, <3>2, <3>3, <3>4 DEF ClaimInv, Resource, Worker, PartSize
  <2>8. LedgerInv'
    <3>1. ASSUME NEW q \in Resource
          PROVE  /\ q \in completed => destination[q] # NoFile /\ q \notin pending' \cup failures
                 /\ q \in pending' => destination[q] = NoFile /\ q \notin failures /\ tried'[q] = 0..(round - 1)
                 /\ q \in failures => destination[q] = NoFile /\ tried'[q] = 0..round
                 /\ q \notin completed \cup pending' \cup failures =>
                      tried'[q] = 0..round /\ \E v \in Active' : job'[v] = q
                 /\ \A v \in Active' : job'[v] = q => q \notin completed \cup pending' \cup failures
      <4>1. CASE q = r
        BY <1>1, <2>1, <2>2, <2>3, <2>4, <2>5, <4>1
      <4>2. CASE q # r
        BY <1>1, <1>2, <2>1, <2>2, <2>4, <2>5, <4>2 DEF LedgerInv
      <4> QED
        BY <4>1, <4>2
    <3> QED
      BY <1>1, <3>1 DEF LedgerInv, Resource
  <2> QED
    BY <1>3, <1>4, <2>6, <2>7, <2>8 DEF Inv
<1> QED
  BY <1>5, <1>6

\* A worker that holds no file any more.
LEMMA PutDown ==
  ASSUME Inv, NEW w \in Active, Goto(w, "claim")
  PROVE  /\ pc' \in [Worker -> WorkerLabel] /\ pc'[w] = "claim"
         /\ \A v \in Worker \ {w} : pc'[v] = pc[v]
         /\ Active' = Active \ {w}
         /\ \A v \in Active' : v \in Active /\ job[v] # job[w] /\ pc'[v] = pc[v]
         /\ job[w] \in Resource /\ main = "round"
         /\ job[w] \notin completed \cup pending \cup failures
<1>1. TypeOK /\ ClaimInv /\ LedgerInv /\ w \in Worker /\ job[w] \in Resource /\ main = "round"
  BY HeldFile DEF Inv
<1>2. "claim" \in WorkerLabel
  BY DEF WorkerLabel
<1>3. /\ pc' \in [Worker -> WorkerLabel] /\ pc'[w] = "claim"
      /\ \A v \in Worker \ {w} : pc'[v] = pc[v]
  BY <1>1, <1>2 DEF Goto, TypeOK
<1>4. Active' = Active \ {w}
  BY <1>1, <1>3 DEF Active
<1>5. \A v \in Active' : v \in Active /\ job[v] # job[w] /\ pc'[v] = pc[v]
  BY <1>1, <1>3, <1>4 DEF ClaimInv, Active
<1>6. job[w] \notin completed \cup pending \cup failures
  BY <1>1 DEF LedgerInv
<1> QED
  BY <1>1, <1>3, <1>4, <1>5, <1>6

\* What nobody but the results and the worker's label tells apart stays true.
LEMMA PutDownKeeps ==
  ASSUME Inv, NEW w \in Active, Goto(w, "claim"),
         UNCHANGED <<remote, part, destination, sized, main, round, pending, remote_size, job,
                     existing, tried, crashes>>
  PROVE  FileInv' /\ SizeInv' /\ ClaimInv'
<1>1. FileInv /\ ClaimInv /\ SizeInv
  BY DEF Inv
<1>2. FileInv'
  BY <1>1 DEF FileInv, FileUpTo, Byte, Version, Resource
<1>3. SizeInv'
  BY <1>1 DEF SizeInv, DownloadIsWhole, Version, Resource, Whole
<1>4. /\ pc'[w] = "claim" /\ w \in Worker
      /\ \A v \in Worker \ {w} : pc'[v] = pc[v]
      /\ Active' = Active \ {w}
      /\ \A v \in Active' : v \in Active /\ pc'[v] = pc[v]
      /\ main = "round"
  BY PutDown DEF Active
<1>5. ClaimInv'
  <2>1. /\ \A v \in Active' : job'[v] \in Resource
        /\ \A u, v \in Active' : u # v => job'[u] # job'[v]
        /\ \A v \in Active' : destination'[job'[v]] # NoFile <=> pc'[v] = "succeed"
    BY <1>1, <1>4 DEF ClaimInv
  <2>2. /\ \A v \in Worker : pc'[v] \in {"probe", "compare", "request"} => existing'[v] = PartSize(job[v])
        /\ \A v \in Worker : pc'[v] = "verify" => part'[job'[v]] # NoFile
    BY <1>1, <1>4 DEF ClaimInv
  <2>3. main' = "round" /\ \E v \in Worker : pc'[v] # "exited"
    BY <1>4
  <2> QED
    BY <2>1, <2>2, <2>3 DEF ClaimInv, Resource, Worker, PartSize
<1> QED
  BY <1>2, <1>3, <1>5

LEMMA SucceedKeeps ==
  ASSUME Inv, NEW w \in Worker, Succeed(w)
  PROVE  Inv'
<1> DEFINE r == job[w]
<1>1. /\ w \in Active /\ pc[w] = "succeed" /\ Goto(w, "claim") /\ completed' = completed \cup {r}
      /\ UNCHANGED <<remote, part, destination, sized, main, round, pending, failures, discarded,
                     remote_size, job, existing, tried, crashes>>
  BY DEF Succeed, Active, WorkerFrame, local, rounds
<1>2. TypeOK /\ ClaimInv /\ LedgerInv
  BY DEF Inv
<1>3. /\ pc' \in [Worker -> WorkerLabel] /\ Active' = Active \ {w}
      /\ \A v \in Active' : v \in Active /\ job[v] # r
      /\ r \in Resource /\ main = "round" /\ r \notin completed \cup pending \cup failures
      /\ destination[r] # NoFile
  BY <1>1, <1>2, PutDown DEF ClaimInv
<1>4. TypeOK'
  BY <1>1, <1>2, <1>3 DEF TypeOK, Resource, Worker, Version, Byte, WorkerLabel
<1>5. LedgerInv'
  <2>1. ASSUME NEW q \in Resource
        PROVE  /\ q \in completed' => destination[q] # NoFile /\ q \notin pending \cup failures
               /\ q \in pending => destination[q] = NoFile /\ q \notin failures /\ tried[q] = 0..(round - 1)
               /\ q \in failures => destination[q] = NoFile /\ tried[q] = 0..round
               /\ q \notin completed' \cup pending \cup failures =>
                    tried[q] = 0..round /\ \E v \in Active' : job[v] = q
               /\ \A v \in Active' : job[v] = q => q \notin completed' \cup pending \cup failures
    BY <1>1, <1>2, <1>3 DEF LedgerInv
  <2> HIDE DEF r
  <2> QED
    BY <1>1, <1>3, <2>1 DEF LedgerInv, Resource
<1> QED
  BY <1>1, <1>4, <1>5, PutDownKeeps DEF Inv

LEMMA FailKeeps ==
  ASSUME Inv, NEW w \in Worker, Fail(w)
  PROVE  Inv'
<1> DEFINE r == job[w]
<1>1. /\ w \in Active /\ pc[w] # "succeed" /\ Goto(w, "claim") /\ failures' = failures \cup {r}
      /\ discarded' \in {discarded, discarded \cup {r}}
      /\ UNCHANGED <<remote, part, destination, sized, main, round, pending, completed,
                     remote_size, job, existing, tried, crashes>>
  BY DEF Fail, Active, WorkerFrame, local, rounds
<1>2. TypeOK /\ ClaimInv /\ LedgerInv
  BY DEF Inv
<1>3. /\ pc' \in [Worker -> WorkerLabel] /\ Active' = Active \ {w}
      /\ \A v \in Active' : v \in Active /\ job[v] # r
      /\ r \in Resource /\ main = "round" /\ r \notin completed \cup pending \cup failures
      /\ destination[r] = NoFile
  BY <1>1, <1>2, PutDown DEF ClaimInv
<1>4. TypeOK'
  BY <1>1, <1>2, <1>3 DEF TypeOK, Resource, Worker, Version, Byte, WorkerLabel
<1>5. LedgerInv'
  <2>1. ASSUME NEW q \in Resource
        PROVE  /\ q \in completed => destination[q] # NoFile /\ q \notin pending \cup failures'
               /\ q \in pending => destination[q] = NoFile /\ q \notin failures' /\ tried[q] = 0..(round - 1)
               /\ q \in failures' => destination[q] = NoFile /\ tried[q] = 0..round
               /\ q \notin completed \cup pending \cup failures' =>
                    tried[q] = 0..round /\ \E v \in Active' : job[v] = q
               /\ \A v \in Active' : job[v] = q => q \notin completed \cup pending \cup failures'
    BY <1>1, <1>2, <1>3 DEF LedgerInv
  <2> HIDE DEF r
  <2> QED
    BY <1>1, <1>3, <2>1 DEF LedgerInv, Resource
<1> QED
  BY <1>1, <1>4, <1>5, PutDownKeeps DEF Inv

-----------------------------------------------------------------------------
(* The call itself, and what happens around it.                            *)

LEMMA ScanKeeps ==
  ASSUME Inv, Scan
  PROVE  Inv'
<1> DEFINE missing == {r \in Resource : ~Available(r)}
<1>1. TypeOK /\ FileInv /\ ClaimInv /\ SizeInv /\ LedgerInv
  BY DEF Inv
<1>2. /\ main = "scan" /\ completed' = Resource \ missing
      /\ main' = IF missing = {} THEN "over" ELSE "round"
      /\ pending' = missing /\ failures' = {} /\ discarded' = {}
      /\ pc' = [w \in Worker |-> IF w <= Cardinality(missing) THEN "claim" ELSE "exited"]
      /\ UNCHANGED <<remote, part, destination, sized, round, remote_size, job, existing, tried, crashes>>
  BY DEF Scan, StartRound, local
<1>3. /\ \A w \in Worker : pc'[w] \in {"claim", "exited"}
      /\ missing = {} => \A w \in Worker : pc'[w] = "exited"
      /\ missing # {} => \E w \in Worker : pc'[w] # "exited"
  <2>1. IsFiniteSet(missing) /\ Cardinality(missing) \in Nat
        /\ (Cardinality(missing) = 0 <=> missing = {})
    <3>1. IsFiniteSet(Resource)
      BY ConstantsOK, FS_Interval DEF Resource
    <3>2. IsFiniteSet(missing)
      BY <3>1, FS_Subset
    <3> QED
      BY <3>2, FS_CardinalityType, FS_EmptySet
  <2>2. 1 \in Worker /\ Worker \subseteq Nat \ {0}
    BY ConstantsOK DEF Worker
  <2> HIDE DEF missing
  <2> QED
    BY <1>2, <2>1, <2>2
<1>4. Active' = {}
  BY <1>3 DEF Active
<1>5. \A r \in Resource : r \in missing <=> destination[r] = NoFile
  BY DEF Available
<1>6. missing \subseteq Resource
  OBVIOUS
<1> HIDE DEF missing
<1>7. TypeOK'
  <2>1. pc' \in [Worker -> WorkerLabel]
    BY <1>2 DEF WorkerLabel
  <2> QED
    BY <1>1, <1>2, <1>6, <2>1 DEF TypeOK, Resource, Worker, Version, Byte, WorkerLabel
<1>8. FileInv'
  BY <1>1, <1>2 DEF FileInv, FileUpTo, Byte, Version, Resource
<1>9. SizeInv'
  BY <1>1, <1>2 DEF SizeInv, DownloadIsWhole, Version, Resource, Whole
<1>10. ClaimInv'
  <2>1. \A w \in Worker : pc'[w] # "exited" => main' = "round"
    BY <1>2, <1>3
  <2>2. main' = "round" => \E w \in Worker : pc'[w] # "exited"
    BY <1>2, <1>3
  <2> QED
    BY <1>3, <1>4, <2>1, <2>2 DEF ClaimInv, Worker
<1>11. LedgerInv'
  <2>1. round = 0 /\ \A r \in Resource : tried[r] = {}
    BY <1>1, <1>2 DEF LedgerInv
  <2>2. 0..(round - 1) = {}
    BY <2>1
  <2>3. main' \in {"round", "over"} /\ (main' = "over" => missing = {})
    BY <1>2
  <2>4. ASSUME NEW q \in Resource
        PROVE  /\ q \in completed' => destination[q] # NoFile /\ q \notin pending' \cup failures'
               /\ q \in pending' => destination[q] = NoFile /\ q \notin failures' /\ tried[q] = 0..(round - 1)
               /\ q \in completed' \cup pending' \cup failures'
    BY <1>2, <1>5, <2>1, <2>2
  <2> QED
    BY <1>2, <1>4, <2>3, <2>4 DEF LedgerInv, Resource
<1> QED
  BY <1>7, <1>8, <1>9, <1>10, <1>11 DEF Inv

LEMMA EndRoundKeeps ==
  ASSUME Inv, EndRound
  PROVE  Inv'
<1>1. TypeOK /\ FileInv /\ ClaimInv /\ SizeInv /\ LedgerInv
  BY DEF Inv
<1>2. /\ main = "round" /\ \A w \in Worker : pc[w] = "exited"
      /\ UNCHANGED <<remote, part, destination, sized, completed, remote_size, job, existing, tried, crashes>>
  BY DEF EndRound, local
<1>3. Active = {} /\ pending = {}
  BY <1>1, <1>2 DEF Active, ClaimInv
<1>4. FileInv'
  BY <1>1, <1>2 DEF FileInv, FileUpTo, Byte, Version, Resource
<1>5. SizeInv'
  BY <1>1, <1>2 DEF SizeInv, DownloadIsWhole, Version, Resource, Whole
<1>6. CASE failures = {} \/ RoundsOver
  <2>1. /\ main' = "report" /\ UNCHANGED <<round, pending, failures, discarded, pc>>
        /\ failures # {} => round = Retries
    BY <1>6 DEF EndRound, RoundsOver
  <2>2. Active' = Active
    BY <2>1 DEF Active
  <2>3. TypeOK'
    BY <1>1, <1>2, <2>1 DEF TypeOK, Resource, Worker, Version, Byte, WorkerLabel
  <2>4. ClaimInv'
    BY <1>2, <1>3, <2>1, <2>2 DEF ClaimInv, Worker
  <2>5. LedgerInv'
    BY <1>1, <1>2, <1>3, <2>1, <2>2 DEF LedgerInv, Resource
  <2> QED
    BY <1>4, <1>5, <2>3, <2>4, <2>5 DEF Inv
<1>7. CASE ~(failures = {} \/ RoundsOver)
  <2>1. /\ main' = "round" /\ round' = round + 1 /\ pending' = failures /\ failures' = {} /\ discarded' = {}
        /\ pc' = [w \in Worker |-> IF w <= Cardinality(failures) THEN "claim" ELSE "exited"]
        /\ failures # {} /\ round # Retries
    BY <1>2, <1>7 DEF EndRound, RoundsOver, RoundAfter, StartRound
  <2>2. /\ \A w \in Worker : pc'[w] \in {"claim", "exited"}
        /\ \E w \in Worker : pc'[w] # "exited"
    <3>1. IsFiniteSet(failures)
      <4>1. IsFiniteSet(Resource)
        BY ConstantsOK, FS_Interval DEF Resource
      <4> QED
        BY <1>1, <4>1, FS_Subset DEF TypeOK
    <3>2. Cardinality(failures) \in Nat /\ Cardinality(failures) # 0
      BY <2>1, <3>1, FS_CardinalityType, FS_EmptySet
    <3>3. 1 \in Worker
      BY ConstantsOK DEF Worker
    <3> QED
      BY <2>1, <3>2, <3>3
  <2>3. Active' = {}
    BY <2>2 DEF Active
  <2>4. round \in Nat /\ round' \in 0..Retries /\ round' - 1 = round
    BY <1>1, <2>1, ConstantsOK DEF TypeOK
  <2>5. TypeOK'
    <3>1. pc' \in [Worker -> WorkerLabel]
      BY <2>1 DEF WorkerLabel
    <3> QED
      BY <1>1, <1>2, <2>1, <2>4, <3>1 DEF TypeOK, Resource, Worker, Version, Byte, WorkerLabel
  <2>6. ClaimInv'
    BY <2>1, <2>2, <2>3 DEF ClaimInv, Worker
  <2>7. LedgerInv'
    <3>1. ASSUME NEW q \in Resource
          PROVE  /\ q \in completed => destination[q] # NoFile /\ q \notin failures
                 /\ q \in failures => destination[q] = NoFile /\ tried[q] = 0..round
                 /\ q \in completed \cup failures
      BY <1>1, <1>2, <1>3 DEF LedgerInv
    <3> QED
      BY <1>2, <2>1, <2>3, <2>4, <3>1 DEF LedgerInv, Resource
  <2> QED
    BY <1>4, <1>5, <2>5, <2>6, <2>7 DEF Inv
<1> QED
  BY <1>6, <1>7

LEMMA ReportKeeps ==
  ASSUME Inv, Report
  PROVE  Inv'
<1>1. TypeOK /\ FileInv /\ ClaimInv /\ SizeInv /\ LedgerInv
  BY DEF Inv
<1>2. /\ main = "report" /\ main' = "over"
      /\ part' = [r \in Resource |-> IF r \in discarded THEN NoFile ELSE part[r]]
      /\ UNCHANGED <<remote, destination, sized, round, pending, failures, discarded, completed,
                     remote_size, pc, job, existing, tried, crashes>>
  BY DEF Report, Removed, results, workers
<1>3. (\A w \in Worker : pc[w] = "exited") /\ Active = {} /\ Active' = {}
  <2>1. \A w \in Worker : pc[w] = "exited"
    BY <1>1, <1>2 DEF ClaimInv
  <2> QED
    BY <1>2, <2>1 DEF Active
<1>4. TypeOK'
  <2>1. part' \in [Resource -> Seq(Byte) \cup {NoFile}]
    BY <1>1, <1>2 DEF TypeOK
  <2> QED
    BY <1>1, <1>2, <2>1 DEF TypeOK, Resource, Worker, Version, Byte, WorkerLabel
<1>5. FileInv'
  <2>1. \A r \in Resource : part'[r] \in FileUpTo(remote[r]) /\ destination[r] \in FileUpTo(remote[r])
    BY <1>1, <1>2 DEF FileInv, FileUpTo
  <2> QED
    BY <1>2, <2>1 DEF FileInv, FileUpTo, Byte, Version, Resource
<1>6. SizeInv'
  BY <1>1, <1>2 DEF SizeInv, DownloadIsWhole, Version, Resource, Whole
<1>7. ClaimInv'
  BY <1>2, <1>3 DEF ClaimInv, Worker
<1>8. LedgerInv'
  BY <1>1, <1>2, <1>3 DEF LedgerInv, Resource
<1> QED
  BY <1>4, <1>5, <1>6, <1>7, <1>8 DEF Inv

LEMMA ReplaceRemoteKeeps ==
  ASSUME Inv, ReplaceRemote
  PROVE  Inv'
<1>1. TypeOK /\ FileInv /\ ClaimInv /\ SizeInv /\ LedgerInv
  BY DEF Inv
<1>2. PICK r \in Resource : remote[r] < Len(Size) /\ remote' = [remote EXCEPT ![r] = @ + 1]
  BY DEF ReplaceRemote
<1>3. UNCHANGED <<part, destination, sized, main, round, pending, failures, discarded, completed,
                  remote_size, pc, job, existing, tried, crashes>>
  BY DEF ReplaceRemote, local, rounds, results, workers
<1>4. /\ remote' \in [Resource -> Version]
      /\ \A q \in Resource : remote[q] \in Nat /\ remote'[q] \in Nat /\ remote[q] <= remote'[q]
      /\ \A q \in Resource : remote'[q] = 1 => remote[q] = 1
  BY <1>1, <1>2, Versions DEF TypeOK
<1>5. TypeOK'
  BY <1>1, <1>3, <1>4 DEF TypeOK, Resource, Worker, Version, Byte, WorkerLabel
<1>6. FileInv'
  <2>1. \A q \in Resource : part[q] \in FileUpTo(remote'[q]) /\ destination[q] \in FileUpTo(remote'[q])
    BY <1>1, <1>4, FileGrows DEF FileInv
  <2> QED
    BY <1>3, <2>1 DEF FileInv, FileUpTo, Byte, Version, Resource, Seamless
<1>7. SizeInv'
  <2>1. \A q \in Resource : remote_size[q] # Unknown =>
          \E v \in Version : v <= remote'[q] /\ remote_size[q] = Size[v]
    <3> SUFFICES ASSUME NEW q \in Resource, remote_size[q] # Unknown
                 PROVE  \E v \in Version : v <= remote'[q] /\ remote_size[q] = Size[v]
      OBVIOUS
    <3>1. PICK v \in Version : v <= remote[q] /\ remote_size[q] = Size[v]
      BY <1>1 DEF SizeInv
    <3>2. v <= remote'[q]
      BY <1>4, <3>1, Versions
    <3> QED
      BY <3>1, <3>2
  <2>2. sized \subseteq Resource
    BY <1>1 DEF TypeOK
  <2> QED
    BY <1>1, <1>3, <1>4, <2>1, <2>2 DEF SizeInv, DownloadIsWhole, Version, Resource, Whole
<1>8. Active' = Active
  BY <1>3 DEF Active
<1>9. ClaimInv' /\ LedgerInv'
  BY <1>1, <1>3, <1>8 DEF ClaimInv, LedgerInv, PartSize, Worker, Resource
<1> QED
  BY <1>5, <1>6, <1>7, <1>9 DEF Inv

\* Whatever a killed process leaves behind is a place to start from.
LEMMA NewProcessKeeps ==
  ASSUME Inv, NewProcess, crashes' \in 0..MaxCrashes
  PROVE  Inv'
<1>1. TypeOK /\ FileInv /\ SizeInv
  BY DEF Inv
<1>2. /\ main' = "scan" /\ round' = 0 /\ pending' = {} /\ failures' = {} /\ discarded' = {}
      /\ completed' = {} /\ remote_size' = [r \in Resource |-> Unknown]
      /\ pc' = [w \in Worker |-> "exited"] /\ job' = [w \in Worker |-> 0]
      /\ existing' = [w \in Worker |-> 0] /\ tried' = [r \in Resource |-> {}]
      /\ UNCHANGED <<remote, part, destination, sized>>
  BY DEF NewProcess, local
<1>3. TypeOK'
  <2>1. /\ pc' \in [Worker -> WorkerLabel] /\ job' \in [Worker -> Resource \cup {0}]
        /\ existing' \in [Worker -> Nat]
    BY <1>2 DEF WorkerLabel
  <2>2. /\ remote_size' \in [Resource -> Nat] /\ tried' \in [Resource -> SUBSET (0..Retries)]
        /\ round' \in 0..Retries
    BY <1>2, ConstantsOK DEF Unknown
  <2> QED
    BY <1>1, <1>2, <2>1, <2>2 DEF TypeOK, Resource, Worker, Version, Byte, WorkerLabel
<1>4. FileInv'
  BY <1>1, <1>2 DEF FileInv, FileUpTo, Byte, Version, Resource
<1>5. SizeInv'
  BY <1>1, <1>2 DEF SizeInv, DownloadIsWhole, Version, Resource, Whole
<1>6. ClaimInv' /\ LedgerInv'
  BY <1>2 DEF ClaimInv, LedgerInv, Active, Worker, Resource
<1> QED
  BY <1>3, <1>4, <1>5, <1>6 DEF Inv

LEMMA InvNext == Inv /\ [Next]_vars => Inv'
<1> SUFFICES ASSUME Inv, [Next]_vars PROVE Inv'
  OBVIOUS
<1>1. CASE RangeStep
  BY <1>1, ScanKeeps, EndRoundKeeps, ReportKeeps DEF RangeStep
<1>2. ASSUME NEW w \in Worker, WorkerStep(w)
      PROVE  Inv'
  <2>1. CASE Claim(w) \/ Succeed(w) \/ Fail(w)
    BY <2>1, ClaimKeeps, SucceedKeeps, FailKeeps
  <2>2. CASE CheckLocal(w) \/ Probe(w) \/ Compare(w) \/ Verify(w)
    BY <2>2, CheckHeld, ProbeHeld, CompareHeld, VerifyHeld, HeldKeeps
  <2>3. CASE ReceiveAll(w) \/ ReceiveSome(w) \/ ReceiveNothing(w)
    BY <2>3, ReceiveHeld, HeldKeeps
  <2> QED
    BY <1>2, <2>1, <2>2, <2>3 DEF WorkerStep
<1>3. CASE ReplaceRemote
  BY <1>3, ReplaceRemoteKeeps
<1>4. CASE Crash \/ RunAgain
  <2>1. crashes' \in 0..MaxCrashes
    BY <1>4, ConstantsOK DEF Crash, RunAgain, Inv, TypeOK
  <2> QED
    BY <1>4, <2>1, NewProcessKeeps DEF Crash, RunAgain
<1>5. CASE UNCHANGED vars
  <2>1. UNCHANGED <<remote, part, destination, sized, main, round, pending, failures, discarded,
                    completed, remote_size, pc, job, existing, tried, crashes>>
    BY <1>5 DEF vars, local, rounds, results, workers
  <2>2. TypeOK' /\ FileInv' /\ SizeInv'
    BY <2>1 DEF Inv, TypeOK, FileInv, SizeInv, DownloadIsWhole, FileUpTo, Resource, Worker, Version,
                Byte, WorkerLabel, Whole, Seamless
  <2>3. Active' = Active
    BY <2>1 DEF Active
  <2>4. ClaimInv' /\ LedgerInv'
    BY <2>1, <2>3 DEF Inv, ClaimInv, LedgerInv, PartSize, Worker, Resource
  <2> QED
    BY <2>2, <2>4 DEF Inv
<1> QED
  BY <1>1, <1>2, <1>3, <1>4, <1>5 DEF Next

LEMMA Invariance == Spec => []Inv
BY InvInit, InvNext, PTL DEF Spec

-----------------------------------------------------------------------------
(* The theorems.                                                           *)

\* The variables of download_range, of its rounds and of its worker threads keep their types.
THEOREM TypesAreKept == Spec => []TypeOK
BY Invariance, PTL DEF Inv

\* However a file was put together - by attempts of several workers, rounds and processes, from
\* answers in full and in part, over replaced remote files - FileSink has written each byte once
\* and at its own place.
THEOREM FilesAreSeamless == Spec => []ResumeIsSeamless
<1>1. Inv => ResumeIsSeamless
  BY DEF Inv, FileInv, FileUpTo, Seamless, ResumeIsSeamless
<1> QED
  BY <1>1, Invariance, PTL

\* download_resource gives the final name to a file whose size it could compare only when the
\* file has the size of a version of the remote file, and it is the remote file when that was
\* never replaced.
THEOREM DownloadsAreWhole == Spec => []DownloadIsWhole
BY Invariance, PTL DEF Inv, SizeInv

\* download_range reports the files that are there, and has tried the others in every round.
THEOREM ReportsAreRight == Spec => []ReportIsRight
<1>1. Inv => ReportIsRight
  <2> SUFFICES ASSUME Inv, main \in {"report", "over"}, NEW r \in Resource
               PROVE  /\ r \in completed <=> destination[r] # NoFile
                      /\ r \notin completed => r \in failures /\ tried[r] = 0..Retries
    BY DEF ReportIsRight
  <2>1. Active = {}
    BY DEF Inv, ClaimInv, Active
  <2>2. pending = {} /\ (failures # {} => round = Retries)
    BY DEF Inv, LedgerInv
  <2>3. r \notin completed => r \in failures
    BY <2>1, <2>2 DEF Inv, LedgerInv
  <2> QED
    BY <2>2, <2>3 DEF Inv, LedgerInv
<1> QED
  BY <1>1, Invariance, PTL

\* No attempt, retry, later call or restart writes, replaces or removes a file that has its
\* final name.
THEOREM SourcesAreKept == Spec => SourceIsKept
<1>1. Inv /\ [Next]_vars =>
        [\A r \in Resource : destination[r] # NoFile => destination'[r] = destination[r]]_vars
  <2> SUFFICES ASSUME Inv, Next, NEW r \in Resource, destination[r] # NoFile
               PROVE  destination'[r] = destination[r]
    OBVIOUS
  <2>1. ASSUME NEW w \in Worker, WorkerStep(w)
        PROVE  destination'[r] = destination[r]
    <3>1. CASE Claim(w) \/ Succeed(w) \/ Fail(w)
      BY <3>1 DEF Claim, Succeed, Fail, local
    <3>2. CASE HeldStep(w)
      BY <3>2, HeldChanges
    <3> QED
      BY <2>1, <3>1, <3>2, CheckHeld, ProbeHeld, CompareHeld, VerifyHeld, ReceiveHeld DEF WorkerStep
  <2>2. CASE RangeStep
    BY <2>2 DEF RangeStep, Scan, EndRound, Report, local
  <2>3. CASE ReplaceRemote \/ Crash \/ RunAgain
    BY <2>3 DEF ReplaceRemote, Crash, RunAgain, NewProcess, local
  <2> QED
    BY <2>1, <2>2, <2>3 DEF Next
<1> QED
  BY <1>1, Invariance, PTL DEF Spec, SourceIsKept
=============================================================================
