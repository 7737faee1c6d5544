------------------------- MODULE CacheBuildersProofs -------------------------
(***************************************************************************)
(* Theorems about CacheBuilders, with their proofs.                        *)
(***************************************************************************)
EXTENDS CacheBuilders, NaturalFacts, FiniteSetTheorems, SequenceTheorems, TLAPS

-----------------------------------------------------------------------------
(* The order of the sort index.                                            *)

LEMMA CountFacts ==
  /\ Count \in Nat \ {0}
  /\ \A i \in 1..Count : Time[i] \in Nat \ {0}
  /\ BlockSize \in Nat \ {0}
  /\ NoFile \notin Nat
  /\ Announced \subseteq 1..Count
<1>1. Time \in Seq(Nat \ {0}) /\ Time # <<>>
  BY ConstantsOK
<1>2. Len(Time) \in Nat \ {0} /\ DOMAIN Time = 1..Len(Time)
  BY <1>1, LenProperties, EmptySeq
<1>3. \A i \in 1..Len(Time) : Time[i] \in Nat \ {0}
  BY <1>1, ElementOfSeq
<1> QED
  BY <1>2, <1>3, ConstantsOK DEF Count

LEMMA UpTo ==
  ASSUME NEW n \in Nat
  PROVE  IsFiniteSet(1..n) /\ Cardinality(1..n) = n
<1>1. IsFiniteSet(1..n) /\ Cardinality(1..n) = IF 1 > n THEN 0 ELSE n - 1 + 1
  BY FS_Interval
<1> QED
  BY <1>1

LEMMA BeforeIsOrder ==
  /\ \A i \in 1..Count : ~Before(i, i)
  /\ \A i, j \in 1..Count : i # j => Before(i, j) \/ Before(j, i)
  /\ \A i, j, k \in 1..Count : Before(i, j) /\ Before(j, k) => Before(i, k)
BY CountFacts DEF Before

\* The messages before one; their number gives its place.
Earlier(i) == {j \in 1..Count : Before(j, i)}
Place(i)   == Cardinality(Earlier(i)) + 1

LEMMA EarlierCount ==
  ASSUME NEW i \in 1..Count
  PROVE  /\ IsFiniteSet(Earlier(i))
         /\ Cardinality(Earlier(i)) \in Nat
         /\ Cardinality(Earlier(i)) < Count
<1>1. IsFiniteSet(1..Count) /\ Cardinality(1..Count) = Count
  BY CountFacts, UpTo
<1>2. IsFiniteSet((1..Count) \ {i}) /\ Cardinality((1..Count) \ {i}) = Count - 1
  BY <1>1, FS_RemoveElement
<1>3. Earlier(i) \subseteq (1..Count) \ {i}
  BY BeforeIsOrder DEF Earlier
<1>4. IsFiniteSet(Earlier(i)) /\ Cardinality(Earlier(i)) <= Count - 1
  BY <1>2, <1>3, FS_Subset
<1> QED
  BY <1>4, CountFacts, FS_CardinalityType

LEMMA EarlierGrows ==
  ASSUME NEW i \in 1..Count, NEW j \in 1..Count, Before(i, j)
  PROVE  Place(i) < Place(j)
<1>1. Earlier(i) \subseteq Earlier(j) \ {i}
  BY BeforeIsOrder DEF Earlier
<1>2. i \in Earlier(j)
  BY DEF Earlier
<1>3. IsFiniteSet(Earlier(j) \ {i})
      /\ Cardinality(Earlier(j) \ {i}) = Cardinality(Earlier(j)) - 1
  BY <1>2, EarlierCount, FS_RemoveElement
<1>4. Cardinality(Earlier(i)) <= Cardinality(Earlier(j)) - 1
  BY <1>1, <1>3, FS_Subset
<1> QED
  BY <1>4, EarlierCount DEF Place

\* The index has an order: that of the places.
LEMMA OrderExists ==
  \E s \in [1..Count -> 1..Count] : \A i, j \in 1..Count : i < j => Before(s[i], s[j])
<1> DEFINE D == 1..Count
           r == [i \in D |-> Place(i)]
           s == [i \in D |-> CHOOSE j \in D : r[j] = i]
<1>1. \A i \in D : Place(i) \in D
  BY EarlierCount, CountFacts DEF Place
<1>2. \A i, j \in D : r[i] = r[j] => i = j
  <2> SUFFICES ASSUME NEW i \in D, NEW j \in D, r[i] = r[j], i # j PROVE FALSE
    OBVIOUS
  <2>1. Place(i) < Place(j) \/ Place(j) < Place(i)
    BY BeforeIsOrder, EarlierGrows
  <2> QED
    BY <1>1, <2>1
<1>3. r \in Injection(D, D)
  <2>1. r \in [D -> D]
    BY <1>1
  <2> HIDE DEF r
  <2> QED
    BY <1>2, <2>1, Zenon DEF Injection, IsInjective
<1>4. r \in Surjection(D, D)
  <2>1. IsFiniteSet(D)
    BY CountFacts, UpTo
  <2> HIDE DEF r, D
  <2> QED
    BY <1>3, <2>1, FS_Injection
<1>5. \A i \in D : s[i] \in D /\ Place(s[i]) = i
  <2>1. \A i \in D : \E j \in D : r[j] = i
    BY <1>4 DEF Surjection
  <2>2. \A i \in D : s[i] \in D /\ r[s[i]] = i
    <3> HIDE DEF r, D
    <3> QED
      BY <2>1
  <2> QED
    BY <2>2
<1>6. ASSUME NEW i \in D, NEW j \in D, i < j
      PROVE  Before(s[i], s[j])
  <2>1. PICK x \in D : x = s[i] /\ Place(x) = i
    BY <1>5
  <2>2. PICK y \in D : y = s[j] /\ Place(y) = j
    BY <1>5
  <2>3. x # y /\ ~Before(y, x)
    BY <1>6, <2>1, <2>2, EarlierGrows
  <2> QED
    BY <2>1, <2>2, <2>3, BeforeIsOrder
<1>7. s \in [D -> D]
  BY <1>5
<1> HIDE DEF s
<1> QED
  BY <1>6, <1>7

\* The order has each message once.
LEMMA Sorting ==
  /\ Sorted \in [1..Count -> 1..Count]
  /\ \A i, j \in 1..Count : Sorted[i] = Sorted[j] => i = j
  /\ \A m \in 1..Count : \E i \in 1..Count : Sorted[i] = m
<1>1. /\ Sorted \in [1..Count -> 1..Count]
      /\ \A i, j \in 1..Count : i < j => Before(Sorted[i], Sorted[j])
  BY OrderExists DEF Sorted
<1>2. \A i, j \in 1..Count : Sorted[i] = Sorted[j] => i = j
  <2> SUFFICES ASSUME NEW i \in 1..Count, NEW j \in 1..Count, Sorted[i] = Sorted[j], i # j
               PROVE  FALSE
    OBVIOUS
  <2>1. i < j \/ j < i
    BY CountFacts
  <2>2. Before(Sorted[i], Sorted[j]) \/ Before(Sorted[j], Sorted[i])
    BY <1>1, <2>1
  <2>3. Sorted[i] \in 1..Count
    BY <1>1
  <2> QED
    BY <2>2, <2>3, BeforeIsOrder
<1>3. Sorted \in Surjection(1..Count, 1..Count)
  <2>1. Sorted \in Injection(1..Count, 1..Count)
    BY <1>1, <1>2, Zenon DEF Injection, IsInjective
  <2> QED
    BY <2>1, CountFacts, UpTo, FS_Injection
<1> QED
  BY <1>1, <1>2, <1>3 DEF Surjection

-----------------------------------------------------------------------------
(* What may stand where in a file.                                         *)

\* The messages before block k, when no block before it is the last.
Base(k) == (k - 1) * BlockSize

\* At place i of the order there is the message of that place; zeros only if o, that runs
\* have been under way beside each other.
Shown(o, i, m) == m = Sorted[i] \/ (m = Zeros /\ o)

\* Payload p shows the messages from the beginning of block k.
Shows(o, k, p) == \A i \in 1..Len(p) : Shown(o, Base(k) + i, p[i])

\* Payload p is block k.
Slice(o, k, p) ==
  /\ p \in Seq(0..Count)
  /\ Len(p) \in 1..BlockSize
  /\ Base(k) + Len(p) <= Count
  /\ Len(p) = BlockSize \/ Base(k) + Len(p) = Count
  /\ Shows(o, k, p)

\* Whichever streams wrote it, a frame in a partial file or a cache is that of the block
\* of its place, and a footer has the counts of the MRT file.
PartCell(o, j, c) ==
  /\ c \in Cell
  /\ c[1] = "frame" => \E k \in Nat \ {0} : j = 2 * k /\ Slice(o, k, c[2])
  /\ c[1] = "footer" => c = Footer(Count, Cardinality(Announced))

\* A spool has a message in its place, or zeros.
SpoolCell(o, j, c) == j \in 1..Count /\ (c = Message(j) \/ (c = Hole /\ o))

PartFile(o, f)  == f \in Seq(Cell) /\ \A j \in 1..Len(f) : PartCell(o, j, f[j])
SpoolFile(o, f) == f \in Seq(Cell) /\ \A j \in 1..Len(f) : SpoolCell(o, j, f[j])

AllMessages == [i \in 1..Count |-> Message(i)]

LEMMA BaseFacts ==
  /\ Base(1) = 0
  /\ \A b \in Nat : Base(b + 1) \in Nat /\ Base(b + 2) = Base(b + 1) + BlockSize
<1>1. Base(1) = 0
  BY CountFacts DEF Base
<1>2. ASSUME NEW b \in Nat
      PROVE  Base(b + 1) \in Nat /\ Base(b + 2) = Base(b + 1) + BlockSize
  <2>1. (b + 1) - 1 = b /\ (b + 2) - 1 = b + 1
    OBVIOUS
  <2>2. b * BlockSize \in Nat /\ (b + 1) * BlockSize = b * BlockSize + BlockSize
    BY CountFacts
  <2> QED
    BY <2>1, <2>2 DEF Base
<1> QED
  BY <1>1, <1>2

LEMMA CellKinds ==
  /\ Hole \in Cell /\ Hole[1] = "hole"
  /\ Header \in Cell /\ Header[1] = "header"
  /\ \A i \in 1..Count : Message(i) \in Cell /\ Message(i)[2] = i /\ Message(i) # Hole
  /\ \A p \in Seq(0..Count) : Frame(p) \in Cell /\ Frame(p)[1] = "frame" /\ Frame(p)[2] = p
  /\ \A p \in Seq(0..Count) : Payload(p) \in Cell /\ Payload(p)[1] = "payload"
  /\ \A n, a \in Nat : Footer(n, a) \in Cell /\ Footer(n, a)[1] = "footer"
  /\ \A n, a, m, b \in Nat : Footer(n, a) = Footer(m, b) => n = m /\ a = b
<1>1. Hole \in Cell /\ Hole[1] = "hole" /\ Header \in Cell /\ Header[1] = "header"
  BY DEF Hole, Header, Cell
<1>2. \A i \in 1..Count : Message(i) \in Cell /\ Message(i)[2] = i /\ Message(i)[1] # Hole[1]
  BY DEF Hole, Message, Cell
<1>3. \A p \in Seq(0..Count) : Frame(p) \in Cell /\ Frame(p)[1] = "frame" /\ Frame(p)[2] = p
  BY DEF Frame, Cell
<1>4. \A p \in Seq(0..Count) : Payload(p) \in Cell /\ Payload(p)[1] = "payload"
  BY DEF Payload, Cell
<1>5. \A n, a \in Nat : Footer(n, a) \in Cell /\ Footer(n, a)[1] = "footer"
  BY DEF Footer, Cell
<1>6. \A n, a, m, b \in Nat : Footer(n, a) = Footer(m, b) => n = m /\ a = b
  BY DEF Footer
<1> QED
  BY <1>1, <1>2, <1>3, <1>4, <1>5, <1>6

LEMMA AnnouncedCount ==
  IsFiniteSet(Announced) /\ Cardinality(Announced) \in Nat
<1>1. IsFiniteSet(Announced)
  BY CountFacts, UpTo, FS_Subset
<1> QED
  BY <1>1, FS_CardinalityType

\* What the streams of partial files are given.
LEMMA PartCells ==
  ASSUME NEW o \in BOOLEAN, NEW j \in Nat
  PROVE  /\ PartCell(o, j, Hole) /\ PartCell(o, j, Header)
         /\ \A p \in Seq(0..Count) : PartCell(o, j, Payload(p))
         /\ PartCell(o, j, Footer(Count, Cardinality(Announced)))
         /\ \A p : \A k \in Nat \ {0} : Slice(o, k, p) => PartCell(o, 2 * k, Frame(p))
<1>1. "hole" # "frame" /\ "hole" # "footer" /\ "header" # "frame" /\ "header" # "footer"
      /\ "payload" # "frame" /\ "payload" # "footer" /\ "footer" # "frame"
  OBVIOUS
<1>2. PartCell(o, j, Hole) /\ PartCell(o, j, Header)
  BY <1>1, CellKinds DEF PartCell
<1>3. \A p \in Seq(0..Count) : PartCell(o, j, Payload(p))
  BY <1>1, CellKinds DEF PartCell
<1>4. PartCell(o, j, Footer(Count, Cardinality(Announced)))
  BY <1>1, CellKinds, CountFacts, AnnouncedCount DEF PartCell
<1>5. ASSUME NEW p, NEW k \in Nat \ {0}, Slice(o, k, p)
      PROVE  PartCell(o, 2 * k, Frame(p))
  <2>1. p \in Seq(0..Count)
    BY <1>5 DEF Slice
  <2>2. Frame(p) \in Cell /\ Frame(p)[1] = "frame" /\ Frame(p)[2] = p
    BY <2>1, CellKinds
  <2> QED
    BY <1>1, <1>5, <2>2 DEF PartCell
<1> QED
  BY <1>2, <1>3, <1>4, <1>5

\* What is right stays right when runs overlap.
LEMMA Weaker ==
  ASSUME NEW o \in BOOLEAN, NEW w \in BOOLEAN, o => w
  PROVE  /\ \A k, p : Shows(o, k, p) => Shows(w, k, p)
         /\ \A f : PartFile(o, f) => PartFile(w, f)
         /\ \A f : SpoolFile(o, f) => SpoolFile(w, f)
<1>1. \A k, p : Shows(o, k, p) => Shows(w, k, p)
  BY DEF Shows, Shown
<1>2. \A k, p : Slice(o, k, p) => Slice(w, k, p)
  BY <1>1 DEF Slice
<1>3. \A j, c : PartCell(o, j, c) => PartCell(w, j, c)
  BY <1>2 DEF PartCell
<1>4. \A j, c : SpoolCell(o, j, c) => SpoolCell(w, j, c)
  BY DEF SpoolCell
<1> QED
  BY <1>1, <1>3, <1>4 DEF PartFile, SpoolFile

-----------------------------------------------------------------------------
(* Files and streams.                                                      *)

\* Inodes with number in K are spools, the others partial files and caches.
Files(o, K, st) ==
  /\ st \in Seq(Seq(Cell))
  /\ K \subseteq 1..Len(st)
  /\ \A i \in 1..Len(st) : IF i \in K THEN SpoolFile(o, st[i]) ELSE PartFile(o, st[i])

\* As files, of which none gets shorter.
Grown(st, new) == Len(new) = Len(st) /\ \A i \in 1..Len(st) : Len(new[i]) >= Len(st[i])

LEMMA FilledCells ==
  ASSUME NEW f \in Seq(Cell), NEW stream, stream.cells \in Seq(Cell), stream.written \in Nat,
         NEW k \in 0..Len(stream.cells)
  PROVE  /\ Filled(f, stream, k) \in Seq(Cell)
         /\ Len(Filled(f, stream, k)) >= Len(f) /\ Len(Filled(f, stream, k)) >= k
         /\ \A j \in 1..Len(Filled(f, stream, k)) :
              \/ j <= Len(f) /\ Filled(f, stream, k)[j] = f[j]
              \/ j <= k /\ Filled(f, stream, k)[j] = stream.cells[j]
              \/ Len(f) < j /\ j <= k /\ j <= stream.written /\ Filled(f, stream, k)[j] = Hole
<1> DEFINE n == IF Len(f) > k THEN Len(f) ELSE k
           at(i) == IF stream.written < i /\ i <= k THEN stream.cells[i]
                    ELSE IF i <= Len(f) THEN f[i] ELSE Hole
<1>1. Len(f) \in Nat /\ Len(stream.cells) \in Nat /\ k \in Nat /\ n \in Nat
      /\ n >= Len(f) /\ n >= k /\ (n = Len(f) \/ n = k)
  BY LenProperties
<1>2. \A i \in 1..Len(f) : f[i] \in Cell
  BY ElementOfSeq
<1>3. \A i \in 1..Len(stream.cells) : stream.cells[i] \in Cell
  BY ElementOfSeq
<1>4. \A i \in 1..n : at(i) \in Cell
  BY <1>1, <1>2, <1>3, CellKinds
<1>5. Filled(f, stream, k) = [i \in 1..n |-> at(i)]
  BY DEF Filled
<1>6. \A j \in 1..n : \/ j <= Len(f) /\ at(j) = f[j]
                      \/ j <= k /\ at(j) = stream.cells[j]
                      \/ Len(f) < j /\ j <= k /\ j <= stream.written /\ at(j) = Hole
  BY <1>1
<1> HIDE DEF at, n
<1>7. Filled(f, stream, k) \in [1..n -> Cell]
  BY <1>4, <1>5
<1>8. Filled(f, stream, k) \in Seq(Cell) /\ Len(Filled(f, stream, k)) = n
  BY <1>1, <1>7, SeqDef, LenProperties
<1> QED
  BY <1>1, <1>5, <1>6, <1>8

LEMMA FilledPart ==
  ASSUME NEW o \in BOOLEAN, NEW f, PartFile(o, f), NEW stream, PartFile(o, stream.cells),
         stream.written \in Nat, NEW k \in 0..Len(stream.cells)
  PROVE  PartFile(o, Filled(f, stream, k)) /\ Len(Filled(f, stream, k)) >= Len(f)
<1>1. f \in Seq(Cell) /\ stream.cells \in Seq(Cell)
  BY DEF PartFile
<1>2. Len(f) \in Nat /\ Len(stream.cells) \in Nat /\ k <= Len(stream.cells) /\ k \in Nat
  BY <1>1, LenProperties
<1> DEFINE g == Filled(f, stream, k)
<1>3. /\ g \in Seq(Cell) /\ Len(g) >= Len(f)
      /\ \A j \in 1..Len(g) : \/ j <= Len(f) /\ g[j] = f[j]
                              \/ j <= k /\ g[j] = stream.cells[j]
                              \/ g[j] = Hole
  BY <1>1, FilledCells
<1> HIDE DEF g
<1>4. ASSUME NEW j \in 1..Len(g) PROVE PartCell(o, j, g[j])
  <2>1. j \in Nat /\ Len(g) \in Nat
    BY <1>3, LenProperties
  <2>2. CASE j <= Len(f) /\ g[j] = f[j]
    BY <1>2, <2>1, <2>2 DEF PartFile
  <2>3. CASE j <= k /\ g[j] = stream.cells[j]
    <3>1. j \in 1..Len(stream.cells)
      BY <1>2, <2>1, <2>3
    <3> QED
      BY <2>3, <3>1 DEF PartFile
  <2>4. CASE g[j] = Hole
    BY <2>1, <2>4, PartCells
  <2> QED
    BY <1>3, <2>2, <2>3, <2>4
<1>5. PartFile(o, g)
  BY <1>3, <1>4 DEF PartFile
<1> QED
  BY <1>3, <1>5 DEF g

LEMMA FilledSpool ==
  ASSUME NEW o \in BOOLEAN, NEW f, SpoolFile(o, f), NEW stream,
         stream.cells \in {<<>>, AllMessages}, stream.written \in Nat,
         stream.written <= Len(stream.cells),
         o \/ stream.written <= Len(f), NEW k \in 0..Len(stream.cells)
  PROVE  /\ SpoolFile(o, Filled(f, stream, k))
         /\ Len(Filled(f, stream, k)) >= Len(f) /\ Len(Filled(f, stream, k)) >= k
<1>1. AllMessages \in Seq(Cell) /\ Len(AllMessages) = Count
  <2>1. AllMessages \in [1..Count -> Cell] /\ Count \in Nat
    BY CellKinds, CountFacts DEF AllMessages
  <2> QED
    BY <2>1, SeqDef, LenProperties
<1>2. f \in Seq(Cell) /\ stream.cells \in Seq(Cell) /\ Len(stream.cells) <= Count
      /\ \A j \in 1..Len(stream.cells) : stream.cells[j] = Message(j)
  <2>1. <<>> \in Seq(Cell) /\ Len(<<>>) = 0 /\ f \in Seq(Cell)
    BY EmptySeq DEF SpoolFile
  <2>2. CASE stream.cells = <<>>
    BY <2>1, <2>2, CountFacts
  <2>3. CASE stream.cells = AllMessages
    BY <1>1, <2>1, <2>3, CountFacts DEF AllMessages
  <2> QED
    BY <2>2, <2>3
<1>3. Len(f) \in Nat /\ Len(stream.cells) \in Nat /\ k <= Len(stream.cells) /\ k \in Nat
  BY <1>2, LenProperties
<1> DEFINE g == Filled(f, stream, k)
<1>4. /\ g \in Seq(Cell) /\ Len(g) >= Len(f) /\ Len(g) >= k
      /\ \A j \in 1..Len(g) : \/ j <= Len(f) /\ g[j] = f[j]
                              \/ j <= k /\ g[j] = stream.cells[j]
                              \/ Len(f) < j /\ j <= k /\ j <= stream.written /\ g[j] = Hole
  BY <1>2, FilledCells
<1> HIDE DEF g
<1>5. ASSUME NEW j \in 1..Len(g) PROVE SpoolCell(o, j, g[j])
  <2>1. j \in Nat /\ Len(g) \in Nat /\ 1 <= j
    BY <1>4, LenProperties
  <2>2. CASE j <= Len(f) /\ g[j] = f[j]
    BY <1>3, <2>1, <2>2 DEF SpoolFile
  <2>3. CASE j <= k /\ g[j] = stream.cells[j]
    <3>1. j \in 1..Len(stream.cells) /\ j \in 1..Count
      BY <1>2, <1>3, <2>1, <2>3, CountFacts
    <3>2. g[j] = Message(j)
      BY <1>2, <2>3, <3>1
    <3> QED
      BY <3>1, <3>2 DEF SpoolCell
  <2>4. CASE Len(f) < j /\ j <= k /\ j <= stream.written /\ g[j] = Hole
    <3>1. j \in 1..Count
      BY <1>2, <1>3, <2>1, <2>4, CountFacts
    <3>2. o
      BY <1>3, <2>1, <2>4
    <3> QED
      BY <2>4, <3>1, <3>2 DEF SpoolCell
  <2> QED
    BY <1>4, <2>2, <2>3, <2>4
<1>6. SpoolFile(o, g)
  BY <1>4, <1>5 DEF SpoolFile
<1> QED
  BY <1>4, <1>6 DEF g

\* One inode gets other contents of its kind.
LEMMA FileChange ==
  ASSUME NEW o \in BOOLEAN, NEW K, NEW st, Files(o, K, st), NEW i \in 1..Len(st), NEW g,
         IF i \in K THEN SpoolFile(o, g) ELSE PartFile(o, g)
  PROVE  /\ Files(o, K, [st EXCEPT ![i] = g])
         /\ Len([st EXCEPT ![i] = g]) = Len(st)
         /\ \A j \in 1..Len(st) : [st EXCEPT ![i] = g][j] = IF j = i THEN g ELSE st[j]
<1>1. g \in Seq(Cell) /\ st \in Seq(Seq(Cell))
  BY DEF Files, SpoolFile, PartFile
<1>2. /\ [st EXCEPT ![i] = g] \in Seq(Seq(Cell))
      /\ Len([st EXCEPT ![i] = g]) = Len(st)
      /\ \A j \in 1..Len(st) : [st EXCEPT ![i] = g][j] = IF j = i THEN g ELSE st[j]
  BY <1>1, ExceptSeq
<1> QED
  BY <1>2 DEF Files

LEMMA FilesWeaker ==
  ASSUME NEW o \in BOOLEAN, NEW w \in BOOLEAN, o => w, NEW K, NEW st, Files(o, K, st)
  PROVE  Files(w, K, st)
BY Weaker DEF Files

LEMMA SpoolWrittenOut ==
  ASSUME NEW o \in BOOLEAN, NEW K, NEW st, Files(o, K, st), NEW stream,
         stream.inode \in K \cup {NoFile}, stream.cells \in {<<>>, AllMessages},
         stream.written \in Nat, stream.written <= Len(stream.cells),
         o \/ stream.inode = NoFile \/ stream.written <= Len(st[stream.inode])
  PROVE  Files(o, K, WrittenOut(st, stream)) /\ Grown(st, WrittenOut(st, stream))
<1>1. st \in Seq(Seq(Cell)) /\ K \subseteq 1..Len(st) /\ Len(st) \in Nat
      /\ \A i \in 1..Len(st) : Len(st[i]) \in Nat
  BY LenProperties, ElementOfSeq DEF Files
<1>2. CASE stream.inode = NoFile
  BY <1>1, <1>2 DEF WrittenOut, Grown
<1>3. CASE stream.inode # NoFile
  <2> DEFINE i == stream.inode
             g == Filled(st[i], stream, Len(stream.cells))
  <2>1. i \in K /\ i \in 1..Len(st) /\ SpoolFile(o, st[i])
    BY <1>1, <1>3 DEF Files
  <2>2. Len(stream.cells) \in 0..Len(stream.cells)
    <3>1. AllMessages \in Seq(Cell) /\ <<>> \in Seq(Cell)
      <4>1. AllMessages \in [1..Count -> Cell] /\ Count \in Nat
        BY CellKinds, CountFacts DEF AllMessages
      <4> QED
        BY <4>1, SeqDef, EmptySeq
    <3> QED
      BY <3>1, LenProperties
  <2>3. SpoolFile(o, g) /\ Len(g) >= Len(st[i])
    BY <1>3, <2>1, <2>2, FilledSpool
  <2>4. WrittenOut(st, stream) = [st EXCEPT ![i] = g]
    BY <1>3 DEF WrittenOut
  <2> HIDE DEF g, i
  <2>5. /\ Files(o, K, [st EXCEPT ![i] = g])
        /\ Len([st EXCEPT ![i] = g]) = Len(st)
        /\ \A j \in 1..Len(st) : [st EXCEPT ![i] = g][j] = IF j = i THEN g ELSE st[j]
    <3>1. IF i \in K THEN SpoolFile(o, g) ELSE PartFile(o, g)
      BY <2>1, <2>3
    <3> QED
      BY <2>1, <3>1, FileChange
  <2> QED
    BY <1>1, <2>3, <2>4, <2>5 DEF Grown
<1> QED
  BY <1>2, <1>3

LEMMA PartWrittenOut ==
  ASSUME NEW o \in BOOLEAN, NEW K, NEW st, Files(o, K, st), NEW stream,
         stream.inode \in Inode(Len(st)), stream.inode \notin K, PartFile(o, stream.cells),
         stream.written \in Nat
  PROVE  Files(o, K, WrittenOut(st, stream)) /\ Grown(st, WrittenOut(st, stream))
<1>1. st \in Seq(Seq(Cell)) /\ K \subseteq 1..Len(st) /\ Len(st) \in Nat
      /\ \A i \in 1..Len(st) : Len(st[i]) \in Nat
  BY LenProperties, ElementOfSeq DEF Files
<1>2. CASE stream.inode = NoFile
  BY <1>1, <1>2 DEF WrittenOut, Grown
<1>3. CASE stream.inode # NoFile
  <2> DEFINE i == stream.inode
             g == Filled(st[i], stream, Len(stream.cells))
  <2>1. i \notin K /\ i \in 1..Len(st) /\ PartFile(o, st[i])
    BY <1>1, <1>3 DEF Files, Inode
  <2>2. Len(stream.cells) \in 0..Len(stream.cells)
    BY LenProperties DEF PartFile
  <2>3. PartFile(o, g) /\ Len(g) >= Len(st[i])
    BY <2>1, <2>2, FilledPart
  <2>4. WrittenOut(st, stream) = [st EXCEPT ![i] = g]
    BY <1>3 DEF WrittenOut
  <2> HIDE DEF g, i
  <2>5. /\ Files(o, K, [st EXCEPT ![i] = g])
        /\ Len([st EXCEPT ![i] = g]) = Len(st)
        /\ \A j \in 1..Len(st) : [st EXCEPT ![i] = g][j] = IF j = i THEN g ELSE st[j]
    <3>1. IF i \in K THEN SpoolFile(o, g) ELSE PartFile(o, g)
      BY <2>1, <2>3
    <3> QED
      BY <2>1, <3>1, FileChange
  <2> QED
    BY <1>1, <2>3, <2>4, <2>5 DEF Grown
<1> QED
  BY <1>2, <1>3

-----------------------------------------------------------------------------
(* The inductive invariant.                                                *)

Outside  == {"idle", "built", "failed", "reused"}
Spooling == {"spool", "parse", "sort"}

\* The run copies entries: it has given b blocks to its stream, and its payload begins the
\* next one.
Copying(o, h) ==
  \E b \in Nat :
    /\ Len(h.part.cells) = 2 * b + 1
    /\ h.entry = Base(b + 1) + Len(h.payload) + 1
    /\ h.entry <= Count
    /\ Shows(o, b + 1, h.payload)

\* A run, if o says whether runs were ever under way beside each other.
RunOK(o, h) ==
  /\ PartFile(o, h.part.cells)
  /\ h.spool.cells \in {<<>>, AllMessages}
  /\ h.pc \in Outside \cup {"part"} => h.part = Closed
  /\ h.pc \notin {"parse", "sort"} => h.spool = Closed
  /\ h.pc \in Outside \cup Spooling \cup {"part"} => h.mapped = NoFile
  /\ h.pc \in Spooling \cup {"part"} => h.entry = 1 /\ h.payload = <<>>
  /\ h.pc \in Spooling => h.part.cells = <<Header>>
  /\ h.pc = "copy" => h.mapped # NoFile /\ Copying(o, h)

\* It has the types of a run over n inodes.
Typed(n, h) ==
  /\ h \in Run(n)
  /\ h.part.written <= Len(h.part.cells)
  /\ h.spool.written <= Len(h.spool.cells)
  /\ Len(h.payload) < BlockSize

\* The inodes of L that are already there.
Among(L, st) == L \cap (1..Len(st))

\* Its files are of their kinds.
Refs(K, h) ==
  /\ h.part.inode \notin K
  /\ h.spool.inode \in K \cup {NoFile}
  /\ h.mapped \in K \cup {NoFile}

\* Nobody has cut its spool.
Whole(st, h) ==
  /\ h.spool.inode = NoFile \/ h.spool.written <= Len(st[h.spool.inode])
  /\ h.pc = "copy" => Len(st[h.mapped]) = Count

\* No file is a spool and a partial file, ever: the names lead to inodes of their kinds.
Owned(K) ==
  /\ Files(overlap, K, store)
  /\ names["spool"] \in K \cup {NoFile}
  /\ names["part"] \notin K
  /\ names["cache"] \notin K
  /\ reader.inode \notin K
  /\ \A p \in Process : Refs(K, process[p])

FilesInv == \E K \in SUBSET (1..Len(store)) : Owned(K)

RunsInv == \A p \in Process : RunOK(overlap, process[p])

\* Runs that never overlap are alone with their files.
AloneInv ==
  \/ overlap
  \/ /\ \A p, q \in Process : Active(p) /\ Active(q) => p = q
     /\ \A p \in Process : Whole(store, process[p])

\* What was seen are messages in their places, or zeros in front of them.
SeenOK(o, s) ==
  /\ s \in Seq(0..Count)
  /\ Len(s) <= Count
  /\ \A i \in 1..Len(s) : Shown(o, i, s[i])
  /\ \A i \in 1..(Len(s) - 1) : s[i + 1] = Zeros => s[i] = Zeros

\* The reader stands before block b + 1, or behind the last.
AtBlock(r) ==
  \E b \in Nat :
    /\ r.cell = 2 * b + 2
    /\ \/ Len(r.seen) = Base(b + 1)
       \/ Len(r.seen) = Count /\ Base(b + 1) >= Count

ReaderOK(o, r) ==
  /\ SeenOK(o, r.seen)
  /\ r.pc = "blocks" =>
       /\ r.inode # NoFile
       /\ r.last = IF r.seen = <<>> THEN 0 ELSE TimeOf(r.seen[Len(r.seen)])
       /\ AtBlock(r)
  /\ r.pc = "done" =>
       Len(r.seen) = Count /\ Announcements(r.seen) = Cardinality(Announced)

IInv ==
  /\ TypeOK
  /\ FilesInv
  /\ RunsInv
  /\ AloneInv
  /\ ReaderOK(overlap, reader)

\* Process p goes on with h; the files stay of their kinds.
Step(p, h, L) ==
  /\ process' = [process EXCEPT ![p] = h]
  /\ UNCHANGED reader
  /\ runs' \in 0..MaxRuns /\ kills' \in 0..MaxKills /\ overlap' \in BOOLEAN
  /\ overlap => overlap'
  /\ Len(store') >= Len(store)
  /\ Files(overlap', L, store')
  /\ names' \in [{"cache", "part", "spool"} -> Inode(Len(store'))]
  /\ names'["spool"] \in L \cup {NoFile} /\ names'["part"] \notin L /\ names'["cache"] \notin L
  /\ Typed(Len(store'), h) /\ RunOK(overlap', h) /\ Refs(L, h)
  /\ \/ overlap'
     \/ Whole(store', h) /\ \A q \in Process : Active(q) => q = p

LEMMA AmongAll ==
  ASSUME NEW st, NEW K \in SUBSET (1..Len(st))
  PROVE  Among(K, st) = K
BY DEF Among

\* A step of one process keeps the invariant.
LEMMA StepKeeps ==
  ASSUME IInv, NEW K \in SUBSET (1..Len(store)), Owned(K), NEW p \in Process, NEW h,
         NEW L, Among(L, store) = K, Step(p, h, L)
  PROVE  IInv'
<1>1. /\ TypeOK
      /\ \A q \in Process : process[q] \in Run(Len(store)) /\ Typed(Len(store), process[q])
      /\ Len(store) \in Nat /\ Len(store') \in Nat /\ Len(store') >= Len(store)
      /\ overlap \in BOOLEAN /\ overlap' \in BOOLEAN /\ (overlap => overlap')
  <2>1. TypeOK /\ Len(store) \in Nat /\ overlap \in BOOLEAN
    BY LenProperties DEF IInv, TypeOK
  <2>2. \A q \in Process : process[q] \in Run(Len(store)) /\ Typed(Len(store), process[q])
    BY <2>1 DEF TypeOK, Typed
  <2>3. Len(store') \in Nat
    BY LenProperties DEF Step, Files
  <2> QED
    BY <2>1, <2>2, <2>3 DEF Step
<1>2. \A x \in Inode(Len(store)) : x \in Inode(Len(store'))
  BY <1>1 DEF Inode
<1>3. \A q \in Process : process'[q] = IF q = p THEN h ELSE process[q]
  BY DEF Step, IInv, TypeOK
<1>4. \A g : Typed(Len(store), g) => Typed(Len(store'), g)
  <2>1. \A s \in Stream(Len(store)) : s \in Stream(Len(store'))
    BY <1>2 DEF Stream
  <2>2. \A g \in Run(Len(store)) : g \in Run(Len(store'))
    BY <1>2, <2>1 DEF Run
  <2> QED
    BY <2>2 DEF Typed
<1>5. TypeOK'
  <2>1. \A q \in Process : Typed(Len(store'), process'[q])
    BY <1>1, <1>3, <1>4 DEF Step
  <2>2. process' \in [Process -> Run(Len(store'))]
    <3>1. DOMAIN process' = Process /\ process' = [q \in Process |-> process'[q]]
      BY DEF Step, IInv, TypeOK
    <3>2. \A q \in Process : process'[q] \in Run(Len(store'))
      BY <2>1 DEF Typed
    <3> QED
      BY <3>1, <3>2
  <2>3. reader' \in [pc : {"idle", "blocks", "done", "failed"}, inode : Inode(Len(store')),
                     cell : Nat, last : Nat, seen : Seq(0..Count)]
    BY <1>1, <1>2 DEF Step, TypeOK
  <2> QED
    BY <2>1, <2>2, <2>3 DEF TypeOK, Typed, Step, Files
<1>6. FilesInv'
  <2>1. \A x \in Inode(Len(store)) : (x \in L <=> x \in K)
    <3>1. L \subseteq 1..Len(store')
      BY DEF Step, Files
    <3>2. NoFile \notin L
      <4>1. PICK n \in Nat : n = Len(store')
        BY <1>1
      <4>2. L \subseteq 1..n
        BY <3>1, <4>1
      <4>3. \A x \in L : x \in Nat
        BY <4>2
      <4> QED
        BY <4>3, CountFacts
    <3>3. NoFile \notin K /\ \A x \in 1..Len(store) : (x \in L <=> x \in K)
      BY <3>2 DEF Among
    <3> QED
      BY <3>2, <3>3 DEF Inode
  <2>2. \A q \in Process : Refs(L, process'[q])
    <3> SUFFICES ASSUME NEW q \in Process PROVE Refs(L, process'[q])
      OBVIOUS
    <3>1. CASE q = p
      BY <1>3, <3>1 DEF Step
    <3>2. CASE q # p
      <4>1. process[q] \in Run(Len(store)) /\ Refs(K, process[q]) /\ process'[q] = process[q]
        BY <1>1, <1>3, <3>2 DEF Owned
      <4>2. /\ process[q].part.inode \in Inode(Len(store))
            /\ process[q].spool.inode \in Inode(Len(store))
            /\ process[q].mapped \in Inode(Len(store))
        BY <4>1 DEF Run, Stream
      <4> QED
        BY <2>1, <4>1, <4>2 DEF Refs
    <3> QED
      BY <3>1, <3>2
  <2>3. reader'.inode \notin L
    BY <1>1, <2>1 DEF Step, TypeOK, Owned
  <2>4. Owned(L)'
    BY <2>2, <2>3 DEF Owned, Step
  <2>5. L \in SUBSET (1..Len(store'))
    BY DEF Step, Files
  <2> QED
    BY <2>4, <2>5 DEF FilesInv
<1>7. RunsInv'
  <2> SUFFICES ASSUME NEW q \in Process PROVE RunOK(overlap', process'[q])
    BY DEF RunsInv
  <2>1. CASE q = p
    BY <1>3, <2>1 DEF Step
  <2>2. CASE q # p
    <3>1. RunOK(overlap, process[q]) /\ process'[q] = process[q]
      BY <1>3, <2>2 DEF IInv, RunsInv
    <3> QED
      BY <1>1, <3>1, Weaker DEF RunOK, Copying
  <2> QED
    BY <2>1, <2>2
<1>8. AloneInv'
  <2> SUFFICES ASSUME ~overlap' PROVE AloneInv'
    BY DEF AloneInv
  <2>1. /\ Whole(store', h) /\ \A q \in Process : Active(q) => q = p
    BY DEF Step
  <2>2. ASSUME NEW q \in Process, q # p
        PROVE  ~Active(q)' /\ Whole(store', process'[q])
    <3>1. process'[q] = process[q] /\ ~Active(q)
      BY <1>3, <2>1, <2>2
    <3>2. ~Active(q)'
      BY <3>1 DEF Active
    <3>3. RunOK(overlap, process[q]) /\ process[q].pc \in Outside
      BY <3>1 DEF IInv, RunsInv, Active, Outside
    <3>4. process[q].spool = Closed /\ process[q].pc # "copy"
      BY <3>3 DEF RunOK, Outside
    <3> QED
      BY <3>1, <3>2, <3>4 DEF Whole, Closed
  <2> QED
    BY <1>3, <2>1, <2>2 DEF AloneInv
<1>9. ReaderOK(overlap', reader')
  <2>1. ReaderOK(overlap, reader) /\ reader' = reader
    BY DEF IInv, Step
  <2>2. \A i, m : Shown(overlap, i, m) => Shown(overlap', i, m)
    BY <1>1 DEF Shown
  <2>3. SeenOK(overlap', reader.seen)
    BY <2>1, <2>2 DEF ReaderOK, SeenOK
  <2> QED
    BY <2>1, <2>3 DEF ReaderOK
<1> QED
  BY <1>5, <1>6, <1>7, <1>8, <1>9 DEF IInv

-----------------------------------------------------------------------------
(* The steps.                                                              *)

\* What the invariant says of one process.
LEMMA OfRun ==
  ASSUME IInv, NEW K \in SUBSET (1..Len(store)), Owned(K), NEW p \in Process
  PROVE  /\ Len(store) \in Nat
         /\ NoFile \notin K
         /\ overlap \in BOOLEAN
         /\ process \in [Process -> Run(Len(store))]
         /\ process[p] \in Run(Len(store))
         /\ Typed(Len(store), process[p])
         /\ RunOK(overlap, process[p])
         /\ Refs(K, process[p])
         /\ Files(overlap, K, store)
         /\ names \in [{"cache", "part", "spool"} -> Inode(Len(store))]
         /\ names["spool"] \in K \cup {NoFile}
         /\ names["part"] \notin K
         /\ names["cache"] \notin K
         /\ runs \in 0..MaxRuns /\ kills \in 0..MaxKills
<1>1. TypeOK /\ RunOK(overlap, process[p]) /\ Refs(K, process[p])
  BY DEF IInv, RunsInv, Owned
<1>2. Len(store) \in Nat
  BY <1>1, LenProperties DEF TypeOK
<1>3. NoFile \notin K
  <2>1. PICK n \in Nat : n = Len(store)
    BY <1>2
  <2>2. \A x \in K : x \in Nat
    BY <2>1
  <2> QED
    BY <2>2, CountFacts
<1> QED
  BY <1>1, <1>2, <1>3 DEF TypeOK, Typed, Owned

\* When runs never overlapped, the active one is alone and its spool whole.
LEMMA OfAlone ==
  ASSUME IInv, NEW p \in Process, Active(p), ~overlap
  PROVE  Whole(store, process[p]) /\ \A q \in Process : Active(q) => q = p
BY DEF IInv, AloneInv

\* A run that has not opened anything, or is over.
Fresh(there) == [NewRun EXCEPT !.pc = there]

LEMMA FreshOK ==
  ASSUME NEW there \in Outside \cup {"part"}, NEW n \in Nat, NEW o \in BOOLEAN, NEW K,
         NoFile \notin K, NEW st
  PROVE  /\ Typed(n, Fresh(there)) /\ RunOK(o, Fresh(there))
         /\ Refs(K, Fresh(there)) /\ Whole(st, Fresh(there))
<1> DEFINE h == Fresh(there)
<1>1. /\ h.pc = there /\ h.part = Closed /\ h.spool = Closed /\ h.mapped = NoFile
      /\ h.entry = 1 /\ h.payload = <<>> /\ h.last = 0 /\ h.copied = <<>>
      /\ h = [pc |-> there, part |-> Closed, spool |-> Closed, mapped |-> NoFile,
              entry |-> 1, payload |-> <<>>, last |-> 0, copied |-> <<>>]
  BY DEF Fresh, NewRun
<1>2. Closed.inode = NoFile /\ Closed.cells = <<>> /\ Closed.written = 0
  BY DEF Closed
<1>3. <<>> \in Seq(Cell) /\ <<>> \in Seq(0..Count) /\ Len(<<>>) = 0
  BY EmptySeq
<1>4. Typed(n, h)
  <2>1. Closed \in Stream(n)
    BY <1>3 DEF Closed, Stream, Inode
  <2>2. h \in Run(n)
    BY <1>1, <1>3, <2>1, CountFacts DEF Run, Outside, Inode
  <2> HIDE DEF h
  <2> QED
    BY <1>1, <1>2, <1>3, <2>2, CountFacts DEF Typed
<1> HIDE DEF h
<1>5. RunOK(o, h)
  <2>1. PartFile(o, <<>>)
    BY <1>3 DEF PartFile
  <2>2. there \notin Spooling /\ there # "copy"
    BY DEF Outside, Spooling
  <2> QED
    BY <1>1, <1>2, <2>1, <2>2 DEF RunOK
<1>6. Refs(K, h)
  BY <1>1, <1>2 DEF Refs
<1>7. Whole(st, h)
  BY <1>1, <1>2 DEF Whole, Outside
<1> QED
  BY <1>4, <1>5, <1>6, <1>7 DEF h

\* The destructors.
LEMMA LeaveKeeps ==
  ASSUME IInv, NEW p \in Process, Active(p), NEW there \in Outside,
         Leave(p, there, store, names)
  PROVE  IInv'
<1>1. PICK K \in SUBSET (1..Len(store)) : Owned(K)
  BY DEF IInv, FilesInv
<1> DEFINE spool == process[p].spool
           part  == process[p].part
           mid   == WrittenOut(store, spool)
<1>2. /\ Len(store) \in Nat /\ NoFile \notin K /\ overlap \in BOOLEAN
      /\ process[p] \in Run(Len(store)) /\ Typed(Len(store), process[p])
      /\ RunOK(overlap, process[p]) /\ Refs(K, process[p]) /\ Files(overlap, K, store)
      /\ names \in [{"cache", "part", "spool"} -> Inode(Len(store))]
      /\ names["part"] \notin K /\ names["cache"] \notin K
      /\ runs \in 0..MaxRuns /\ kills \in 0..MaxKills
  BY <1>1, OfRun
<1>3. /\ part.inode \in Inode(Len(store)) /\ part.written \in Nat
      /\ spool.written \in Nat /\ spool.written <= Len(spool.cells)
  BY <1>2 DEF Typed, Run, Stream
<1>4. Files(overlap, K, mid) /\ Grown(store, mid)
  <2>1. overlap \/ spool.inode = NoFile \/ spool.written <= Len(store[spool.inode])
    BY OfAlone DEF Whole
  <2> QED
    BY <1>2, <1>3, <2>1, SpoolWrittenOut DEF RunOK, Refs
<1>5. Files(overlap, K, store') /\ Len(store') = Len(store)
  <2>1. Len(mid) = Len(store)
    BY <1>4 DEF Grown
  <2>2. store' = WrittenOut(mid, part)
    BY DEF Leave
  <2>3. Files(overlap, K, WrittenOut(mid, part)) /\ Grown(mid, WrittenOut(mid, part))
    <3> HIDE DEF mid
    <3>1. PartFile(overlap, part.cells) /\ part.inode \notin K
      BY <1>2 DEF RunOK, Refs
    <3> QED
      BY <1>2, <1>3, <1>4, <2>1, <3>1, PartWrittenOut
  <2> QED
    BY <2>1, <2>2, <2>3 DEF Grown
<1>6. /\ Typed(Len(store'), Fresh(there)) /\ RunOK(overlap', Fresh(there))
      /\ Refs(K, Fresh(there)) /\ Whole(store', Fresh(there))
  <2>1. overlap' = overlap
    BY DEF Leave, Bounded
  <2> QED
    BY <1>2, <1>5, <2>1, FreshOK
<1>7. /\ names' \in [{"cache", "part", "spool"} -> Inode(Len(store'))]
      /\ names'["spool"] = NoFile /\ names'["part"] = names["part"]
      /\ names'["cache"] = names["cache"]
  BY <1>2, <1>5 DEF Leave, Inode
<1>8. overlap' \/ \A q \in Process : Active(q) => q = p
  BY OfAlone DEF Leave, Bounded
<1>9. Step(p, Fresh(there), K)
  BY <1>2, <1>5, <1>6, <1>7, <1>8 DEF Step, Leave, Bounded, Fresh
<1> QED
  BY <1>1, <1>9, AmongAll, StepKeeps

\* Only the run changes.
Quiet(p, h) ==
  /\ process' = [process EXCEPT ![p] = h]
  /\ UNCHANGED <<store, names, reader, overlap>>
  /\ runs' \in 0..MaxRuns /\ kills' \in 0..MaxKills
  /\ Typed(Len(store), h)
  /\ RunOK(overlap, h)
  /\ h.part.inode \in {process[p].part.inode, NoFile}
  /\ h.spool.inode \in {process[p].spool.inode, NoFile}
  /\ h.mapped \in {process[p].mapped, names["spool"], NoFile}
  /\ overlap \/ Whole(store, h)

LEMMA QuietKeeps ==
  ASSUME IInv, NEW p \in Process, Active(p), NEW h, Quiet(p, h)
  PROVE  IInv'
<1>1. PICK K \in SUBSET (1..Len(store)) : Owned(K)
  BY DEF IInv, FilesInv
<1>2. /\ Len(store) \in Nat /\ NoFile \notin K /\ overlap \in BOOLEAN
      /\ Refs(K, process[p]) /\ Files(overlap, K, store)
      /\ names \in [{"cache", "part", "spool"} -> Inode(Len(store))]
      /\ names["spool"] \in K \cup {NoFile}
      /\ names["part"] \notin K /\ names["cache"] \notin K
  BY <1>1, OfRun
<1>3. Refs(K, h)
  BY <1>2 DEF Refs, Quiet
<1>4. overlap \/ \A q \in Process : Active(q) => q = p
  BY OfAlone
<1>5. Step(p, h, K)
  BY <1>2, <1>3, <1>4 DEF Step, Quiet
<1> QED
  BY <1>1, <1>5, AmongAll, StepKeeps

LEMMA KeepsFresh ==
  ASSUME IInv, NEW p \in Process, Active(p), NEW there \in Outside,
         process' = [process EXCEPT ![p] = Fresh(there)],
         UNCHANGED <<store, names, reader, overlap>>,
         runs' \in 0..MaxRuns, kills' \in 0..MaxKills
  PROVE  IInv'
<1>1. PICK K \in SUBSET (1..Len(store)) : Owned(K)
  BY DEF IInv, FilesInv
<1>2. Len(store) \in Nat /\ NoFile \notin K /\ overlap \in BOOLEAN
  BY <1>1, OfRun
<1>3. /\ Typed(Len(store), Fresh(there)) /\ RunOK(overlap, Fresh(there))
      /\ Whole(store, Fresh(there))
  BY <1>2, FreshOK
<1>4. /\ Fresh(there).part.inode = NoFile /\ Fresh(there).spool.inode = NoFile
      /\ Fresh(there).mapped = NoFile
  BY DEF Fresh, NewRun, Closed
<1>5. Quiet(p, Fresh(there))
  BY <1>3, <1>4 DEF Quiet
<1> QED
  BY <1>5, QuietKeeps

LEMMA StartKeeps ==
  ASSUME IInv, NEW p \in Process, Start(p)
  PROVE  IInv'
<1>1. PICK K \in SUBSET (1..Len(store)) : Owned(K)
  BY DEF IInv, FilesInv
<1>2. /\ Len(store) \in Nat /\ NoFile \notin K /\ overlap \in BOOLEAN
      /\ Files(overlap, K, store)
      /\ names \in [{"cache", "part", "spool"} -> Inode(Len(store))]
      /\ names["spool"] \in K \cup {NoFile}
      /\ names["part"] \notin K /\ names["cache"] \notin K
      /\ runs \in 0..MaxRuns /\ kills \in 0..MaxKills
  BY <1>1, OfRun
<1>3. overlap' \in BOOLEAN /\ (overlap => overlap')
      /\ (overlap' \/ \A q \in Process : Active(q) => q = p)
  BY <1>2 DEF Start
<1>4. runs' \in 0..MaxRuns
  BY <1>2, ConstantsOK DEF Start
<1>5. Files(overlap', K, store)
  BY <1>2, <1>3, FilesWeaker
<1>6. NewRun = Fresh("part")
  BY DEF NewRun, Fresh
<1>7. /\ Typed(Len(store), NewRun) /\ RunOK(overlap', NewRun)
      /\ Refs(K, NewRun) /\ Whole(store, NewRun)
  BY <1>2, <1>3, <1>6, FreshOK
<1>8. Step(p, NewRun, K)
  BY <1>2, <1>3, <1>4, <1>5, <1>7 DEF Step, Start
<1> QED
  BY <1>1, <1>8, AmongAll, StepKeeps

LEMMA ReuseKeeps ==
  ASSUME IInv, NEW p \in Process, Reuse(p)
  PROVE  IInv'
<1>1. PICK K \in SUBSET (1..Len(store)) : Owned(K)
  BY DEF IInv, FilesInv
<1> DEFINE h == [process[p] EXCEPT !.pc = "reused"]
<1>2. /\ process[p] \in Run(Len(store)) /\ Typed(Len(store), process[p])
      /\ RunOK(overlap, process[p]) /\ runs \in 0..MaxRuns /\ kills \in 0..MaxKills
      /\ process[p].pc = "part"
  BY <1>1, OfRun DEF Reuse
<1>3. /\ h \in Run(Len(store)) /\ h.pc = "reused" /\ h.part = process[p].part
      /\ h.spool = process[p].spool /\ h.mapped = process[p].mapped
      /\ h.payload = process[p].payload
  BY <1>2 DEF Run
<1>4. process' = [process EXCEPT ![p] = h]
  BY DEF Reuse
<1> HIDE DEF h
<1>5. Typed(Len(store), h)
  BY <1>2, <1>3 DEF Typed
<1>6. RunOK(overlap, h)
  BY <1>2, <1>3 DEF RunOK, Outside, Spooling
<1>7. overlap \/ Whole(store, h)
  <2>1. overlap \/ Whole(store, process[p])
    BY <1>2, OfAlone DEF Active
  <2> QED
    BY <1>3, <2>1 DEF Whole
<1>8. Quiet(p, h)
  BY <1>2, <1>3, <1>4, <1>5, <1>6, <1>7 DEF Quiet, Reuse, Bounded
<1> QED
  BY <1>2, <1>8, QuietKeeps DEF Active

LEMMA ParseKeeps ==
  ASSUME IInv, NEW p \in Process, Parse(p)
  PROVE  IInv'
<1>1. PICK K \in SUBSET (1..Len(store)) : Owned(K)
  BY DEF IInv, FilesInv
<1> DEFINE s == [process[p].spool EXCEPT !.cells = AllMessages]
           h == [process[p] EXCEPT !.pc = "sort", !.spool = s]
<1>2. /\ process[p] \in Run(Len(store)) /\ Typed(Len(store), process[p])
      /\ RunOK(overlap, process[p]) /\ runs \in 0..MaxRuns /\ kills \in 0..MaxKills
      /\ process[p].pc = "parse" /\ process[p].spool \in Stream(Len(store))
  BY <1>1, OfRun DEF Parse, Run
<1>3. AllMessages \in Seq(Cell) /\ Len(AllMessages) = Count
  <2>1. AllMessages \in [1..Count -> Cell] /\ Count \in Nat
    BY CellKinds, CountFacts DEF AllMessages
  <2> QED
    BY <2>1, SeqDef, LenProperties
<1>4. /\ s \in Stream(Len(store)) /\ s.inode = process[p].spool.inode
      /\ s.written = process[p].spool.written /\ s.cells = AllMessages
  BY <1>2, <1>3 DEF Stream
<1>5. process' = [process EXCEPT ![p] = h]
  BY DEF Parse, AllMessages
<1>6. /\ h \in Run(Len(store)) /\ h.pc = "sort" /\ h.part = process[p].part
      /\ h.spool = s /\ h.mapped = process[p].mapped /\ h.entry = process[p].entry
      /\ h.payload = process[p].payload
  <2> HIDE DEF s
  <2> QED
    BY <1>2, <1>4 DEF Run
<1> HIDE DEF h, s
<1>7. s.written <= Count
  <2>1. process[p].spool.cells \in {<<>>, AllMessages}
    BY <1>2 DEF RunOK
  <2>2. process[p].spool.written <= Len(process[p].spool.cells) /\ process[p].spool.written \in Nat
    BY <1>2 DEF Typed, Stream
  <2> QED
    BY <1>3, <1>4, <2>1, <2>2, EmptySeq, CountFacts
<1>8. Typed(Len(store), h)
  BY <1>2, <1>3, <1>4, <1>6, <1>7 DEF Typed
<1>9. RunOK(overlap, h)
  BY <1>2, <1>4, <1>6 DEF RunOK, Outside, Spooling
<1>10. overlap \/ Whole(store, h)
  <2>1. overlap \/ Whole(store, process[p])
    BY <1>2, OfAlone DEF Active
  <2> QED
    BY <1>4, <1>6, <2>1 DEF Whole
<1>11. Quiet(p, h)
  BY <1>2, <1>4, <1>5, <1>6, <1>8, <1>9, <1>10 DEF Quiet, Parse, Bounded
<1> QED
  BY <1>2, <1>11, QuietKeeps DEF Active

NoCells == <<>>

\* The file that a stream opens: a new one, or one that is emptied.
Opened(st, old) == IF old = NoFile THEN Append(st, NoCells) ELSE [st EXCEPT ![old] = NoCells]

OpenedInode(st, old) == IF old = NoFile THEN Len(st) + 1 ELSE old

LEMMA Emptied ==
  ASSUME NEW o \in BOOLEAN, NEW K, NEW st, Files(o, K, st), NEW old \in Inode(Len(st)),
         old # NoFile
  PROVE  /\ Files(o, K, Opened(st, old))
         /\ Len(Opened(st, old)) = Len(st)
         /\ old \in 1..Len(st) /\ Opened(st, old)[old] = NoCells
<1>1. SpoolFile(o, NoCells) /\ PartFile(o, NoCells)
  BY EmptySeq DEF SpoolFile, PartFile, NoCells
<1>2. old \in 1..Len(st) /\ Opened(st, old) = [st EXCEPT ![old] = NoCells]
  BY DEF Inode, Opened
<1>3. IF old \in K THEN SpoolFile(o, NoCells) ELSE PartFile(o, NoCells)
  BY <1>1
<1> DEFINE new == [st EXCEPT ![old] = NoCells]
<1>4. /\ Files(o, K, new) /\ Len(new) = Len(st)
      /\ \A j \in 1..Len(st) : new[j] = IF j = old THEN NoCells ELSE st[j]
  <2>1. PICK g : g = NoCells
    OBVIOUS
  <2>2. PICK i \in 1..Len(st) : i = old
    BY <1>2
  <2>3. IF i \in K THEN SpoolFile(o, g) ELSE PartFile(o, g)
    BY <1>3, <2>1, <2>2
  <2>4. /\ Files(o, K, [st EXCEPT ![i] = g]) /\ Len([st EXCEPT ![i] = g]) = Len(st)
        /\ \A j \in 1..Len(st) : [st EXCEPT ![i] = g][j] = IF j = i THEN g ELSE st[j]
    BY <2>3, FileChange
  <2> QED
    BY <2>1, <2>2, <2>4
<1>5. Opened(st, old) = new
  BY <1>2
<1> HIDE DEF new
<1> QED
  BY <1>2, <1>4, <1>5

With(K, x) == K \cup {x}

LEMMA Created ==
  ASSUME NEW o \in BOOLEAN, NEW K, NEW st, Files(o, K, st),
         NEW x, x = OpenedInode(st, NoFile)
  PROVE  /\ Files(o, K, Opened(st, NoFile)) /\ Files(o, With(K, x), Opened(st, NoFile))
         /\ Len(Opened(st, NoFile)) >= Len(st)
         /\ x \in 1..Len(Opened(st, NoFile))
         /\ Opened(st, NoFile)[x] = NoCells
         /\ x \notin K
         /\ Among(With(K, x), st) = K
<1> DEFINE new == Opened(st, NoFile)
<1>0. PICK n \in Nat : n = Len(st)
  BY LenProperties DEF Files
<1>1. st \in Seq(Seq(Cell)) /\ K \subseteq 1..n /\ x = n + 1
  BY <1>0 DEF Files, OpenedInode
<1>2. NoCells \in Seq(Cell) /\ SpoolFile(o, NoCells) /\ PartFile(o, NoCells)
  BY EmptySeq DEF SpoolFile, PartFile, NoCells
<1>3. new \in Seq(Seq(Cell)) /\ Len(new) = n + 1 /\ new[x] = NoCells
      /\ \A i \in 1..n : new[i] = st[i]
  BY <1>0, <1>1, <1>2, AppendProperties DEF Opened
<1>4. x \notin 1..n /\ x \in 1..(n + 1) /\ n + 1 >= n
  BY <1>1
<1> HIDE DEF new
<1>5. K \subseteq 1..(n + 1) /\ K \cup {x} \subseteq 1..(n + 1)
  <2>1. \A y \in 1..n : y \in 1..(n + 1)
    OBVIOUS
  <2> QED
    BY <1>1, <1>4, <2>1
<1>6. \A i \in 1..n : IF i \in K THEN SpoolFile(o, new[i]) ELSE PartFile(o, new[i])
  BY <1>0, <1>3 DEF Files
<1>7. \A i \in 1..(n + 1) : i \in 1..n \/ i = x
  BY <1>1
<1>8. ASSUME NEW i \in 1..(n + 1)
      PROVE  /\ IF i \in K THEN SpoolFile(o, new[i]) ELSE PartFile(o, new[i])
             /\ IF i \in K \cup {x} THEN SpoolFile(o, new[i]) ELSE PartFile(o, new[i])
  <2>1. CASE i = x
    BY <1>1, <1>2, <1>3, <1>4, <2>1
  <2>2. CASE i \in 1..n /\ i # x
    BY <1>6, <2>2
  <2> QED
    BY <1>7, <2>1, <2>2
<1>9. Files(o, K, new) /\ Files(o, K \cup {x}, new)
  BY <1>3, <1>5, <1>8 DEF Files
<1>10. (K \cup {x}) \cap (1..n) = K /\ x \notin K
  BY <1>1, <1>4
<1> QED
  BY <1>0, <1>3, <1>4, <1>9, <1>10 DEF new, Among, With

LEMMA OpenedPart ==
  ASSUME NEW o \in BOOLEAN, NEW K, NEW st, Files(o, K, st), NEW old \in Inode(Len(st)),
         old \notin K, NEW x, x = OpenedInode(st, old)
  PROVE  /\ Files(o, K, Opened(st, old))
         /\ Len(Opened(st, old)) >= Len(st)
         /\ x \in 1..Len(Opened(st, old))
         /\ x \notin K
<1>1. CASE old = NoFile
  BY <1>1, Created
<1>2. CASE old # NoFile
  <2>1. /\ Files(o, K, Opened(st, old)) /\ Len(Opened(st, old)) = Len(st)
        /\ old \in 1..Len(st)
    BY <1>2, Emptied
  <2>2. x = old /\ Len(st) \in Nat
    BY <1>2, LenProperties DEF OpenedInode, Files
  <2> QED
    BY <2>1, <2>2
<1> QED
  BY <1>1, <1>2

LEMMA OpenedSpool ==
  ASSUME NEW o \in BOOLEAN, NEW K, NEW st, Files(o, K, st), NEW old \in Inode(Len(st)),
         old \in K \cup {NoFile}, NEW x, x = OpenedInode(st, old)
  PROVE  /\ Files(o, With(K, x), Opened(st, old))
         /\ Len(Opened(st, old)) >= Len(st)
         /\ x \in 1..Len(Opened(st, old))
         /\ Opened(st, old)[x] = NoCells
         /\ Among(With(K, x), st) = K
<1>1. CASE old = NoFile
  BY <1>1, Created
<1>2. CASE old # NoFile
  <2>1. /\ Files(o, K, Opened(st, old)) /\ Len(Opened(st, old)) = Len(st)
        /\ old \in 1..Len(st) /\ Opened(st, old)[old] = NoCells
    BY <1>2, Emptied
  <2>2. x = old /\ Len(st) \in Nat
    BY <1>2, LenProperties DEF OpenedInode, Files
  <2>3. With(K, x) = K /\ Among(K, st) = K
    BY <1>2, <2>2 DEF Files, Among, With
  <2> QED
    BY <2>1, <2>2, <2>3
<1> QED
  BY <1>1, <1>2

LEMMA OpenPartKeeps ==
  ASSUME IInv, NEW p \in Process, OpenPart(p)
  PROVE  IInv'
<1>1. PICK K \in SUBSET (1..Len(store)) : Owned(K)
  BY DEF IInv, FilesInv
<1> DEFINE old   == names["part"]
           inode == OpenedInode(store, old)
           s     == [Closed EXCEPT !.inode = inode, !.cells = <<Header>>]
           h     == [process[p] EXCEPT !.part = s, !.pc = "spool"]
<1>2. /\ Len(store) \in Nat /\ NoFile \notin K /\ overlap \in BOOLEAN
      /\ process \in [Process -> Run(Len(store))]
      /\ process[p] \in Run(Len(store)) /\ Typed(Len(store), process[p])
      /\ RunOK(overlap, process[p]) /\ Refs(K, process[p]) /\ Files(overlap, K, store)
      /\ names \in [{"cache", "part", "spool"} -> Inode(Len(store))]
      /\ names["spool"] \in K \cup {NoFile}
      /\ names["part"] \notin K /\ names["cache"] \notin K
      /\ runs \in 0..MaxRuns /\ kills \in 0..MaxKills
  BY <1>1, OfRun
<1>3. /\ process[p].pc = "part"
      /\ store' = Opened(store, old)
      /\ names' = [names EXCEPT !["part"] = inode]
      /\ process' = [process EXCEPT ![p] = h]
      /\ Bounded
  <2>1. process[p].pc = "part" /\ Open(p, "part", "part", <<Header>>, "spool")
    BY DEF OpenPart
  <2>2. /\ store' = Opened(store, old)
        /\ names' = [names EXCEPT !["part"] = inode]
        /\ Bounded
    BY <2>1 DEF Open, Opened, OpenedInode, NoCells
  <2>3. process' = [process EXCEPT ![p] = h]
    <3>1. s = [Closed EXCEPT !.inode = inode, !.cells = <<Header>>]
      OBVIOUS
    <3>2. process' = [process EXCEPT ![p]["part"] = s, ![p].pc = "spool"]
      BY <2>1, <3>1 DEF Open, OpenedInode
    <3> HIDE DEF s
    <3> QED
      BY <1>2, <3>2
  <2> QED
    BY <2>1, <2>2, <2>3
<1>4. /\ Files(overlap, K, store') /\ Len(store') >= Len(store)
      /\ inode \in 1..Len(store') /\ inode \notin K /\ Len(store') \in Nat
  <2>1. old \in Inode(Len(store)) /\ old \notin K
    BY <1>2
  <2>2. /\ Files(overlap, K, store') /\ Len(store') >= Len(store)
        /\ inode \in 1..Len(store') /\ inode \notin K
    BY <1>2, <1>3, <2>1, OpenedPart
  <2> QED
    BY <2>2, LenProperties DEF Files
<1> HIDE DEF inode
<1>5. /\ s.inode = inode /\ s.cells = <<Header>> /\ s.written = 0
      /\ <<Header>> \in Seq(Cell) /\ Len(<<Header>>) = 1
      /\ PartFile(overlap, <<Header>>)
  <2>0. s.inode = inode /\ s.cells = <<Header>> /\ s.written = 0
    BY DEF Closed
  <2>1. <<Header>> \in Seq(Cell) /\ Len(<<Header>>) = 1 /\ <<Header>>[1] = Header
    BY CellKinds
  <2>2. PartCell(overlap, 1, Header)
    BY <1>2, PartCells
  <2>3. PartFile(overlap, <<Header>>)
    BY <2>1, <2>2 DEF PartFile
  <2> QED
    BY <2>0, <2>1, <2>3
<1>6. s \in Stream(Len(store'))
  BY <1>4, <1>5 DEF Stream, Inode, Closed
<1> HIDE DEF s
<1>7. /\ h.pc = "spool" /\ h.part = s
      /\ h.spool = process[p].spool /\ h.mapped = process[p].mapped
      /\ h.entry = process[p].entry /\ h.payload = process[p].payload
      /\ h \in Run(Len(store'))
  <2>1. process[p].spool \in Stream(Len(store')) /\ process[p].mapped \in Inode(Len(store'))
    <3>1. process[p].spool \in Stream(Len(store)) /\ process[p].mapped \in Inode(Len(store))
      BY <1>2 DEF Run
    <3>2. \A x \in Inode(Len(store)) : x \in Inode(Len(store'))
      BY <1>2, <1>4 DEF Inode
    <3>3. \A x \in Stream(Len(store)) : x \in Stream(Len(store'))
      BY <3>2 DEF Stream
    <3> QED
      BY <3>1, <3>2, <3>3
  <2> QED
    BY <1>2, <1>6, <2>1 DEF Run
<1> HIDE DEF h
<1>8. Typed(Len(store'), h)
  BY <1>2, <1>5, <1>7 DEF Typed
<1>9. RunOK(overlap, h)
  BY <1>2, <1>3, <1>5, <1>7 DEF RunOK, Outside, Spooling
<1>10. Refs(K, h)
  BY <1>2, <1>4, <1>5, <1>7 DEF Refs
<1>11. Whole(store', h)
  BY <1>2, <1>3, <1>7 DEF RunOK, Closed, Whole
<1>12. overlap \/ \A q \in Process : Active(q) => q = p
  BY <1>3, OfAlone DEF Active
<1>13. /\ names' \in [{"cache", "part", "spool"} -> Inode(Len(store'))]
       /\ names'["spool"] = names["spool"] /\ names'["cache"] = names["cache"]
       /\ names'["part"] = inode
  BY <1>2, <1>3, <1>4 DEF Inode
<1>14. Step(p, h, K)
  BY <1>2, <1>3, <1>4, <1>8, <1>9, <1>10, <1>11, <1>12, <1>13 DEF Step, Bounded
<1> QED
  BY <1>1, <1>14, AmongAll, StepKeeps

LEMMA OpenSpoolKeeps ==
  ASSUME IInv, NEW p \in Process, OpenSpool(p)
  PROVE  IInv'
<1>1. PICK K \in SUBSET (1..Len(store)) : Owned(K)
  BY DEF IInv, FilesInv
<1> DEFINE old   == names["spool"]
           inode == OpenedInode(store, old)
           L     == With(K, inode)
           s     == [Closed EXCEPT !.inode = inode, !.cells = <<>>]
           h     == [process[p] EXCEPT !.spool = s, !.pc = "parse"]
<1>2. /\ Len(store) \in Nat /\ NoFile \notin K /\ overlap \in BOOLEAN
      /\ process \in [Process -> Run(Len(store))]
      /\ process[p] \in Run(Len(store)) /\ Typed(Len(store), process[p])
      /\ RunOK(overlap, process[p]) /\ Refs(K, process[p]) /\ Files(overlap, K, store)
      /\ names \in [{"cache", "part", "spool"} -> Inode(Len(store))]
      /\ names["spool"] \in K \cup {NoFile}
      /\ names["part"] \notin K /\ names["cache"] \notin K
      /\ runs \in 0..MaxRuns /\ kills \in 0..MaxKills
  BY <1>1, OfRun
<1>3. /\ process[p].pc = "spool"
      /\ store' = Opened(store, old)
      /\ names' = [names EXCEPT !["spool"] = inode]
      /\ process' = [process EXCEPT ![p] = h]
      /\ Bounded
  <2>1. process[p].pc = "spool" /\ Open(p, "spool", "spool", <<>>, "parse")
    BY DEF OpenSpool
  <2>2. /\ store' = Opened(store, old)
        /\ names' = [names EXCEPT !["spool"] = inode]
        /\ Bounded
    BY <2>1 DEF Open, Opened, OpenedInode, NoCells
  <2>3. process' = [process EXCEPT ![p] = h]
    <3>1. s = [Closed EXCEPT !.inode = inode, !.cells = <<>>]
      OBVIOUS
    <3>2. process' = [process EXCEPT ![p]["spool"] = s, ![p].pc = "parse"]
      BY <2>1, <3>1 DEF Open, OpenedInode
    <3> HIDE DEF s
    <3> QED
      BY <1>2, <3>2
  <2> QED
    BY <2>1, <2>2, <2>3
<1>4. /\ Files(overlap, L, store') /\ Len(store') >= Len(store)
      /\ inode \in 1..Len(store') /\ inode \in L /\ Len(store') \in Nat
      /\ store'[inode] = NoCells /\ Among(L, store) = K
  <2>1. old \in Inode(Len(store)) /\ old \in K \cup {NoFile}
    BY <1>2
  <2>2. /\ Files(overlap, L, store') /\ Len(store') >= Len(store)
        /\ inode \in 1..Len(store') /\ inode \in L
        /\ store'[inode] = NoCells /\ Among(L, store) = K
    <3> DEFINE new == Opened(store, old)
    <3>1. /\ Files(overlap, L, new) /\ Len(new) >= Len(store)
          /\ inode \in 1..Len(new) /\ new[inode] = NoCells /\ Among(L, store) = K
      <4> HIDE DEF inode, old
      <4>1. inode = OpenedInode(store, old)
        BY DEF inode
      <4> QED
        BY <1>2, <2>1, <4>1, OpenedSpool
    <3>2. inode \in L
      BY DEF With
    <3> HIDE DEF new, L, inode
    <3>3. store' = new
      BY <1>3 DEF new
    <3> QED
      BY <3>1, <3>2, <3>3
  <2> QED
    BY <2>2, LenProperties DEF Files
<1>5. names["part"] \notin L /\ names["cache"] \notin L /\ process[p].part.inode \notin L
      /\ process[p].mapped = NoFile
  <2>1. \A x \in Inode(Len(store)) : x \notin K => x \notin L
    <3>1. L \subseteq 1..Len(store')
      BY <1>4 DEF Files
    <3>2. NoFile \notin L
      <4>1. PICK n \in Nat : n = Len(store')
        BY <1>4
      <4>2. \A x \in L : x \in Nat
        BY <3>1, <4>1
      <4> QED
        BY <4>2, CountFacts
    <3> QED
      BY <1>4, <3>2 DEF Inode, Among
  <2>2. process[p].part.inode \in Inode(Len(store)) /\ process[p].part.inode \notin K
    BY <1>2 DEF Run, Stream, Refs
  <2> QED
    BY <1>2, <1>3, <2>1, <2>2 DEF RunOK, Spooling
<1> HIDE DEF inode, L
<1>6. /\ s.inode = inode /\ s.cells = <<>> /\ s.written = 0 /\ s \in Stream(Len(store'))
      /\ Len(<<>>) = 0
  BY <1>4, EmptySeq DEF Stream, Inode, Closed
<1> HIDE DEF s
<1>7. /\ h.pc = "parse" /\ h.spool = s
      /\ h.part = process[p].part /\ h.mapped = process[p].mapped
      /\ h.entry = process[p].entry /\ h.payload = process[p].payload
      /\ h \in Run(Len(store'))
  <2>1. process[p].part \in Stream(Len(store')) /\ process[p].mapped \in Inode(Len(store'))
    <3>1. process[p].part \in Stream(Len(store)) /\ process[p].mapped \in Inode(Len(store))
      BY <1>2 DEF Run
    <3>2. \A x \in Inode(Len(store)) : x \in Inode(Len(store'))
      BY <1>2, <1>4 DEF Inode
    <3>3. \A x \in Stream(Len(store)) : x \in Stream(Len(store'))
      BY <3>2 DEF Stream
    <3> QED
      BY <3>1, <3>2, <3>3
  <2> QED
    BY <1>2, <1>6, <2>1 DEF Run
<1> HIDE DEF h
<1>8. Typed(Len(store'), h)
  BY <1>2, <1>6, <1>7 DEF Typed
<1>9. RunOK(overlap, h)
  BY <1>2, <1>3, <1>6, <1>7 DEF RunOK, Outside, Spooling
<1>10. Refs(L, h)
  BY <1>4, <1>5, <1>6, <1>7 DEF Refs
<1>11. Whole(store', h)
  BY <1>4, <1>6, <1>7 DEF Whole, NoCells
<1>12. overlap \/ \A q \in Process : Active(q) => q = p
  BY <1>3, OfAlone DEF Active
<1>13. /\ names' \in [{"cache", "part", "spool"} -> Inode(Len(store'))]
       /\ names'["part"] = names["part"] /\ names'["cache"] = names["cache"]
       /\ names'["spool"] = inode
  BY <1>2, <1>3, <1>4 DEF Inode
<1>14. Step(p, h, L)
  BY <1>2, <1>3, <1>4, <1>5, <1>8, <1>9, <1>10, <1>11, <1>12, <1>13 DEF Step, Bounded
<1> QED
  BY <1>1, <1>4, <1>14, StepKeeps

LEMMA WriteOutFields ==
  ASSUME NEW p \in Process, WriteOut(p)
  PROVE  \/ \E k \in (process[p].part.written + 1)..Len(process[p].part.cells) :
              /\ process[p].part.inode # NoFile
              /\ store' = [store EXCEPT ![process[p].part.inode] = Filled(@, process[p].part, k)]
              /\ process' = [process EXCEPT ![p].part.written = k]
         \/ \E k \in (process[p].spool.written + 1)..Len(process[p].spool.cells) :
              /\ process[p].spool.inode # NoFile
              /\ store' = [store EXCEPT ![process[p].spool.inode] = Filled(@, process[p].spool, k)]
              /\ process' = [process EXCEPT ![p].spool.written = k]
<1> DEFINE Writes(field) ==
             \E k \in (process[p][field].written + 1)..Len(process[p][field].cells) :
               /\ process[p][field].inode # NoFile
               /\ store' = [store EXCEPT ![process[p][field].inode] =
                              Filled(@, process[p][field], k)]
               /\ process' = [process EXCEPT ![p][field].written = k]
<1>1. Writes("part") \/ Writes("spool")
  <2>1. \E field \in {"part", "spool"} : Writes(field)
    BY DEF WriteOut
  <2> HIDE DEF Writes
  <2> QED
    BY <2>1
<1>2. CASE Writes("part")
  BY <1>2
<1>3. CASE Writes("spool")
  BY <1>3
<1> QED
  BY <1>1, <1>2, <1>3

\* A stream that is open is one of an active run.
LEMMA OpenIsActive ==
  ASSUME NEW p \in Process, RunOK(overlap, process[p]),
         process[p].part.inode # NoFile \/ process[p].spool.inode # NoFile
  PROVE  Active(p)
BY DEF RunOK, Active, Outside, Closed

LEMMA WriteOutKeeps ==
  ASSUME IInv, NEW p \in Process, WriteOut(p)
  PROVE  IInv'
<1>1. PICK K \in SUBSET (1..Len(store)) : Owned(K)
  BY DEF IInv, FilesInv
<1>2. /\ Len(store) \in Nat /\ NoFile \notin K /\ overlap \in BOOLEAN
      /\ process \in [Process -> Run(Len(store))]
      /\ process[p] \in Run(Len(store)) /\ Typed(Len(store), process[p])
      /\ RunOK(overlap, process[p]) /\ Refs(K, process[p]) /\ Files(overlap, K, store)
      /\ names \in [{"cache", "part", "spool"} -> Inode(Len(store))]
      /\ names["spool"] \in K \cup {NoFile}
      /\ names["part"] \notin K /\ names["cache"] \notin K
      /\ runs \in 0..MaxRuns /\ kills \in 0..MaxKills
  BY <1>1, OfRun
<1>3. /\ process[p].part \in Stream(Len(store)) /\ process[p].part.written \in Nat
      /\ process[p].spool \in Stream(Len(store)) /\ process[p].spool.written \in Nat
      /\ process[p].part.inode \in Inode(Len(store))
      /\ process[p].spool.inode \in Inode(Len(store))
      /\ process[p].spool.written <= Len(process[p].spool.cells)
      /\ Len(process[p].part.cells) \in Nat /\ Len(process[p].spool.cells) \in Nat
  <2>1. process[p].part \in Stream(Len(store)) /\ process[p].spool \in Stream(Len(store))
    BY <1>2 DEF Run
  <2>2. process[p].part.cells \in Seq(Cell) /\ process[p].spool.cells \in Seq(Cell)
    BY <2>1 DEF Stream
  <2> QED
    BY <1>2, <2>1, <2>2, LenProperties DEF Stream, Typed
<1>4. UNCHANGED <<names, runs, kills, overlap, reader>>
  BY DEF WriteOut, Bounded
<1>5. ASSUME NEW k \in (process[p].part.written + 1)..Len(process[p].part.cells),
             process[p].part.inode # NoFile,
             store' = [store EXCEPT ![process[p].part.inode] = Filled(@, process[p].part, k)],
             process' = [process EXCEPT ![p].part.written = k]
      PROVE  IInv'
  <2> DEFINE s == [process[p].part EXCEPT !.written = k]
             h == [process[p] EXCEPT !.part = s]
             i == process[p].part.inode
             g == Filled(store[i], process[p].part, k)
  <2>1. k \in Nat /\ k \in 0..Len(process[p].part.cells) /\ k <= Len(process[p].part.cells)
    BY <1>3
  <2>2. /\ s \in Stream(Len(store)) /\ s.inode = i /\ s.written = k
        /\ s.cells = process[p].part.cells
    BY <1>3, <2>1 DEF Stream
  <2>3. /\ h \in Run(Len(store)) /\ h.part = s /\ h.spool = process[p].spool
        /\ h.pc = process[p].pc /\ h.mapped = process[p].mapped
        /\ h.entry = process[p].entry /\ h.payload = process[p].payload
    <3> HIDE DEF s
    <3> QED
      BY <1>2, <2>2 DEF Run
  <2>4. process' = [process EXCEPT ![p] = h]
    BY <1>2, <1>5
  <2>5. i \in 1..Len(store) /\ i \notin K /\ PartFile(overlap, store[i])
        /\ PartFile(overlap, process[p].part.cells)
    BY <1>2, <1>3, <1>5 DEF Inode, Refs, Files, RunOK
  <2>6. PartFile(overlap, g)
    BY <1>2, <1>3, <2>1, <2>5, FilledPart
  <2>7. store' = [store EXCEPT ![i] = g]
    BY <1>5
  <2> HIDE DEF s, h, i, g
  <2>8. /\ Files(overlap, K, store') /\ Len(store') = Len(store)
        /\ \A j \in 1..Len(store) : store'[j] = IF j = i THEN g ELSE store[j]
    <3>0. i \in 1..Len(store) /\ Files(overlap, K, store) /\ overlap \in BOOLEAN
      BY <1>2, <2>5
    <3>1. IF i \in K THEN SpoolFile(overlap, g) ELSE PartFile(overlap, g)
      BY <2>5, <2>6
    <3>2. /\ Files(overlap, K, [store EXCEPT ![i] = g])
          /\ Len([store EXCEPT ![i] = g]) = Len(store)
          /\ \A j \in 1..Len(store) : [store EXCEPT ![i] = g][j] = IF j = i THEN g ELSE store[j]
      BY <3>0, <3>1, FileChange
    <3> QED
      BY <2>7, <3>2
  <2>9. Active(p)
    BY <1>2, <1>5, OpenIsActive
  <2>10. Typed(Len(store'), h)
    BY <1>2, <2>1, <2>2, <2>3, <2>8 DEF Typed
  <2>11. RunOK(overlap, h)
    <3>1. process[p].pc \notin Outside \cup {"part"}
      BY <1>2, <1>5 DEF RunOK, Closed
    <3> QED
      BY <1>2, <2>2, <2>3, <3>1 DEF RunOK, Copying
  <2>12. Refs(K, h)
    BY <1>2, <2>2, <2>3, <2>5 DEF Refs
  <2>13. overlap \/ (Whole(store', h) /\ \A q \in Process : Active(q) => q = p)
    <3> SUFFICES ASSUME ~overlap PROVE Whole(store', h) /\ \A q \in Process : Active(q) => q = p
      OBVIOUS
    <3>1. Whole(store, process[p]) /\ \A q \in Process : Active(q) => q = p
      BY <2>9, OfAlone
    <3>2. \A j \in K : store'[j] = store[j]
      BY <2>5, <2>8
    <3>3. h.pc = "copy" => h.mapped \in K
      BY <1>2, <2>3 DEF Refs, RunOK
    <3>4. h.spool.inode = NoFile \/ h.spool.inode \in K
      BY <1>2, <2>3 DEF Refs
    <3> QED
      BY <2>3, <3>1, <3>2, <3>3, <3>4 DEF Whole
  <2>14. Step(p, h, K)
    BY <1>2, <1>4, <2>4, <2>8, <2>10, <2>11, <2>12, <2>13 DEF Step
  <2> QED
    BY <1>1, <2>14, AmongAll, StepKeeps
<1>6. ASSUME NEW k \in (process[p].spool.written + 1)..Len(process[p].spool.cells),
             process[p].spool.inode # NoFile,
             store' = [store EXCEPT ![process[p].spool.inode] = Filled(@, process[p].spool, k)],
             process' = [process EXCEPT ![p].spool.written = k]
      PROVE  IInv'
  <2> DEFINE s == [process[p].spool EXCEPT !.written = k]
             h == [process[p] EXCEPT !.spool = s]
             i == process[p].spool.inode
             g == Filled(store[i], process[p].spool, k)
  <2>1. k \in Nat /\ k \in 0..Len(process[p].spool.cells) /\ k <= Len(process[p].spool.cells)
    BY <1>3
  <2>2. /\ s \in Stream(Len(store)) /\ s.inode = i /\ s.written = k
        /\ s.cells = process[p].spool.cells
    BY <1>3, <2>1 DEF Stream
  <2>3. /\ h \in Run(Len(store)) /\ h.spool = s /\ h.part = process[p].part
        /\ h.pc = process[p].pc /\ h.mapped = process[p].mapped
        /\ h.entry = process[p].entry /\ h.payload = process[p].payload
    <3> HIDE DEF s
    <3> QED
      BY <1>2, <2>2 DEF Run
  <2>4. process' = [process EXCEPT ![p] = h]
    BY <1>2, <1>6
  <2>5. i \in 1..Len(store) /\ i \in K /\ SpoolFile(overlap, store[i])
        /\ process[p].spool.cells \in {<<>>, AllMessages}
    BY <1>2, <1>3, <1>6 DEF Inode, Refs, Files, RunOK
  <2>6. Active(p)
    BY <1>2, <1>6, OpenIsActive
  <2>7. SpoolFile(overlap, g) /\ Len(g) >= k
    <3>1. overlap \/ process[p].spool.written <= Len(store[i])
      BY <1>6, <2>6, OfAlone DEF Whole
    <3>2. PICK f : f = store[i]
      OBVIOUS
    <3>3. PICK stream : stream = process[p].spool
      OBVIOUS
    <3>4. /\ overlap \in BOOLEAN /\ SpoolFile(overlap, f)
          /\ stream.cells \in {<<>>, AllMessages} /\ stream.written \in Nat
          /\ stream.written <= Len(stream.cells) /\ k \in 0..Len(stream.cells)
          /\ (overlap \/ stream.written <= Len(f))
      BY <1>2, <1>3, <2>1, <2>5, <3>1, <3>2, <3>3
    <3>5. SpoolFile(overlap, Filled(f, stream, k)) /\ Len(Filled(f, stream, k)) >= k
      BY <3>4, FilledSpool
    <3> QED
      BY <3>2, <3>3, <3>5
  <2>8. store' = [store EXCEPT ![i] = g]
    BY <1>6
  <2> HIDE DEF s, h, i, g
  <2>9. /\ Files(overlap, K, store') /\ Len(store') = Len(store)
        /\ \A j \in 1..Len(store) : store'[j] = IF j = i THEN g ELSE store[j]
    <3>1. IF i \in K THEN SpoolFile(overlap, g) ELSE PartFile(overlap, g)
      BY <2>5, <2>7
    <3>2. /\ Files(overlap, K, [store EXCEPT ![i] = g])
          /\ Len([store EXCEPT ![i] = g]) = Len(store)
          /\ \A j \in 1..Len(store) : [store EXCEPT ![i] = g][j] = IF j = i THEN g ELSE store[j]
      BY <1>2, <2>5, <3>1, FileChange
    <3> QED
      BY <2>8, <3>2
  <2>10. Typed(Len(store'), h)
    BY <1>2, <2>1, <2>2, <2>3, <2>9 DEF Typed
  <2>11. process[p].pc \in {"parse", "sort"}
    BY <1>2, <1>6 DEF RunOK, Closed
  <2>12. RunOK(overlap, h)
    BY <1>2, <2>2, <2>3, <2>11 DEF RunOK, Outside, Spooling
  <2>13. Refs(K, h)
    BY <1>2, <2>2, <2>3, <2>5 DEF Refs
  <2>14. Whole(store', h)
    BY <2>2, <2>3, <2>5, <2>7, <2>9, <2>11 DEF Whole
  <2>15. overlap \/ \A q \in Process : Active(q) => q = p
    BY <2>6, OfAlone
  <2>16. Step(p, h, K)
    BY <1>2, <1>4, <2>4, <2>9, <2>10, <2>12, <2>13, <2>14, <2>15 DEF Step
  <2> QED
    BY <1>1, <2>16, AmongAll, StepKeeps
<1> QED
  BY <1>5, <1>6, WriteOutFields

LEMMA KillKeeps ==
  ASSUME IInv, NEW p \in Process, Kill(p)
  PROVE  IInv'
<1>1. PICK K \in SUBSET (1..Len(store)) : Owned(K)
  BY DEF IInv, FilesInv
<1>2. runs' \in 0..MaxRuns /\ kills' \in 0..MaxKills
  BY <1>1, OfRun, ConstantsOK DEF Kill
<1>3. "idle" \in Outside /\ process' = [process EXCEPT ![p] = Fresh("idle")]
  BY DEF Kill, Fresh, Outside
<1> QED
  BY <1>2, <1>3, KeepsFresh DEF Kill

LEMMA FaultOnPageKeeps ==
  ASSUME IInv, NEW p \in Process, FaultOnPage(p)
  PROVE  IInv'
<1>1. PICK K \in SUBSET (1..Len(store)) : Owned(K)
  BY DEF IInv, FilesInv
<1>2. runs' \in 0..MaxRuns /\ kills' \in 0..MaxKills
  BY <1>1, OfRun DEF FaultOnPage, Bounded
<1>3. "idle" \in Outside /\ process' = [process EXCEPT ![p] = Fresh("idle")]
  BY DEF FaultOnPage, Fresh, Outside
<1>4. Active(p)
  BY DEF FaultOnPage, Active
<1> QED
  BY <1>2, <1>3, <1>4, KeepsFresh DEF FaultOnPage, Bounded

LEMMA InspectBuiltKeeps ==
  ASSUME IInv, NEW p \in Process, InspectBuilt(p)
  PROVE  IInv'
<1>1. Active(p)
  BY DEF InspectBuilt, Active
<1>2. "built" \in Outside /\ "failed" \in Outside
  BY DEF Outside
<1>3. PICK there \in Outside : Leave(p, there, store, names)
  BY <1>2 DEF InspectBuilt
<1> QED
  BY <1>1, <1>3, LeaveKeeps

LEMMA RenameKeeps ==
  ASSUME IInv, NEW p \in Process, Rename(p)
  PROVE  IInv'
<1>1. PICK K \in SUBSET (1..Len(store)) : Owned(K)
  BY DEF IInv, FilesInv
<1>2. Active(p) /\ process[p].pc = "rename" /\ "failed" \in Outside
  BY DEF Rename, Active, Outside
<1>3. CASE names["part"] = NoFile
  BY <1>2, <1>3, LeaveKeeps DEF Rename
<1>4. CASE names["part"] # NoFile
  <2> DEFINE h == [process[p] EXCEPT !.pc = "inspect"]
  <2>1. /\ Len(store) \in Nat /\ NoFile \notin K /\ overlap \in BOOLEAN
        /\ process[p] \in Run(Len(store)) /\ Typed(Len(store), process[p])
        /\ RunOK(overlap, process[p]) /\ Refs(K, process[p]) /\ Files(overlap, K, store)
        /\ names \in [{"cache", "part", "spool"} -> Inode(Len(store))]
        /\ names["spool"] \in K \cup {NoFile}
        /\ names["part"] \notin K /\ names["cache"] \notin K
        /\ runs \in 0..MaxRuns /\ kills \in 0..MaxKills
    BY <1>1, OfRun
  <2>2. /\ names' = [names EXCEPT !["cache"] = names["part"], !["part"] = NoFile]
        /\ process' = [process EXCEPT ![p] = h]
        /\ UNCHANGED <<store, runs, kills, overlap, reader>>
    BY <1>4 DEF Rename, Bounded
  <2>3. /\ h \in Run(Len(store)) /\ h.pc = "inspect" /\ h.part = process[p].part
        /\ h.spool = process[p].spool /\ h.mapped = process[p].mapped
        /\ h.payload = process[p].payload
    BY <2>1 DEF Run
  <2> HIDE DEF h
  <2>4. Typed(Len(store), h)
    BY <2>1, <2>3 DEF Typed
  <2>5. RunOK(overlap, h) /\ h.spool = Closed
    BY <1>2, <2>1, <2>3 DEF RunOK, Outside, Spooling
  <2>6. Refs(K, h)
    BY <2>1, <2>3 DEF Refs
  <2>7. Whole(store, h)
    BY <2>3, <2>5 DEF Whole, Closed
  <2>8. /\ names' \in [{"cache", "part", "spool"} -> Inode(Len(store))]
        /\ names'["spool"] \in K \cup {NoFile}
        /\ names'["part"] \notin K /\ names'["cache"] \notin K
    BY <2>1, <2>2 DEF Inode
  <2>9. overlap \/ \A q \in Process : Active(q) => q = p
    BY <1>2, OfAlone
  <2>10. Step(p, h, K)
    BY <2>1, <2>2, <2>4, <2>5, <2>6, <2>7, <2>8, <2>9 DEF Step
  <2> QED
    BY <1>1, <2>10, AmongAll, StepKeeps
<1> QED
  BY <1>3, <1>4

LEMMA MapSpoolKeeps ==
  ASSUME IInv, NEW p \in Process, MapSpool(p)
  PROVE  IInv'
<1>1. PICK K \in SUBSET (1..Len(store)) : Owned(K)
  BY DEF IInv, FilesInv
<1>2. Active(p) /\ process[p].pc = "sort" /\ "failed" \in Outside
  BY DEF MapSpool, Active, Outside
<1>3. CASE ~SpoolIntact
  BY <1>2, <1>3, LeaveKeeps DEF MapSpool
<1>4. CASE SpoolIntact
  <2> DEFINE h == [process[p] EXCEPT !.pc = "copy", !.mapped = names["spool"], !.spool = Closed]
  <2>1. /\ Len(store) \in Nat /\ overlap \in BOOLEAN
        /\ process[p] \in Run(Len(store)) /\ Typed(Len(store), process[p])
        /\ RunOK(overlap, process[p])
        /\ names \in [{"cache", "part", "spool"} -> Inode(Len(store))]
        /\ runs \in 0..MaxRuns /\ kills \in 0..MaxKills
    BY <1>1, OfRun
  <2>2. /\ process' = [process EXCEPT ![p] = h]
        /\ UNCHANGED <<store, names, runs, kills, overlap, reader>>
    BY <1>4 DEF MapSpool, Bounded
  <2>3. /\ h \in Run(Len(store)) /\ h.pc = "copy" /\ h.part = process[p].part
        /\ h.spool = Closed /\ h.mapped = names["spool"]
        /\ h.entry = process[p].entry /\ h.payload = process[p].payload
    <3>1. Closed \in Stream(Len(store))
      BY EmptySeq DEF Closed, Stream, Inode
    <3> QED
      BY <2>1, <3>1 DEF Run
  <2> HIDE DEF h
  <2>4. Closed.inode = NoFile /\ Closed.cells = <<>> /\ Closed.written = 0 /\ Len(<<>>) = 0
    BY EmptySeq DEF Closed
  <2>5. Typed(Len(store), h)
    BY <2>1, <2>3, <2>4 DEF Typed
  <2>6. names["spool"] # NoFile /\ Len(store[names["spool"]]) = Count
    BY <1>4 DEF SpoolIntact
  <2>7. Copying(overlap, h)
    <3>1. process[p].part.cells = <<Header>> /\ process[p].entry = 1 /\ process[p].payload = <<>>
      BY <1>2, <2>1 DEF RunOK, Spooling
    <3>2. Len(<<Header>>) = 1
      OBVIOUS
    <3>3. Shows(overlap, 0 + 1, <<>>)
      BY <2>4 DEF Shows
    <3>4. /\ Len(h.part.cells) = 2 * 0 + 1 /\ h.entry = Base(0 + 1) + Len(h.payload) + 1
          /\ h.entry <= Count /\ Shows(overlap, 0 + 1, h.payload)
      BY <2>3, <2>4, <3>1, <3>2, <3>3, BaseFacts, CountFacts
    <3> QED
      BY <3>4 DEF Copying
  <2>8. RunOK(overlap, h)
    BY <1>2, <2>1, <2>3, <2>4, <2>6, <2>7 DEF RunOK, Outside, Spooling
  <2>9. Whole(store, h)
    BY <2>3, <2>4, <2>6 DEF Whole
  <2>10. Quiet(p, h)
    BY <2>1, <2>2, <2>3, <2>4, <2>5, <2>8, <2>9 DEF Quiet
  <2> QED
    BY <1>2, <2>10, QuietKeeps
<1> QED
  BY <1>3, <1>4

LEMMA PartLonger ==
  ASSUME NEW o \in BOOLEAN, NEW f, PartFile(o, f), NEW g, g \in Seq(Cell),
         NEW m \in Nat, Len(g) = Len(f) + m, \A j \in 1..Len(f) : g[j] = f[j],
         \A j \in (Len(f) + 1)..(Len(f) + m) : PartCell(o, j, g[j])
  PROVE  PartFile(o, g)
<1>1. Len(f) \in Nat
  BY LenProperties DEF PartFile
<1>2. ASSUME NEW j \in 1..Len(g) PROVE PartCell(o, j, g[j])
  <2>1. j \in 1..Len(f) \/ j \in (Len(f) + 1)..(Len(f) + m)
    BY <1>1
  <2> QED
    BY <2>1 DEF PartFile
<1> QED
  BY <1>2 DEF PartFile

LEMMA WriteFooterKeeps ==
  ASSUME IInv, NEW p \in Process, WriteFooter(p)
  PROVE  IInv'
<1>1. PICK K \in SUBSET (1..Len(store)) : Owned(K)
  BY DEF IInv, FilesInv
<1>2. Active(p) /\ process[p].pc = "finalize" /\ "failed" \in Outside
  BY DEF WriteFooter, Active, Outside
<1>3. CASE ~SameStats(process[p].copied)
  BY <1>2, <1>3, LeaveKeeps DEF WriteFooter
<1>4. CASE SameStats(process[p].copied)
  <2> DEFINE footer == Footer(Count, Cardinality(Announced))
             s == [process[p].part EXCEPT !.cells = Append(@, footer)]
             h == [process[p] EXCEPT !.pc = "rename", !.part = Closed]
  <2>1. /\ Len(store) \in Nat /\ NoFile \notin K /\ overlap \in BOOLEAN
        /\ process[p] \in Run(Len(store)) /\ Typed(Len(store), process[p])
        /\ RunOK(overlap, process[p]) /\ Refs(K, process[p]) /\ Files(overlap, K, store)
        /\ names \in [{"cache", "part", "spool"} -> Inode(Len(store))]
        /\ names["spool"] \in K \cup {NoFile}
        /\ names["part"] \notin K /\ names["cache"] \notin K
        /\ runs \in 0..MaxRuns /\ kills \in 0..MaxKills
    BY <1>1, OfRun
  <2>2. /\ store' = WrittenOut(store, s)
        /\ process' = [process EXCEPT ![p] = h]
        /\ UNCHANGED <<names, runs, kills, overlap, reader>>
    BY <1>4 DEF WriteFooter, Bounded, SameStats
  <2>3. process[p].part \in Stream(Len(store)) /\ process[p].part.cells \in Seq(Cell)
        /\ PartFile(overlap, process[p].part.cells) /\ Len(process[p].part.cells) \in Nat
    <3>1. process[p].part \in Stream(Len(store)) /\ process[p].part.cells \in Seq(Cell)
      BY <2>1 DEF Run, Stream
    <3> QED
      BY <2>1, <3>1, LenProperties DEF RunOK
  <2>4. footer \in Cell
    BY CellKinds, CountFacts, AnnouncedCount
  <2>5. /\ s.inode = process[p].part.inode /\ s.written = process[p].part.written
        /\ s.cells = Append(process[p].part.cells, footer)
    BY <2>3 DEF Stream
  <2> HIDE DEF s
  <2>6. PartFile(overlap, s.cells)
    <3> DEFINE f == process[p].part.cells
               g == Append(f, footer)
    <3>1. /\ g \in Seq(Cell) /\ Len(g) = Len(f) + 1 /\ g[Len(f) + 1] = footer
          /\ \A j \in 1..Len(f) : g[j] = f[j]
      <4>1. PICK c \in Seq(Cell) : c = f
        BY <2>3
      <4>2. PICK x \in Cell : x = footer
        BY <2>4
      <4>3. /\ Append(c, x) \in Seq(Cell) /\ Len(Append(c, x)) = Len(c) + 1
            /\ Append(c, x)[Len(c) + 1] = x
            /\ \A j \in 1..Len(c) : Append(c, x)[j] = c[j]
        BY AppendProperties
      <4> QED
        BY <4>1, <4>2, <4>3
    <3> HIDE DEF g
    <3>2. PartCell(overlap, Len(f) + 1, footer)
      BY <2>1, <2>3, PartCells
    <3> HIDE DEF f, footer
    <3>3. \A j \in (Len(f) + 1)..(Len(f) + 1) : PartCell(overlap, j, g[j])
      <4>1. \A j \in (Len(f) + 1)..(Len(f) + 1) : j = Len(f) + 1
        BY <2>3 DEF f
      <4> QED
        BY <3>1, <3>2, <4>1
    <3>4. PartFile(overlap, f)
      BY <2>3 DEF f
    <3>5. PartFile(overlap, g)
      BY <2>1, <3>1, <3>3, <3>4, PartLonger
    <3> QED
      BY <2>5, <3>5 DEF g, f
  <2>7. Files(overlap, K, store') /\ Len(store') = Len(store)
    <3>1. s.inode \in Inode(Len(store)) /\ s.inode \notin K /\ s.written \in Nat
      BY <2>1, <2>3, <2>5 DEF Stream, Refs
    <3>2. Files(overlap, K, WrittenOut(store, s)) /\ Grown(store, WrittenOut(store, s))
      BY <2>1, <2>6, <3>1, PartWrittenOut
    <3> QED
      BY <2>2, <3>2 DEF Grown
  <2>8. /\ h \in Run(Len(store)) /\ h.pc = "rename" /\ h.part = Closed
        /\ h.spool = process[p].spool /\ h.mapped = process[p].mapped
        /\ h.payload = process[p].payload
    <3>1. Closed \in Stream(Len(store))
      BY EmptySeq DEF Closed, Stream, Inode
    <3> QED
      BY <2>1, <3>1 DEF Run
  <2> HIDE DEF h
  <2>9. Closed.inode = NoFile /\ Closed.cells = <<>> /\ Closed.written = 0 /\ Len(<<>>) = 0
        /\ PartFile(overlap, <<>>)
    BY EmptySeq DEF Closed, PartFile
  <2>10. Typed(Len(store'), h)
    BY <2>1, <2>7, <2>8, <2>9 DEF Typed
  <2>11. RunOK(overlap, h) /\ h.spool = Closed
    BY <1>2, <2>1, <2>8, <2>9 DEF RunOK, Outside, Spooling
  <2>12. Refs(K, h)
    BY <2>1, <2>8, <2>9 DEF Refs
  <2>13. Whole(store', h)
    BY <2>8, <2>9, <2>11 DEF Whole
  <2>14. overlap \/ \A q \in Process : Active(q) => q = p
    BY <1>2, OfAlone
  <2>15. Step(p, h, K)
    BY <2>1, <2>2, <2>7, <2>10, <2>11, <2>12, <2>13, <2>14 DEF Step
  <2> QED
    BY <1>1, <2>15, AmongAll, StepKeeps
<1> QED
  BY <1>3, <1>4

\* The mapping shows the message, or zeros of a file that somebody has cut.
LEMMA MappedShown ==
  ASSUME IInv, NEW p \in Process, process[p].pc = "copy"
  PROVE  /\ process[p].entry \in 1..Count
         /\ Mapped(p, Sorted[process[p].entry]) \in 0..Count
         /\ Shown(overlap, process[p].entry, Mapped(p, Sorted[process[p].entry]))
<1>1. PICK K \in SUBSET (1..Len(store)) : Owned(K)
  BY DEF IInv, FilesInv
<1>2. /\ Len(store) \in Nat /\ NoFile \notin K /\ overlap \in BOOLEAN
      /\ process[p] \in Run(Len(store))
      /\ RunOK(overlap, process[p]) /\ Refs(K, process[p]) /\ Files(overlap, K, store)
  BY <1>1, OfRun
<1> DEFINE e == process[p].entry
           f == store[process[p].mapped]
<1>3. e \in 1..Count
  <2>1. e \in 1..(Count + 1) /\ e <= Count
    BY <1>2 DEF Run, RunOK, Copying
  <2> QED
    BY <2>1, CountFacts
<1>4. PICK i \in 1..Count : i = Sorted[e]
  BY <1>3, Sorting
<1>5. SpoolFile(overlap, f) /\ Len(f) \in Nat
  <2>1. process[p].mapped \in K
    BY <1>2 DEF RunOK, Refs
  <2>2. SpoolFile(overlap, f)
    BY <1>2, <2>1 DEF Files
  <2> QED
    BY <2>2, LenProperties DEF SpoolFile
<1>6. overlap \/ Len(f) = Count
  BY OfAlone DEF Whole, Active
<1>7. i \in 1..Len(f) => f[i] = Message(i) \/ (f[i] = Hole /\ overlap)
  BY <1>5 DEF SpoolFile, SpoolCell
<1>8. Mapped(p, i) = IF i <= Len(f) /\ f[i] # Hole THEN f[i][2] ELSE Zeros
  BY DEF Mapped
<1> HIDE DEF f
<1>9. Mapped(p, i) = i \/ (Mapped(p, i) = Zeros /\ overlap)
  <2>1. CASE i <= Len(f) /\ f[i] # Hole
    <3>1. i \in 1..Len(f)
      BY <1>5, <2>1
    <3>2. f[i] = Message(i) /\ Message(i)[2] = i
      BY <1>7, <2>1, <3>1, CellKinds
    <3> QED
      BY <1>8, <2>1, <3>2
  <2>2. CASE ~(i <= Len(f))
    <3>1. overlap
      BY <1>6, <2>2, CountFacts
    <3> QED
      BY <1>8, <2>2, <3>1
  <2>3. CASE i <= Len(f) /\ f[i] = Hole
    <3>1. i \in 1..Len(f)
      BY <1>5, <2>3
    <3>2. overlap
      BY <1>7, <2>3, <3>1, CellKinds
    <3> QED
      BY <1>8, <2>3, <3>2
  <2> QED
    BY <2>1, <2>2, <2>3
<1>10. Mapped(p, i) \in 0..Count /\ Shown(overlap, e, Mapped(p, i))
  BY <1>4, <1>9, CountFacts DEF Shown, Zeros
<1> QED
  BY <1>3, <1>4, <1>10

LEMMA Times ==
  \A m \in 0..Count : /\ TimeOf(m) \in Nat
                      /\ TimeOf(m) <= 0 => m = Zeros
                      /\ m = Zeros => TimeOf(m) = 0
<1> SUFFICES ASSUME NEW m \in 0..Count
             PROVE  /\ TimeOf(m) \in Nat
                    /\ TimeOf(m) <= 0 => m = Zeros
                    /\ m = Zeros => TimeOf(m) = 0
  OBVIOUS
<1>1. m = 0 \/ m \in 1..Count
  BY CountFacts
<1>2. CASE m = 0
  BY <1>2 DEF TimeOf, Zeros
<1>3. CASE m \in 1..Count /\ m # 0
  <2>1. Time[m] \in Nat \ {0} /\ TimeOf(m) = Time[m] /\ m # Zeros
    BY <1>3, CountFacts DEF TimeOf, Zeros
  <2>2. PICK t \in Nat \ {0} : t = TimeOf(m)
    BY <2>1
  <2> QED
    BY <2>1, <2>2
<1> QED
  BY <1>1, <1>2, <1>3

LEMMA CopyEntryKeeps ==
  ASSUME IInv, NEW p \in Process, CopyEntry(p)
  PROVE  IInv'
<1>1. PICK K \in SUBSET (1..Len(store)) : Owned(K)
  BY DEF IInv, FilesInv
<1> DEFINE h0      == process[p]
           m       == Mapped(p, Sorted[h0.entry])
           payload == Append(h0.payload, m)
           full    == Full(h0.entry, payload)
           cells   == h0.part.cells \o <<Frame(payload), Payload(payload)>>
           s == [h0.part EXCEPT !.cells = IF full THEN cells ELSE h0.part.cells]
           h == [h0 EXCEPT !.pc = IF h0.entry = Count THEN "finalize" ELSE "copy",
                           !.entry = h0.entry + 1,
                           !.payload = IF full THEN <<>> ELSE payload,
                           !.last = IF full THEN TimeOf(payload[Len(payload)]) ELSE h0.last,
                           !.copied = IF full THEN h0.copied \o payload ELSE h0.copied,
                           !.part = s]
<1>2. Active(p) /\ h0.pc = "copy" /\ "failed" \in Outside
  BY DEF CopyEntry, Active, Outside
<1>3. CASE full /\ ~InOrder(h0.last, payload)
  BY <1>2, <1>3, LeaveKeeps DEF CopyEntry
<1>4. CASE ~(full /\ ~InOrder(h0.last, payload))
  <2>1. /\ Len(store) \in Nat /\ overlap \in BOOLEAN
        /\ process \in [Process -> Run(Len(store))]
        /\ h0 \in Run(Len(store)) /\ Typed(Len(store), h0) /\ RunOK(overlap, h0)
        /\ runs \in 0..MaxRuns /\ kills \in 0..MaxKills
    BY <1>1, OfRun
  <2>2. UNCHANGED <<store, names, runs, kills, overlap, reader>>
    BY <1>4 DEF CopyEntry, Bounded
  <2>3. process' = [process EXCEPT ![p] = h]
    <3> DEFINE a == IF h0.entry = Count THEN "finalize" ELSE "copy"
               b == IF full THEN <<>> ELSE payload
               c == IF full THEN TimeOf(payload[Len(payload)]) ELSE h0.last
               d == IF full THEN h0.copied \o payload ELSE h0.copied
               e == IF full THEN cells ELSE h0.part.cells
    <3>1. process' = [process EXCEPT ![p].pc = a, ![p].entry = @ + 1, ![p].payload = b,
                                     ![p].last = c, ![p].copied = d, ![p].part.cells = e]
      BY <1>4 DEF CopyEntry
    <3>2. h = [h0 EXCEPT !.pc = a, !.entry = h0.entry + 1, !.payload = b, !.last = c,
                         !.copied = d, !.part = [h0.part EXCEPT !.cells = e]]
      OBVIOUS
    <3> HIDE DEF a, b, c, d, e, h
    <3> QED
      BY <2>1, <3>1, <3>2 DEF Run
  <2>4. h0.entry \in 1..Count /\ m \in 0..Count /\ Shown(overlap, h0.entry, m)
    BY <1>2, MappedShown
  <2>5. /\ h0.payload \in Seq(0..Count) /\ Len(h0.payload) \in Nat /\ Len(h0.payload) < BlockSize
        /\ h0.copied \in Seq(0..Count) /\ h0.last \in Nat
        /\ h0.part \in Stream(Len(store)) /\ h0.part.cells \in Seq(Cell)
        /\ h0.part.written \in Nat /\ h0.part.written <= Len(h0.part.cells)
        /\ Len(h0.part.cells) \in Nat /\ PartFile(overlap, h0.part.cells)
    <3>1. /\ h0.payload \in Seq(0..Count) /\ Len(h0.payload) < BlockSize
          /\ h0.copied \in Seq(0..Count) /\ h0.last \in Nat
          /\ h0.part \in Stream(Len(store)) /\ h0.part.cells \in Seq(Cell)
          /\ h0.part.written \in Nat /\ h0.part.written <= Len(h0.part.cells)
      BY <2>1 DEF Run, Typed, Stream
    <3> QED
      BY <2>1, <3>1, LenProperties DEF RunOK
  <2>6. PICK b \in Nat : /\ Len(h0.part.cells) = 2 * b + 1
                         /\ h0.entry = Base(b + 1) + Len(h0.payload) + 1
                         /\ h0.entry <= Count
                         /\ Shows(overlap, b + 1, h0.payload)
    BY <1>2, <2>1 DEF RunOK, Copying
  <2> HIDE DEF m
  <2>7. /\ payload \in Seq(0..Count) /\ Len(payload) = Len(h0.payload) + 1
        /\ payload[Len(payload)] = m /\ payload[Len(payload)] \in 0..Count
        /\ \A i \in 1..Len(h0.payload) : payload[i] = h0.payload[i]
    BY <2>4, <2>5, AppendProperties
  <2> HIDE DEF payload
  <2>8. Shows(overlap, b + 1, payload) /\ Base(b + 1) \in Nat
        /\ Base(b + 1) + Len(payload) = h0.entry
    <3>1. Base(b + 1) \in Nat /\ Base(b + 1) + Len(payload) = h0.entry
      <4>1. PICK x \in Nat : x = Base(b + 1)
        BY BaseFacts
      <4>2. PICK y \in Nat : y = Len(h0.payload)
        BY <2>5
      <4> QED
        BY <2>6, <2>7, <4>1, <4>2
    <3>2. ASSUME NEW i \in 1..Len(payload) PROVE Shown(overlap, Base(b + 1) + i, payload[i])
      <4>1. i \in 1..Len(h0.payload) \/ i = Len(payload)
        BY <2>5, <2>7
      <4>2. CASE i \in 1..Len(h0.payload)
        BY <2>6, <2>7, <4>2 DEF Shows
      <4>3. CASE i = Len(payload)
        BY <2>4, <2>7, <3>1, <4>3
      <4> QED
        BY <4>1, <4>2, <4>3
    <3> QED
      BY <3>1, <3>2 DEF Shows
  <2>9. full <=> (Len(payload) = BlockSize \/ h0.entry = Count)
    BY DEF Full
  <2> HIDE DEF full
  <2>10. full => Slice(overlap, b + 1, payload)
    <3>1. Len(payload) \in 1..BlockSize
      <4>1. PICK y \in Nat : y = Len(h0.payload)
        BY <2>5
      <4>2. PICK z \in Nat \ {0} : z = BlockSize
        BY CountFacts
      <4>3. y + 1 \in 1..z
        BY <2>5, <4>1, <4>2
      <4> QED
        BY <2>7, <4>1, <4>2, <4>3
    <3>2. Base(b + 1) + Len(payload) <= Count
      BY <2>6, <2>8
    <3> QED
      BY <2>7, <2>8, <2>9, <3>1, <3>2 DEF Slice
  <2>11. /\ cells \in Seq(Cell) /\ Len(cells) = 2 * b + 3
         /\ full => PartFile(overlap, cells)
    <3> DEFINE c == h0.part.cells
               x == Frame(payload)
               y == Payload(payload)
    <3>1. x \in Cell /\ y \in Cell
      BY <2>7, CellKinds
    <3>2. /\ full => PartCell(overlap, 2 * (b + 1), x)
          /\ PartCell(overlap, 2 * b + 3, y)
      <4>1. b + 1 \in Nat \ {0} /\ 2 * b + 3 \in Nat /\ 0 \in Nat
        OBVIOUS
      <4>2. full => PartCell(overlap, 2 * (b + 1), x)
        BY <2>1, <2>10, <4>1, PartCells
      <4>3. PartCell(overlap, 2 * b + 3, y)
        BY <2>1, <2>7, <4>1, PartCells
      <4> QED
        BY <4>2, <4>3
    <3> HIDE DEF x, y
    <3>3. <<x, y>> \in Seq(Cell) /\ Len(<<x, y>>) = 2 /\ <<x, y>>[1] = x /\ <<x, y>>[2] = y
      BY <3>1
    <3>4. /\ cells \in Seq(Cell) /\ Len(cells) = Len(c) + 2
          /\ \A j \in 1..(Len(c) + 2) :
               cells[j] = IF j <= Len(c) THEN c[j] ELSE <<x, y>>[j - Len(c)]
      <4>1. cells = c \o <<x, y>>
        BY DEF x, y
      <4> HIDE DEF c, cells
      <4>2. c \in Seq(Cell)
        BY <2>5 DEF c
      <4> QED
        BY <3>3, <4>1, <4>2, ConcatProperties
    <3> HIDE DEF cells
    <3>5. \A j \in 1..Len(c) : cells[j] = c[j]
      <4> SUFFICES ASSUME NEW j \in 1..Len(c) PROVE cells[j] = c[j]
        OBVIOUS
      <4>1. PICK n \in Nat : n = Len(c)
        BY <2>5
      <4>2. j \in 1..n
        BY <4>1
      <4>3. j \in 1..(n + 2) /\ j <= n
        BY <4>2
      <4> QED
        BY <3>4, <4>1, <4>3
    <3>6. cells[2 * b + 2] = x /\ cells[2 * b + 3] = y /\ Len(c) = 2 * b + 1
      <4>1. Len(c) = 2 * b + 1
        BY <2>6
      <4>2. 2 * b + 2 \in 1..(Len(c) + 2) /\ 2 * b + 3 \in 1..(Len(c) + 2)
            /\ ~(2 * b + 2 <= Len(c)) /\ ~(2 * b + 3 <= Len(c))
            /\ (2 * b + 2) - Len(c) = 1 /\ (2 * b + 3) - Len(c) = 2
        BY <4>1
      <4> QED
        BY <3>3, <3>4, <4>1, <4>2
    <3>7. ASSUME full, NEW j \in (Len(c) + 1)..(Len(c) + 2) PROVE PartCell(overlap, j, cells[j])
      <4>1. j = 2 * b + 2 \/ j = 2 * b + 3
        BY <3>6
      <4>2. 2 * (b + 1) = 2 * b + 2
        OBVIOUS
      <4> QED
        BY <3>2, <3>6, <3>7, <4>1, <4>2
    <3>8. full => PartFile(overlap, cells)
      <4> SUFFICES ASSUME full PROVE PartFile(overlap, cells)
        OBVIOUS
      <4>1. PartFile(overlap, c) /\ 2 \in Nat
        BY <2>5
      <4> HIDE DEF c
      <4> QED
        BY <2>1, <3>4, <3>5, <3>7, <4>1, PartLonger
    <3> QED
      BY <3>4, <3>6, <3>8
  <2> HIDE DEF cells
  <2>12. /\ s \in Stream(Len(store)) /\ s.inode = h0.part.inode /\ s.written = h0.part.written
         /\ s.cells = IF full THEN cells ELSE h0.part.cells
    BY <2>5, <2>11 DEF Stream
  <2> HIDE DEF s
  <2>13. /\ h.pc = IF h0.entry = Count THEN "finalize" ELSE "copy"
         /\ h.entry = h0.entry + 1
         /\ h.payload = IF full THEN <<>> ELSE payload
         /\ h.part = s /\ h.spool = h0.spool /\ h.mapped = h0.mapped
         /\ h \in Run(Len(store))
    <3>1. TimeOf(payload[Len(payload)]) \in Nat
      BY <2>7, Times
    <3>2. h0.copied \o payload \in Seq(0..Count) /\ <<>> \in Seq(0..Count)
      BY <2>5, <2>7, ConcatProperties, EmptySeq
    <3>3. h0.entry + 1 \in 1..(Count + 1)
      BY <2>4, CountFacts
    <3> QED
      BY <2>1, <2>5, <2>7, <2>12, <3>1, <3>2, <3>3 DEF Run
  <2> HIDE DEF h
  <2>14. Typed(Len(store), h)
    <3>1. Len(h.payload) < BlockSize
      <4>1. PICK y \in Nat : y = Len(h0.payload)
        BY <2>5
      <4>2. PICK z \in Nat \ {0} : z = BlockSize
        BY CountFacts
      <4>3. y < z /\ Len(payload) = y + 1
        BY <2>5, <2>7, <4>1, <4>2
      <4>4. CASE full
        BY <2>13, <4>2, <4>4, EmptySeq
      <4>5. CASE ~full
        <5>1. y + 1 # z /\ h.payload = payload
          BY <2>9, <2>13, <4>2, <4>3, <4>5
        <5> QED
          BY <4>2, <4>3, <5>1
      <4> QED
        BY <4>4, <4>5
    <3>2. h.part.written <= Len(h.part.cells)
      BY <2>5, <2>6, <2>11, <2>12, <2>13
    <3> QED
      BY <2>1, <2>13, <3>1, <3>2 DEF Typed
  <2>15. h.pc = "copy" => Copying(overlap, h)
    <3> SUFFICES ASSUME h0.entry # Count PROVE Copying(overlap, h)
      BY <2>13
    <3>1. CASE full
      <4>1. /\ b + 1 \in Nat /\ Base((b + 1) + 1) = Base(b + 1) + BlockSize
            /\ (b + 1) + 1 = b + 2 /\ 2 * (b + 1) + 1 = 2 * b + 3
        BY BaseFacts
      <4>2. h.payload = <<>> /\ Len(<<>>) = 0 /\ Shows(overlap, (b + 1) + 1, <<>>)
        BY <2>13, <3>1, EmptySeq DEF Shows
      <4>3. h.entry = Base((b + 1) + 1) + Len(h.payload) + 1
        BY <2>8, <2>9, <2>13, <3>1, <4>1, <4>2, CountFacts
      <4>4. Len(h.part.cells) = 2 * (b + 1) + 1
        BY <2>11, <2>12, <2>13, <3>1, <4>1
      <4>5. h.entry <= Count
        BY <2>4, <2>13, CountFacts
      <4> QED
        BY <4>1, <4>2, <4>3, <4>4, <4>5 DEF Copying
    <3>2. CASE ~full
      <4>1. h.payload = payload /\ h.part.cells = h0.part.cells
        BY <2>12, <2>13, <3>2
      <4>2. h.entry <= Count
        BY <2>4, <2>13, CountFacts
      <4>3. h.entry = Base(b + 1) + Len(h.payload) + 1
        BY <2>7, <2>8, <2>13, <4>1
      <4> QED
        BY <2>6, <2>8, <4>1, <4>2, <4>3 DEF Copying
    <3> QED
      BY <3>1, <3>2
  <2>16. RunOK(overlap, h)
    <3>1. PartFile(overlap, h.part.cells)
      BY <2>5, <2>11, <2>12, <2>13
    <3> QED
      BY <1>2, <2>1, <2>13, <2>15, <3>1 DEF RunOK, Outside, Spooling
  <2>17. overlap \/ Whole(store, h)
    <3>1. overlap \/ Whole(store, h0)
      BY <1>2, OfAlone
    <3> QED
      BY <1>2, <2>13, <3>1 DEF Whole
  <2>18. Quiet(p, h)
    BY <2>1, <2>2, <2>3, <2>12, <2>13, <2>14, <2>16, <2>17 DEF Quiet
  <2> QED
    BY <1>2, <2>18, QuietKeeps
<1> QED
  BY <1>3, <1>4

-----------------------------------------------------------------------------
(* The reader.                                                             *)

Reader(n) == [pc : {"idle", "blocks", "done", "failed"}, inode : Inode(n), cell : Nat,
              last : Nat, seen : Seq(0..Count)]

\* What the invariant says of the reader.
LEMMA OfReader ==
  ASSUME IInv
  PROVE  /\ Len(store) \in Nat /\ overlap \in BOOLEAN
         /\ store \in Seq(Seq(Cell))
         /\ reader \in Reader(Len(store))
         /\ ReaderOK(overlap, reader)
         /\ names["cache"] \in Inode(Len(store))
         /\ \A i \in 1..Len(store) : i \in {reader.inode, names["cache"]} =>
              PartFile(overlap, store[i]) /\ Len(store[i]) \in Nat
<1>1. PICK K \in SUBSET (1..Len(store)) : Owned(K)
  BY DEF IInv, FilesInv
<1>2. /\ Len(store) \in Nat /\ overlap \in BOOLEAN
      /\ store \in Seq(Seq(Cell))
      /\ reader \in Reader(Len(store))
      /\ ReaderOK(overlap, reader)
      /\ names["cache"] \in Inode(Len(store))
  BY LenProperties DEF IInv, TypeOK, Reader
<1>3. ASSUME NEW i \in 1..Len(store), i \in {reader.inode, names["cache"]}
      PROVE  PartFile(overlap, store[i]) /\ Len(store[i]) \in Nat
  <2>1. PartFile(overlap, store[i])
    BY <1>1, <1>3 DEF Owned, Files
  <2> QED
    BY <2>1, LenProperties DEF PartFile
<1> QED
  BY <1>2, <1>3

\* A step of the reader keeps the invariant.
LEMMA ReadingKeeps ==
  ASSUME IInv, NEW r, Reading(r), r \in Reader(Len(store)),
         r.inode \in {reader.inode, names["cache"]}, ReaderOK(overlap, r)
  PROVE  IInv'
<1>1. reader' = r /\ UNCHANGED <<store, names, process, runs, kills, overlap>>
  BY DEF Reading
<1>2. TypeOK'
  BY <1>1 DEF IInv, TypeOK, Reader
<1>3. FilesInv'
  <2>1. PICK K \in SUBSET (1..Len(store)) : Owned(K)
    BY DEF IInv, FilesInv
  <2>2. Owned(K)'
    BY <1>1, <2>1 DEF Owned
  <2> QED
    BY <1>1, <2>1, <2>2 DEF FilesInv
<1>4. RunsInv' /\ AloneInv'
  <2>1. RunsInv /\ AloneInv
    BY DEF IInv
  <2> QED
    BY <1>1, <2>1 DEF RunsInv, AloneInv, Active
<1>5. ReaderOK(overlap', reader')
  BY <1>1
<1> QED
  BY <1>2, <1>3, <1>4, <1>5 DEF IInv

LEMMA SeenNothing ==
  ASSUME NEW o \in BOOLEAN
  PROVE  <<>> \in Seq(0..Count) /\ Len(<<>>) = 0 /\ SeenOK(o, <<>>)
<1>1. <<>> \in Seq(0..Count) /\ Len(<<>>) = 0
  BY EmptySeq
<1> QED
  BY <1>1, CountFacts DEF SeenOK

LEMMA OpenCacheKeeps ==
  ASSUME IInv, OpenCache
  PROVE  IInv'
<1>1. PICK a \in {"blocks", "failed"} :
        /\ Reading([NoReader EXCEPT !.pc = a, !.inode = names["cache"]])
        /\ names["cache"] # NoFile
  BY DEF OpenCache
<1> DEFINE r == [NoReader EXCEPT !.pc = a, !.inode = names["cache"]]
<1>2. /\ r.pc = a /\ r.inode = names["cache"] /\ r.cell = 2 /\ r.last = 0 /\ r.seen = <<>>
      /\ r \in Reader(Len(store))
  BY OfReader, SeenNothing DEF NoReader, Reader
<1>3. Reading(r)
  BY <1>1
<1> HIDE DEF r
<1>4. AtBlock(r)
  <2>1. 2 = 2 * 0 + 2 /\ Base(0 + 1) = 0 /\ 0 \in Nat
    BY BaseFacts
  <2> QED
    BY <1>2, <2>1, SeenNothing DEF AtBlock
<1>5. ReaderOK(overlap, r)
  BY <1>1, <1>2, <1>4, OfReader, SeenNothing DEF ReaderOK
<1> QED
  BY <1>2, <1>3, <1>5, ReadingKeeps

\* A block that is in order keeps what was seen in order: zeros are in front of messages,
\* because a message has a time.
LEMMA SeenMore ==
  ASSUME NEW o \in BOOLEAN, NEW s, SeenOK(o, s), NEW k \in Nat, NEW p, Slice(o, k, p),
         Len(s) = Base(k), NEW last, last = IF s = <<>> THEN 0 ELSE TimeOf(s[Len(s)]),
         InOrder(last, p)
  PROVE  /\ SeenOK(o, s \o p)
         /\ Len(s \o p) = Len(s) + Len(p) /\ s \o p # <<>>
         /\ p[Len(p)] \in 0..Count /\ p[Len(p)] = (s \o p)[Len(s \o p)]
<1>1. /\ s \in Seq(0..Count) /\ p \in Seq(0..Count) /\ Count \in Nat
  BY CountFacts DEF SeenOK, Slice
<1>2. PICK n \in Nat : n = Len(s)
  BY <1>1, LenProperties
<1>3. PICK l \in Nat : l = Len(p) /\ l >= 1
  <2>1. Len(p) \in Nat /\ Len(p) \in 1..BlockSize
    BY <1>1, LenProperties DEF Slice
  <2> QED
    BY <2>1, CountFacts
<1>4. /\ \A i \in 1..n : s[i] \in 0..Count
      /\ \A i \in 1..l : p[i] \in 0..Count
  BY <1>1, <1>2, <1>3, ElementOfSeq
<1> DEFINE q == s \o p
<1>5. /\ q \in Seq(0..Count) /\ Len(q) = n + l
      /\ \A i \in 1..(n + l) : q[i] = IF i <= n THEN s[i] ELSE p[i - n]
  <2>1. PICK A : A = 0..Count
    OBVIOUS
  <2>2. s \in Seq(A) /\ p \in Seq(A)
    BY <1>1, <2>1
  <2>3. /\ q \in Seq(A) /\ Len(q) = Len(s) + Len(p)
        /\ \A i \in 1..(Len(s) + Len(p)) : q[i] = IF i <= Len(s) THEN s[i] ELSE p[i - Len(s)]
    BY <2>2, ConcatProperties
  <2> HIDE DEF q
  <2> QED
    BY <1>2, <1>3, <2>1, <2>3
<1> HIDE DEF q
<1>6. n + l <= Count
  BY <1>1, <1>2, <1>3 DEF Slice
<1>7. ASSUME NEW i \in 1..(n + l) PROVE Shown(o, i, q[i])
  <2>1. CASE i <= n
    <3>1. i \in 1..n /\ q[i] = s[i]
      BY <1>5, <2>1
    <3> QED
      BY <1>2, <3>1 DEF SeenOK
  <2>2. CASE ~(i <= n)
    <3>1. i - n \in 1..l /\ q[i] = p[i - n] /\ n + (i - n) = i
      BY <1>5, <2>2
    <3>2. Shown(o, Base(k) + (i - n), p[i - n])
      BY <1>3, <3>1 DEF Slice, Shows
    <3> QED
      BY <1>2, <3>1, <3>2
  <2> QED
    BY <2>1, <2>2
<1>8. ASSUME NEW i \in 1..(n + l - 1), q[i + 1] = Zeros PROVE q[i] = Zeros
  <2>1. i \in 1..(n + l) /\ i + 1 \in 1..(n + l)
    OBVIOUS
  <2>2. CASE i + 1 <= n
    <3>1. i \in 1..(n - 1) /\ q[i] = s[i] /\ q[i + 1] = s[i + 1]
      BY <1>5, <2>1, <2>2
    <3> QED
      BY <1>2, <1>8, <3>1 DEF SeenOK
  <2>3. CASE i = n
    <3>1. q[i] = s[n] /\ n \in 1..n /\ s # <<>>
      <4>1. n # 0
        BY <2>3
      <4> QED
        BY <1>2, <1>5, <2>1, <2>3, <4>1, EmptySeq
    <3>2. q[i + 1] = p[1] /\ 1 \in DOMAIN p
      <4>1. (n + 1) - n = 1 /\ 1 \in 1..l /\ DOMAIN p = 1..l
        BY <1>1, <1>3, LenProperties
      <4> QED
        BY <1>5, <2>1, <2>3, <4>1
    <3>3. TimeOf(p[1]) >= TimeOf(s[n])
      BY <1>2, <3>1, <3>2 DEF InOrder
    <3>4. PICK x \in 0..Count : x = s[n]
      BY <1>4, <3>1
    <3>5. TimeOf(p[1]) = 0
      BY <1>3, <1>4, <1>8, <3>2, Times
    <3>6. TimeOf(x) <= 0
      BY <3>3, <3>4, <3>5, Times
    <3> QED
      BY <3>1, <3>4, <3>6, Times
  <2>4. CASE i > n
    <3>1. PICK j \in 1..(l - 1) : j = i - n /\ j \in 1..l /\ j + 1 \in 1..l /\ j + 1 = i + 1 - n
      BY <2>1, <2>4
    <3>2. q[i] = p[j] /\ q[i + 1] = p[j + 1]
      BY <1>5, <2>1, <2>4, <3>1
    <3>3. TimeOf(p[j + 1]) >= TimeOf(p[j])
      <4>1. j + 1 \in DOMAIN p /\ j + 1 # 1 /\ (j + 1) - 1 = j
        BY <1>1, <1>3, <3>1, LenProperties
      <4> QED
        BY <4>1 DEF InOrder
    <3>4. PICK x \in 0..Count : x = p[j]
      BY <1>4, <3>1
    <3>5. TimeOf(p[j + 1]) = 0
      BY <1>4, <1>8, <3>1, <3>2, Times
    <3>6. TimeOf(x) <= 0
      BY <3>3, <3>4, <3>5, Times
    <3> QED
      BY <3>2, <3>4, <3>6, Times
  <2> QED
    BY <2>2, <2>3, <2>4
<1>9. SeenOK(o, q)
  BY <1>1, <1>5, <1>6, <1>7, <1>8 DEF SeenOK
<1>10. q # <<>> /\ p[l] \in 0..Count /\ p[l] = q[n + l]
  <2>1. l \in 1..l /\ n + l \in 1..(n + l) /\ (n + l) - n = l /\ ~(n + l <= n)
    BY <1>3
  <2> QED
    BY <1>4, <1>5, <2>1, EmptySeq
<1> QED
  BY <1>2, <1>3, <1>5, <1>9, <1>10 DEF q

\* The file that is read, when blocks are read of it.
LEMMA ReadFile ==
  ASSUME IInv, reader.pc = "blocks"
  PROVE  /\ PartFile(overlap, store[reader.inode]) /\ Len(store[reader.inode]) \in Nat
         /\ reader.cell \in Nat /\ reader.cell >= 2
<1>1. reader.inode # NoFile /\ AtBlock(reader)
  BY OfReader DEF ReaderOK
<1>2. reader.inode \in 1..Len(store)
  BY <1>1, OfReader DEF Reader, Inode
<1>3. reader.cell >= 2 /\ reader.cell \in Nat
  <2>1. PICK b \in Nat : reader.cell = 2 * b + 2
    BY <1>1 DEF AtBlock
  <2> QED
    BY <2>1
<1> QED
  BY <1>2, <1>3, OfReader

LEMMA FailedKeeps ==
  ASSUME IInv, NEW r, r = [reader EXCEPT !.pc = "failed"], Reading(r)
  PROVE  IInv'
<1>1. r \in Reader(Len(store)) /\ r.inode = reader.inode /\ r.pc = "failed" /\ r.seen = reader.seen
  BY OfReader DEF Reader
<1>2. ReaderOK(overlap, r)
  BY <1>1, OfReader DEF ReaderOK
<1> QED
  BY <1>1, <1>2, ReadingKeeps

LEMMA ReadBlockKeeps ==
  ASSUME IInv, ReadBlock
  PROVE  IInv'
<1> DEFINE f == store[reader.inode]
           k == reader.cell
           p == f[k][2]
           r == [reader EXCEPT !.cell = k + 2, !.seen = reader.seen \o p,
                               !.last = TimeOf(p[Len(p)])]
<1>1. reader.pc = "blocks" /\ k <= Len(f) /\ f[k][1] = "frame"
  BY DEF ReadBlock
<1>2. \/ Reading(r) /\ InOrder(reader.last, p)
      \/ Reading([reader EXCEPT !.pc = "failed"])
  BY DEF ReadBlock
<1>3. CASE Reading([reader EXCEPT !.pc = "failed"])
  BY <1>3, FailedKeeps
<1>4. CASE Reading(r) /\ InOrder(reader.last, p)
  <2>1. /\ PartFile(overlap, f) /\ Len(f) \in Nat /\ k \in Nat /\ k >= 2
    BY <1>1, ReadFile
  <2>2. /\ overlap \in BOOLEAN /\ reader \in Reader(Len(store))
        /\ SeenOK(overlap, reader.seen) /\ AtBlock(reader) /\ reader.inode # NoFile
        /\ reader.last = IF reader.seen = <<>> THEN 0 ELSE TimeOf(reader.seen[Len(reader.seen)])
    BY <1>1, OfReader DEF ReaderOK
  <2>3. PICK j \in Nat \ {0} : k = 2 * j /\ Slice(overlap, j, p)
    <3>1. k \in 1..Len(f)
      BY <1>1, <2>1
    <3>2. PartCell(overlap, k, f[k])
      BY <2>1, <3>1 DEF PartFile
    <3> QED
      BY <1>1, <3>2 DEF PartCell
  <2>4. PICK b \in Nat : /\ k = 2 * b + 2
                         /\ \/ Len(reader.seen) = Base(b + 1)
                            \/ Len(reader.seen) = Count /\ Base(b + 1) >= Count
    BY <2>2 DEF AtBlock
  <2> HIDE DEF p, f, k
  <2>5. j = b + 1
    BY <2>3, <2>4
  <2>6. PICK l \in Nat : l = Len(p) /\ l >= 1 /\ Base(b + 1) + l <= Count
                         /\ (l = BlockSize \/ Base(b + 1) + l = Count) /\ l <= BlockSize
    <3>1. Len(p) \in Nat /\ Len(p) \in 1..BlockSize
      BY <2>3, LenProperties DEF Slice
    <3>2. PICK z \in Nat : z = BlockSize
      BY CountFacts
    <3>3. Len(p) >= 1 /\ Len(p) <= z
      BY <3>1, <3>2
    <3> QED
      BY <2>3, <2>5, <3>1, <3>2, <3>3 DEF Slice
  <2>7. PICK n \in Nat : n = Len(reader.seen) /\ n = Base(b + 1)
    <3>1. PICK c \in Nat : c = Base(b + 1)
      BY BaseFacts
    <3>2. ~(c >= Count)
      BY <2>6, <3>1, CountFacts
    <3> QED
      BY <2>4, <3>1, <3>2
  <2>8. /\ SeenOK(overlap, reader.seen \o p)
        /\ Len(reader.seen \o p) = n + l /\ reader.seen \o p # <<>>
        /\ p[Len(p)] \in 0..Count
        /\ p[Len(p)] = (reader.seen \o p)[Len(reader.seen \o p)]
    <3>1. Slice(overlap, j, p) /\ Len(reader.seen) = Base(j) /\ InOrder(reader.last, p)
      BY <1>4, <2>3, <2>5, <2>7
    <3>2. PICK s : s = reader.seen
      OBVIOUS
    <3>3. PICK last : last = reader.last
      OBVIOUS
    <3>4. /\ overlap \in BOOLEAN /\ SeenOK(overlap, s) /\ InOrder(last, p)
          /\ Len(s) = Base(j) /\ last = IF s = <<>> THEN 0 ELSE TimeOf(s[Len(s)])
      BY <2>2, <3>1, <3>2, <3>3
    <3>5. /\ SeenOK(overlap, s \o p)
          /\ Len(s \o p) = Len(s) + Len(p) /\ s \o p # <<>>
          /\ p[Len(p)] \in 0..Count /\ p[Len(p)] = (s \o p)[Len(s \o p)]
      BY <3>1, <3>4, SeenMore
    <3> QED
      BY <2>6, <2>7, <3>2, <3>5
  <2> DEFINE q == reader.seen \o p
  <2>9. /\ r \in Reader(Len(store)) /\ r.inode = reader.inode /\ r.pc = "blocks"
        /\ r.cell = k + 2 /\ r.seen = q /\ r.last = TimeOf(p[Len(p)])
    <3>1. TimeOf(p[Len(p)]) \in Nat
      BY <2>8, Times
    <3>2. q \in Seq(0..Count)
      BY <2>8 DEF SeenOK
    <3> HIDE DEF q
    <3>3. r = [reader EXCEPT !.cell = k + 2, !.seen = q, !.last = TimeOf(p[Len(p)])]
      BY DEF q
    <3> HIDE DEF r
    <3>4. reader.cell = k /\ k + 2 \in Nat
      BY <2>1 DEF k
    <3>5. PICK t \in Nat : t = TimeOf(p[Len(p)])
      BY <3>1
    <3>6. PICK c \in Nat : c = k + 2
      BY <3>4
    <3>7. r = [reader EXCEPT !.cell = c, !.seen = q, !.last = t]
      BY <3>3, <3>5, <3>6
    <3> QED
      BY <1>1, <2>2, <3>2, <3>5, <3>6, <3>7 DEF Reader
  <2>10. Reading(r)
    BY <1>4
  <2> HIDE DEF r
  <2>11. AtBlock(r)
    <3>1. b + 1 \in Nat /\ (b + 1) + 1 = b + 2 /\ k + 2 = 2 * (b + 1) + 2
      BY <2>4
    <3>2. Base(b + 2) = n + BlockSize
      BY <2>7, BaseFacts
    <3>3. \/ Len(q) = Base((b + 1) + 1)
          \/ Len(q) = Count /\ Base((b + 1) + 1) >= Count
      <4>1. PICK z \in Nat : z = BlockSize
        BY CountFacts
      <4>2. \/ n + l = n + z
            \/ n + l = Count /\ n + z >= n + l
        BY <2>6, <2>7, <4>1
      <4> QED
        BY <2>8, <3>1, <3>2, <4>1, <4>2
    <3> QED
      BY <2>9, <3>1, <3>3 DEF AtBlock
  <2>12. ReaderOK(overlap, r)
    BY <2>2, <2>8, <2>9, <2>11 DEF ReaderOK
  <2> QED
    BY <2>9, <2>10, <2>12, ReadingKeeps
<1> QED
  BY <1>2, <1>3, <1>4

\* What was seen can be counted.
LEMMA AnnouncementsCount ==
  ASSUME NEW s \in Seq(0..Count)
  PROVE  /\ IsFiniteSet({i \in DOMAIN s : IsAnnouncement(s[i])})
         /\ Announcements(s) \in Nat
<1>1. DOMAIN s = 1..Len(s) /\ Len(s) \in Nat
  BY LenProperties
<1>2. IsFiniteSet(1..Len(s)) /\ {i \in DOMAIN s : IsAnnouncement(s[i])} \subseteq 1..Len(s)
  BY <1>1, UpTo
<1>3. IsFiniteSet({i \in DOMAIN s : IsAnnouncement(s[i])})
  BY <1>2, FS_Subset
<1> QED
  BY <1>3, FS_CardinalityType DEF Announcements

LEMMA ReadFooterKeeps ==
  ASSUME IInv, ReadFooter
  PROVE  IInv'
<1> DEFINE f == store[reader.inode]
           k == reader.cell
           r == [reader EXCEPT !.pc = "done"]
<1>1. /\ reader.pc = "blocks"
      /\ \/ /\ Reading(r)
            /\ k = Len(f) /\ f[k] = Footer(Len(reader.seen), Announcements(reader.seen))
         \/ Reading([reader EXCEPT !.pc = "failed"])
  BY DEF ReadFooter
<1>2. CASE Reading([reader EXCEPT !.pc = "failed"])
  BY <1>2, FailedKeeps
<1>3. CASE /\ Reading(r)
           /\ k = Len(f) /\ f[k] = Footer(Len(reader.seen), Announcements(reader.seen))
  <2>1. /\ PartFile(overlap, f) /\ k \in Nat /\ k >= 2
    BY <1>1, ReadFile
  <2>2. /\ reader \in Reader(Len(store)) /\ SeenOK(overlap, reader.seen)
        /\ Len(reader.seen) \in Nat /\ Announcements(reader.seen) \in Nat
    <3>1. reader \in Reader(Len(store)) /\ SeenOK(overlap, reader.seen)
      BY OfReader DEF ReaderOK
    <3>2. reader.seen \in Seq(0..Count)
      BY <3>1 DEF SeenOK
    <3> QED
      BY <3>1, <3>2, AnnouncementsCount, LenProperties
  <2>3. f[k] = Footer(Count, Cardinality(Announced))
    <3>0. k \in 1..Len(f)
      BY <1>3, <2>1
    <3>1. PartCell(overlap, k, f[k])
      BY <2>1, <3>0 DEF PartFile
    <3>2. f[k][1] = "footer"
      BY <1>3, <2>2, CellKinds
    <3> QED
      BY <3>1, <3>2 DEF PartCell
  <2>4. Len(reader.seen) = Count /\ Announcements(reader.seen) = Cardinality(Announced)
    <3>1. PICK x \in Nat : x = Len(reader.seen)
      BY <2>2
    <3>2. PICK y \in Nat : y = Announcements(reader.seen)
      BY <2>2
    <3>3. Footer(x, y) = Footer(Count, Cardinality(Announced))
      BY <1>3, <2>3, <3>1, <3>2
    <3> QED
      BY <3>1, <3>2, <3>3, CellKinds, CountFacts, AnnouncedCount
  <2>5. r \in Reader(Len(store)) /\ r.inode = reader.inode /\ r.pc = "done" /\ r.seen = reader.seen
    BY <2>2 DEF Reader
  <2>6. Reading(r)
    BY <1>3
  <2> HIDE DEF r
  <2>7. ReaderOK(overlap, r)
    BY <2>2, <2>4, <2>5 DEF ReaderOK
  <2> QED
    BY <2>5, <2>6, <2>7, ReadingKeeps
<1> QED
  BY <1>1, <1>2, <1>3

-----------------------------------------------------------------------------
(* The invariant.                                                          *)

LEMMA InitHolds ==
  Init => IInv
<1> SUFFICES ASSUME Init PROVE IInv
  OBVIOUS
<1> DEFINE h == Fresh("idle")
<1>1. /\ store = <<>> /\ Len(store) = 0 /\ store \in Seq(Seq(Cell))
      /\ \A n \in {"cache", "part", "spool"} : names[n] = NoFile
      /\ names \in [{"cache", "part", "spool"} -> Inode(Len(store))]
      /\ runs \in 0..MaxRuns /\ kills \in 0..MaxKills /\ overlap = FALSE
      /\ reader = NoReader
  BY EmptySeq, ConstantsOK DEF Init, Inode
<1>2. process = [p \in Process |-> h]
  BY DEF Init, Fresh
<1>3. /\ Typed(Len(store), h) /\ RunOK(overlap, h) /\ Refs({}, h)
      /\ Whole(store, h) /\ h.pc = "idle"
  <2>1. PICK there \in Outside \cup {"part"} : there = "idle"
    BY DEF Outside
  <2>2. PICK K : K = {}
    OBVIOUS
  <2>3. PICK n \in Nat : n = Len(store)
    BY <1>1
  <2>4. PICK o \in BOOLEAN : o = overlap
    BY <1>1
  <2>5. /\ Typed(n, Fresh(there)) /\ RunOK(o, Fresh(there))
        /\ Refs(K, Fresh(there)) /\ Whole(store, Fresh(there))
    <3>1. NoFile \notin K
      BY <2>2
    <3> QED
      BY <3>1, FreshOK
  <2>6. h.pc = "idle"
    BY DEF Fresh, NewRun
  <2> HIDE DEF h
  <2>7. h = Fresh(there)
    BY <2>1 DEF h
  <2> QED
    BY <2>2, <2>3, <2>4, <2>5, <2>6, <2>7
<1> HIDE DEF h
<1>4. /\ NoReader.pc = "idle" /\ NoReader.inode = NoFile /\ NoReader.seen = <<>>
      /\ NoReader \in Reader(Len(store))
  BY SeenNothing DEF NoReader, Reader, Inode
<1>5. TypeOK
  <2>1. process \in [Process -> Run(Len(store))]
    BY <1>2, <1>3 DEF Typed
  <2>2. \A p \in Process : Typed(Len(store), process[p])
    BY <1>2, <1>3
  <2> QED
    BY <1>1, <1>4, <2>1, <2>2 DEF TypeOK, Typed, Reader
<1>6. FilesInv
  <2>1. {} \in SUBSET (1..Len(store))
    OBVIOUS
  <2>2. Files(overlap, {}, store)
    BY <1>1 DEF Files
  <2>3. Owned({})
    BY <1>1, <1>2, <1>3, <2>2 DEF Owned
  <2> QED
    BY <2>1, <2>3 DEF FilesInv
<1>7. RunsInv /\ AloneInv
  BY <1>2, <1>3 DEF RunsInv, AloneInv, Active
<1>8. ReaderOK(overlap, reader)
  BY <1>1, <1>4, SeenNothing DEF ReaderOK
<1> QED
  BY <1>5, <1>6, <1>7, <1>8 DEF IInv

LEMMA NextKeeps ==
  IInv /\ [Next]_vars => IInv'
<1> SUFFICES ASSUME IInv, [Next]_vars PROVE IInv'
  OBVIOUS
<1>1. ASSUME NEW p \in Process, Start(p) PROVE IInv'
  BY <1>1, StartKeeps
<1>2. ASSUME NEW p \in Process, Reuse(p) PROVE IInv'
  BY <1>2, ReuseKeeps
<1>3. ASSUME NEW p \in Process, OpenPart(p) PROVE IInv'
  BY <1>3, OpenPartKeeps
<1>4. ASSUME NEW p \in Process, OpenSpool(p) PROVE IInv'
  BY <1>4, OpenSpoolKeeps
<1>5. ASSUME NEW p \in Process, Parse(p) PROVE IInv'
  BY <1>5, ParseKeeps
<1>6. ASSUME NEW p \in Process, WriteOut(p) PROVE IInv'
  BY <1>6, WriteOutKeeps
<1>7. ASSUME NEW p \in Process, MapSpool(p) PROVE IInv'
  BY <1>7, MapSpoolKeeps
<1>8. ASSUME NEW p \in Process, CopyEntry(p) PROVE IInv'
  BY <1>8, CopyEntryKeeps
<1>9. ASSUME NEW p \in Process, FaultOnPage(p) PROVE IInv'
  BY <1>9, FaultOnPageKeeps
<1>10. ASSUME NEW p \in Process, WriteFooter(p) PROVE IInv'
  BY <1>10, WriteFooterKeeps
<1>11. ASSUME NEW p \in Process, Rename(p) PROVE IInv'
  BY <1>11, RenameKeeps
<1>12. ASSUME NEW p \in Process, InspectBuilt(p) PROVE IInv'
  BY <1>12, InspectBuiltKeeps
<1>13. ASSUME NEW p \in Process, Kill(p) PROVE IInv'
  BY <1>13, KillKeeps
<1>14. CASE OpenCache \/ ReadBlock \/ ReadFooter
  BY <1>14, OpenCacheKeeps, ReadBlockKeeps, ReadFooterKeeps
<1>15. CASE UNCHANGED vars
  BY <1>15 DEF vars, IInv, TypeOK, FilesInv, Owned, RunsInv, AloneInv, Active
<1> QED
  BY <1>1, <1>2, <1>3, <1>4, <1>5, <1>6, <1>7, <1>8, <1>9, <1>10, <1>11, <1>12, <1>13,
     <1>14, <1>15 DEF Next

LEMMA Invariance ==
  Spec => []IInv
BY InitHolds, NextKeeps, PTL DEF Spec

\* The values of the files, the names, the streams and the runs stay of their types,
\* whatever processes do beside each other: no name, stream or mapping leads to a file that
\* does not exist, no stream has written more than it was given, and no payload is as long as
\* a block (generate_parsed_cache flushes it).
THEOREM TypesAreKept ==
  Spec => []TypeOK
<1>1. IInv => TypeOK
  BY DEF IInv
<1> QED
  BY <1>1, Invariance, PTL

-----------------------------------------------------------------------------
(* A read that ends well.                                                  *)

\* The zeros are in front.
LEMMA ZerosInFront ==
  ASSUME NEW o \in BOOLEAN, NEW s, SeenOK(o, s), Len(s) = Count
  PROVE  \E lost \in 0..Count : \A i \in 1..Count : s[i] = Zeros <=> i <= lost
<1>1. PICK c \in Nat : c = Count
  BY CountFacts
<1> DEFINE M == {n \in Nat : n = c \/ (n < c /\ s[n + 1] # Zeros)}
<1>2. PICK m \in M : \A n \in M : m <= n
  <2>1. M \subseteq Nat /\ c \in M
    OBVIOUS
  <2> HIDE DEF M
  <2>2. M # {}
    BY <2>1
  <2> QED
    BY <2>1, <2>2, LeastNatural
<1>3. m \in 0..c /\ m \in Nat
  OBVIOUS
<1>4. ASSUME NEW i \in 1..c, i <= m PROVE s[i] = Zeros
  <2>1. i - 1 \in Nat /\ ~(m <= i - 1) /\ (i - 1) + 1 = i /\ i - 1 < c
    BY <1>3, <1>4
  <2>2. i - 1 \notin M
    BY <1>2, <2>1
  <2> QED
    BY <2>1, <2>2
<1> DEFINE S == {n \in Nat : m + 1 + n <= c => s[m + 1 + n] # Zeros}
<1>5. 0 \in S
  <2>1. m = c \/ (m < c /\ s[m + 1] # Zeros)
    OBVIOUS
  <2>2. m + 1 + 0 = m + 1
    BY <1>3
  <2> QED
    BY <1>3, <2>1, <2>2
<1>6. \A n \in Nat : n \in S => n + 1 \in S
  <2> SUFFICES ASSUME NEW n \in Nat, n \in S, m + 1 + (n + 1) <= c
               PROVE  s[m + 1 + (n + 1)] # Zeros
    OBVIOUS
  <2>1. PICK k \in 1..(c - 1) : k = m + 1 + n /\ k + 1 = m + 1 + (n + 1)
    BY <1>3
  <2>2. s[k] # Zeros
    BY <1>3, <2>1
  <2>3. s[k + 1] = Zeros => s[k] = Zeros
    BY <1>1, <2>1 DEF SeenOK
  <2> QED
    BY <2>1, <2>2, <2>3
<1>7. \A n \in Nat : n \in S
  <2> HIDE DEF S
  <2> QED
    BY <1>5, <1>6, NatSetInduction
<1>8. ASSUME NEW i \in 1..c, ~(i <= m) PROVE s[i] # Zeros
  <2>1. PICK n \in Nat : n = i - (m + 1) /\ m + 1 + n = i /\ m + 1 + n <= c
    BY <1>3, <1>8
  <2> QED
    BY <1>7, <2>1
<1> QED
  BY <1>1, <1>3, <1>4, <1>8

LEMMA EndsWell ==
  IInv => OverlapLosesOnlyTheFirst
<1> SUFFICES ASSUME IInv, reader.pc = "done"
             PROVE  \E lost \in 0..Count :
                      /\ reader.seen = [i \in 1..Count |-> IF i <= lost THEN Zeros ELSE Sorted[i]]
                      /\ \A i \in 1..lost : Sorted[i] \in Announced
                      /\ lost = 0 \/ overlap
  BY DEF OverlapLosesOnlyTheFirst
<1>1. PICK s : s = reader.seen
  OBVIOUS
<1>2. /\ overlap \in BOOLEAN /\ SeenOK(overlap, s) /\ Len(s) = Count
      /\ Announcements(s) = Cardinality(Announced)
  BY <1>1, OfReader DEF ReaderOK
<1>3. /\ s \in Seq(0..Count) /\ DOMAIN s = 1..Count /\ s = [i \in 1..Count |-> s[i]]
      /\ \A i \in 1..Count : Shown(overlap, i, s[i])
  <2>1. s \in Seq(0..Count)
    BY <1>2 DEF SeenOK
  <2>2. s \in [1..Count -> 0..Count]
    BY <1>2, <2>1, LenProperties
  <2> QED
    BY <1>2, <2>1, <2>2 DEF SeenOK
<1>4. PICK lost \in 0..Count : \A i \in 1..Count : s[i] = Zeros <=> i <= lost
  BY <1>2, ZerosInFront
<1>5. \A i \in 1..Count : s[i] = IF i <= lost THEN Zeros ELSE Sorted[i]
  BY <1>3, <1>4 DEF Shown
<1>6. s = [i \in 1..Count |-> IF i <= lost THEN Zeros ELSE Sorted[i]]
  BY <1>3, <1>5
<1> DEFINE A == {i \in 1..Count : Sorted[i] \in Announced}
           B == {i \in DOMAIN s : IsAnnouncement(s[i])}
<1>7. A \subseteq B
  <2> SUFFICES ASSUME NEW i \in 1..Count, Sorted[i] \in Announced PROVE IsAnnouncement(s[i])
    BY <1>3
  <2> QED
    BY <1>5 DEF IsAnnouncement
<1>8. IsFiniteSet(B) /\ Cardinality(B) = Cardinality(Announced)
  BY <1>2, <1>3, AnnouncementsCount DEF Announcements
<1>9. IsFiniteSet(A) /\ Cardinality(A) = Cardinality(Announced)
  <2>1. IsFiniteSet(A)
    BY <1>7, <1>8, FS_Subset
  <2> DEFINE g == [i \in A |-> Sorted[i]]
  <2>2. g \in [A -> Announced] /\ \A i \in A : g[i] = Sorted[i] /\ i \in 1..Count
    OBVIOUS
  <2>3. \A i, j \in A : g[i] = g[j] => i = j
    BY <2>2, Sorting
  <2>4. \A m \in Announced : \E i \in A : g[i] = m
    <3> SUFFICES ASSUME NEW m \in Announced PROVE \E i \in A : g[i] = m
      OBVIOUS
    <3>1. PICK i \in 1..Count : Sorted[i] = m
      BY Sorting, CountFacts
    <3> QED
      BY <3>1, <2>2
  <2> HIDE DEF g, A
  <2>5. g \in Bijection(A, Announced)
    BY <2>2, <2>3, <2>4, Zenon DEF Bijection, Injection, Surjection, IsInjective
  <2>6. ExistsBijection(A, Announced)
    BY <2>5 DEF ExistsBijection
  <2> QED
    BY <2>1, <2>6, FS_Bijection
<1>10. A = B
  <2> HIDE DEF A, B
  <2> QED
    BY <1>7, <1>8, <1>9, FS_Subset
<1>11. \A i \in 1..lost : Sorted[i] \in Announced
  <2> SUFFICES ASSUME NEW i \in 1..lost PROVE Sorted[i] \in Announced
    OBVIOUS
  <2>1. i \in 1..Count /\ i <= lost
    BY CountFacts
  <2>2. IsAnnouncement(s[i]) /\ i \in DOMAIN s
    BY <1>3, <1>4, <2>1 DEF IsAnnouncement
  <2> QED
    BY <1>10, <2>1, <2>2
<1>12. lost = 0 \/ overlap
  <2> SUFFICES ASSUME lost # 0 PROVE overlap
    OBVIOUS
  <2>1. 1 \in 1..Count /\ 1 <= lost
    BY CountFacts
  <2>2. s[1] = Zeros /\ Shown(overlap, 1, s[1])
    BY <1>3, <1>4, <2>1
  <2>3. Sorted[1] # Zeros
    BY <2>1, Sorting, CountFacts DEF Zeros
  <2> QED
    BY <2>2, <2>3 DEF Shown
<1> QED
  BY <1>1, <1>6, <1>11, <1>12

\* Whatever runs overlap and whatever is killed, a read of the published cache that ends well
\* (read_parsed_cache) has seen the messages in the order of close_and_sort, each one once;
\* what two runs can lose to each other are announcements at the beginning of that order,
\* and without an overlap they lose nothing.
THEOREM OverlapIsHarmlessButForTheFirst ==
  Spec => []OverlapLosesOnlyTheFirst
BY EndsWell, Invariance, PTL

=============================================================================
