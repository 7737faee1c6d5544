--------------------------- MODULE ParsedCacheProofs ---------------------------
(***************************************************************************)
(* Theorems about ParsedCache, for any versions of the source, sizes of     *)
(* blocks and batches, ranges and troubles: the types, that a published     *)
(* file is complete, that a read hands out the messages of the source in    *)
(* stable order or fails, and that a damaged file is never read to its end. *)
(***************************************************************************)
EXTENDS ParsedCache, FiniteSetTheorems, SequenceTheorems, NaturalFacts, TLAPS

-----------------------------------------------------------------------------
(* Messages and their order.                                               *)

LEMMA Messages ==
  /\ Version = 1..Len(Content) /\ Len(Content) \in Nat \ {0} /\ 1 \in Version
  /\ NoVersion \notin Version
  /\ \A v \in Version : Content[v] \in Seq(Nat) /\ Len(Content[v]) \in Nat
                        /\ DOMAIN Content[v] = 1..Len(Content[v])
  /\ \A m \in Message : m[1] \in Version /\ m[2] \in 1..Len(Content[m[1]]) /\ m = <<m[1], m[2]>>
                        /\ m[2] \in Nat /\ Ts(m) \in Nat /\ m \in MessagesOf(m[1])
  /\ \A v \in Version : \A i \in 1..Len(Content[v]) : <<v, i>> \in MessagesOf(v)
  /\ \A v \in Version : MessagesOf(v) \subseteq Message /\ \A m \in MessagesOf(v) : m[1] = v
<1>1. Content \in Seq(Seq(Nat)) /\ Content # <<>>
  BY ConstantsOK
<1>2. Len(Content) \in Nat \ {0} /\ DOMAIN Content = 1..Len(Content)
  BY <1>1, EmptySeq, LenProperties
<1>3. \A v \in 1..Len(Content) : Content[v] \in Seq(Nat)
  BY <1>1, ElementOfSeq
<1>4. \A v \in Version : Content[v] \in Seq(Nat) /\ Len(Content[v]) \in Nat
                         /\ DOMAIN Content[v] = 1..Len(Content[v])
  BY <1>2, <1>3, LenProperties DEF Version
<1>5. \A v \in Version : \A i \in 1..Len(Content[v]) : Content[v][i] \in Nat
  BY <1>4, ElementOfSeq
<1>6. \A v \in Version : MessagesOf(v) \subseteq Message
  BY DEF MessagesOf, Message
<1>7. \A m \in Message : \E v \in Version : \E i \in 1..Len(Content[v]) : m = <<v, i>>
  BY <1>4 DEF Message
<1>8. \A v \in Version : \A i \in 1..Len(Content[v]) : <<v, i>> \in MessagesOf(v)
  BY <1>4 DEF MessagesOf
<1>9. \A m \in Message : m[1] \in Version /\ m[2] \in 1..Len(Content[m[1]]) /\ m = <<m[1], m[2]>>
                        /\ m[2] \in Nat /\ Ts(m) \in Nat /\ m \in MessagesOf(m[1])
  BY <1>4, <1>5, <1>7, <1>8 DEF Ts
<1> QED
  BY <1>2, <1>4, <1>6, <1>8, <1>9 DEF Version, NoVersion, MessagesOf

LEMMA UpTo ==
  ASSUME NEW n \in Nat
  PROVE  IsFiniteSet(1..n) /\ Cardinality(1..n) = n
<1>1. Cardinality(1..n) = n
  BY FS_Interval
<1>2. IsFiniteSet(1..n)
  BY FS_Interval
<1> QED
  BY <1>1, <1>2

LEMMA MessagesFinite ==
  ASSUME NEW v \in Version
  PROVE  IsFiniteSet(MessagesOf(v)) /\ Cardinality(MessagesOf(v)) = Len(Content[v])
<1>1. Len(Content[v]) \in Nat /\ DOMAIN Content[v] = 1..Len(Content[v])
  BY Messages
<1>2. IsFiniteSet(1..Len(Content[v])) /\ Cardinality(1..Len(Content[v])) = Len(Content[v])
  BY <1>1, UpTo
<1>3. IsFiniteSet({v}) /\ Cardinality({v}) = 1
  BY FS_Singleton
<1> DEFINE V == {v}
           P == 1..Len(Content[v])
<1>4. MessagesOf(v) = V \X P
  BY <1>1 DEF MessagesOf
<1> HIDE DEF V, P
<1>5. IsFiniteSet(V \X P) /\ Cardinality(V \X P) = Cardinality(V) * Cardinality(P)
  BY <1>2, <1>3, FS_Product DEF V, P
<1>6. Cardinality(V) = 1 /\ Cardinality(P) = Len(Content[v])
  BY <1>2, <1>3 DEF V, P
<1> QED
  BY <1>1, <1>4, <1>5, <1>6

\* The order of messages of one version is strict and total.
LEMMA EarlierIsOrder ==
  /\ \A m, n \in Message : m[1] = n[1] => Earlier(m, n) \/ Earlier(n, m) \/ m = n
  /\ \A m, n \in Message : Earlier(m, n) => ~Earlier(n, m) /\ m # n
  /\ \A m, n, o \in Message : Earlier(m, n) /\ Earlier(n, o) => Earlier(m, o)
BY Messages DEF Earlier

\* The messages of S before m.
Predecessors(S, m) == {n \in S : Earlier(n, m)}

\* A sequence in strict order.
Ascending(s) == \A i, j \in DOMAIN s : i < j => Earlier(s[i], s[j])

\* An earlier message has fewer predecessors, so that no two of one version have as many.
LEMMA PredecessorsGrow ==
  ASSUME NEW v \in Version, NEW S, S \subseteq MessagesOf(v), NEW m \in S, NEW n \in S,
         Earlier(m, n)
  PROVE  Cardinality(Predecessors(S, m)) < Cardinality(Predecessors(S, n))
<1>1. IsFiniteSet(S)
  BY MessagesFinite, FS_Subset
<1>2. S \subseteq Message
  BY Messages
<1>3. Predecessors(S, m) \subseteq Predecessors(S, n) /\ m \in Predecessors(S, n)
      /\ m \notin Predecessors(S, m)
  BY <1>2, EarlierIsOrder DEF Predecessors
<1>4. IsFiniteSet(Predecessors(S, n))
  BY <1>1, FS_Subset DEF Predecessors
<1>5. /\ IsFiniteSet(Predecessors(S, m))
      /\ Cardinality(Predecessors(S, m)) <= Cardinality(Predecessors(S, n))
      /\ Cardinality(Predecessors(S, m)) # Cardinality(Predecessors(S, n))
  BY <1>3, <1>4, FS_Subset
<1> QED
  BY <1>4, <1>5, FS_CardinalityType

LEMMA PredecessorsDiffer ==
  ASSUME NEW v \in Version, NEW S, S \subseteq MessagesOf(v), NEW m \in S, NEW n \in S,
         Cardinality(Predecessors(S, m)) = Cardinality(Predecessors(S, n))
  PROVE  m = n
<1>1. ~Earlier(m, n) /\ ~Earlier(n, m)
  <2>1. IsFiniteSet(Predecessors(S, m)) /\ IsFiniteSet(Predecessors(S, n))
    BY MessagesFinite, FS_Subset DEF Predecessors
  <2>2. Cardinality(Predecessors(S, m)) \in Nat
    BY <2>1, FS_CardinalityType
  <2> QED
    BY <2>2, PredecessorsGrow
<1>2. m \in Message /\ n \in Message /\ m[1] = n[1]
  BY Messages
<1> QED
  BY <1>1, <1>2, EarlierIsOrder

\* The number of elements of a sequence that goes up before its place i.
LEMMA CountBefore ==
  ASSUME NEW d \in Seq(Message), Ascending(d), NEW i \in 1..Len(d)
  PROVE  Cardinality({d[j] : j \in 1..(i - 1)}) = i - 1
<1>1. Len(d) \in Nat /\ DOMAIN d = 1..Len(d) /\ \A j \in 1..Len(d) : d[j] \in Message
  BY LenProperties, ElementOfSeq
<1>2. IsFiniteSet(1..(i - 1)) /\ Cardinality(1..(i - 1)) = i - 1
  BY <1>1, UpTo
<1> DEFINE T == {d[j] : j \in 1..(i - 1)}
           b == [j \in 1..(i - 1) |-> d[j]]
<1>3. \A j, k \in 1..(i - 1) : j # k => d[j] # d[k]
  <2> SUFFICES ASSUME NEW j \in 1..(i - 1), NEW k \in 1..(i - 1), j # k PROVE d[j] # d[k]
    OBVIOUS
  <2>1. j \in 1..Len(d) /\ k \in 1..Len(d) /\ (j < k \/ k < j)
    BY <1>1
  <2>2. Earlier(d[j], d[k]) \/ Earlier(d[k], d[j])
    BY <1>1, <2>1 DEF Ascending
  <2> QED
    BY <1>1, <2>1, <2>2, EarlierIsOrder
<1>4. b \in Bijection(1..(i - 1), T)
  BY <1>3, Zenon DEF Bijection, Injection, IsInjective, Surjection
<1> HIDE DEF T, b
<1>5. Cardinality(T) = Cardinality(1..(i - 1))
  BY <1>2, <1>4, FS_Bijection DEF ExistsBijection
<1> USE DEF T
<1> QED
  BY <1>2, <1>5

\* A sequence that goes up and leaves out no message of S before one of its own is the
\* beginning of the stable order of S.
LEMMA BeginsTheOrder ==
  ASSUME NEW v \in Version, NEW S, S \subseteq MessagesOf(v),
         NEW d \in Seq(Message), Ascending(d), \A i \in 1..Len(d) : d[i] \in S,
         \A m \in S : \A i \in 1..Len(d) : Earlier(m, d[i]) => \E j \in 1..Len(d) : m = d[j]
  PROVE  /\ Len(d) <= Cardinality(S)
         /\ \A i \in 1..Len(d) : StableOrder(S)[i] = d[i]
<1>1. Len(d) \in Nat /\ DOMAIN d = 1..Len(d) /\ \A j \in 1..Len(d) : d[j] \in Message
  BY LenProperties, ElementOfSeq
<1>2. ASSUME NEW i \in 1..Len(d)
      PROVE  Cardinality(Predecessors(S, d[i])) = i - 1
  <2>1. \A j \in 1..Len(d) : Earlier(d[j], d[i]) <=> j < i
    <3> SUFFICES ASSUME NEW j \in 1..Len(d) PROVE Earlier(d[j], d[i]) <=> j < i
      OBVIOUS
    <3>1. (j < i => Earlier(d[j], d[i])) /\ (i < j => Earlier(d[i], d[j]))
      BY <1>1 DEF Ascending
    <3> QED
      BY <1>1, <3>1, EarlierIsOrder
  <2>2. Predecessors(S, d[i]) = {d[j] : j \in 1..(i - 1)}
    <3>1. \A j \in 1..(i - 1) : j \in 1..Len(d) /\ j < i
      BY <1>1
    <3>2. \A j \in 1..Len(d) : j < i => j \in 1..(i - 1)
      BY <1>1
    <3>3. \A m \in Predecessors(S, d[i]) : \E j \in 1..(i - 1) : m = d[j]
      BY <2>1, <3>2 DEF Predecessors
    <3>4. \A j \in 1..(i - 1) : d[j] \in Predecessors(S, d[i])
      BY <2>1, <3>1 DEF Predecessors
    <3> QED
      BY <3>3, <3>4 DEF Predecessors
  <2> QED
    BY <2>2, CountBefore
<1>3. IsFiniteSet(S)
  BY MessagesFinite, FS_Subset
<1>4. Len(d) <= Cardinality(S)
  <2>1. CASE Len(d) = 0
    BY <1>3, <2>1, FS_CardinalityType
  <2>2. CASE Len(d) # 0
    <3>1. Len(d) \in 1..Len(d)
      BY <1>1, <2>2
    <3>2. Predecessors(S, d[Len(d)]) \subseteq S \ {d[Len(d)]}
      BY <1>1, <3>1, EarlierIsOrder DEF Predecessors
    <3>3. IsFiniteSet(S \ {d[Len(d)]}) /\ Cardinality(S \ {d[Len(d)]}) = Cardinality(S) - 1
      BY <1>3, <3>1, FS_RemoveElement
    <3>4. Len(d) - 1 <= Cardinality(S) - 1
      BY <1>2, <3>1, <3>2, <3>3, FS_Subset
    <3> QED
      BY <1>1, <1>3, <3>4, FS_CardinalityType
  <2> QED
    BY <2>1, <2>2
<1>5. ASSUME NEW i \in 1..Len(d)
      PROVE  StableOrder(S)[i] = d[i]
  <2> DEFINE IsIt(m) == Cardinality({n \in S : Earlier(n, m)}) = i - 1
  <2>1. i \in 1..Cardinality(S)
    BY <1>1, <1>3, <1>4, FS_CardinalityType
  <2>2. d[i] \in S /\ IsIt(d[i])
    BY <1>2 DEF Predecessors
  <2>3. \A m \in S : IsIt(m) => m = d[i]
    <3> SUFFICES ASSUME NEW m \in S, IsIt(m) PROVE m = d[i]
      OBVIOUS
    <3>1. Cardinality(Predecessors(S, m)) = Cardinality(Predecessors(S, d[i]))
      BY <1>2 DEF Predecessors
    <3> QED
      BY <2>2, <3>1, PredecessorsDiffer
  <2>4. StableOrder(S)[i] = CHOOSE m \in S : IsIt(m)
    BY <2>1 DEF StableOrder
  <2> HIDE DEF IsIt
  <2> QED
    BY <2>2, <2>3, <2>4
<1> QED
  BY <1>4, <1>5

-----------------------------------------------------------------------------
(* The sort.                                                               *)

\* What parsing a version to its end leaves in the spool: all of it in MRT order.
Mrt(v) == [i \in DOMAIN Content[v] |-> <<v, i>>]

\* The index has an order: the place of a message is the number of those before it.
LEMMA OrderExists ==
  ASSUME NEW v \in Version
  PROVE  \E p \in [DOMAIN Mrt(v) -> DOMAIN Mrt(v)] :
           \A i, j \in DOMAIN Mrt(v) : i < j => Before(Mrt(v), p[i], p[j])
<1> DEFINE n == Len(Content[v])
           D == 1..n
           S == MessagesOf(v)
           place(i) == Cardinality(Predecessors(S, <<v, i>>)) + 1
           r == [i \in D |-> place(i)]
           p == [i \in D |-> CHOOSE j \in D : r[j] = i]
<1>1. n \in Nat /\ DOMAIN Mrt(v) = D /\ \A i \in D : <<v, i>> \in S /\ <<v, i>> \in Message
  BY Messages DEF Mrt
<1>2. \A i \in D : place(i) \in D
  <2> SUFFICES ASSUME NEW i \in D PROVE place(i) \in D
    OBVIOUS
  <2>1. IsFiniteSet(S) /\ Cardinality(S) = n
    BY MessagesFinite
  <2>2. Predecessors(S, <<v, i>>) \subseteq S \ {<<v, i>>}
    BY <1>1, EarlierIsOrder DEF Predecessors
  <2>3. IsFiniteSet(S \ {<<v, i>>}) /\ Cardinality(S \ {<<v, i>>}) = n - 1
    BY <1>1, <2>1, FS_RemoveElement
  <2>4. /\ IsFiniteSet(Predecessors(S, <<v, i>>))
        /\ Cardinality(Predecessors(S, <<v, i>>)) <= n - 1
    BY <2>2, <2>3, FS_Subset
  <2>5. Cardinality(Predecessors(S, <<v, i>>)) \in Nat
    BY <2>4, FS_CardinalityType
  <2> QED
    BY <1>1, <2>4, <2>5
<1>3. r \in Injection(D, D)
  <2>1. r \in [D -> D]
    BY <1>2
  <2>2. ASSUME NEW i \in D, NEW j \in D, r[i] = r[j]
        PROVE  i = j
    <3>1. IsFiniteSet(S)
      BY MessagesFinite
    <3>2. /\ IsFiniteSet(Predecessors(S, <<v, i>>)) /\ IsFiniteSet(Predecessors(S, <<v, j>>))
      BY <3>1, FS_Subset DEF Predecessors
    <3>3. Cardinality(Predecessors(S, <<v, i>>)) = Cardinality(Predecessors(S, <<v, j>>))
      BY <2>2, <3>2, FS_CardinalityType
    <3>4. <<v, i>> = <<v, j>>
      BY <1>1, <3>3, PredecessorsDiffer
    <3> QED
      BY <3>4
  <2> HIDE DEF r
  <2> QED
    BY <2>1, <2>2, Zenon DEF Injection, IsInjective
<1>4. r \in Surjection(D, D)
  <2>1. IsFiniteSet(D)
    BY <1>1, UpTo
  <2> HIDE DEF r, D
  <2> QED
    BY <1>3, <2>1, FS_Injection
<1>5. \A i \in D : p[i] \in D /\ r[p[i]] = i
  <2>1. \A i \in D : \E j \in D : r[j] = i
    BY <1>4 DEF Surjection
  <2> HIDE DEF r, D
  <2> QED
    BY <2>1
<1>6. ASSUME NEW i \in D, NEW j \in D, i < j
      PROVE  Before(Mrt(v), p[i], p[j])
  <2>1. PICK x \in D : x = p[i] /\ r[x] = i
    BY <1>5
  <2>2. PICK y \in D : y = p[j] /\ r[y] = j
    BY <1>5
  <2>3. place(x) = i /\ place(y) = j
    BY <2>1, <2>2
  <2>4. x \in Nat /\ y \in Nat /\ x # y /\ i \in Nat /\ j \in Nat
    BY <1>1, <1>6, <2>3
  <2>5. ~Earlier(<<v, y>>, <<v, x>>)
    <3> SUFFICES ASSUME Earlier(<<v, y>>, <<v, x>>) PROVE FALSE
      OBVIOUS
    <3>1. Cardinality(Predecessors(S, <<v, y>>)) < Cardinality(Predecessors(S, <<v, x>>))
      BY <1>1, PredecessorsGrow
    <3>2. IsFiniteSet(Predecessors(S, <<v, x>>)) /\ IsFiniteSet(Predecessors(S, <<v, y>>))
      BY MessagesFinite, FS_Subset DEF Predecessors
    <3>3. /\ Cardinality(Predecessors(S, <<v, y>>)) \in Nat
          /\ Cardinality(Predecessors(S, <<v, x>>)) \in Nat
      BY <3>2, FS_CardinalityType
    <3> QED
      BY <1>6, <2>3, <2>4, <3>1, <3>3
  <2>6. Earlier(<<v, x>>, <<v, y>>)
    BY <1>1, <2>4, <2>5, EarlierIsOrder
  <2>7. Mrt(v)[x] = <<v, x>> /\ Mrt(v)[y] = <<v, y>>
    BY <1>1 DEF Mrt
  <2>8. Before(Mrt(v), x, y)
    BY <2>6, <2>7 DEF Before, Earlier
  <2> QED
    BY <2>1, <2>2, <2>8
<1>7. p \in [D -> D]
  BY <1>5
<1> HIDE DEF p, D
<1> QED
  BY <1>1, <1>6, <1>7

\* A sequence that goes up and has the messages of S is their stable order.
LEMMA IsTheOrder ==
  ASSUME NEW v \in Version, NEW S, S \subseteq MessagesOf(v),
         NEW d \in Seq(Message), Ascending(d), \A i \in 1..Len(d) : d[i] \in S,
         \A m \in S : \E i \in 1..Len(d) : m = d[i]
  PROVE  StableOrder(S) = d
<1>1. /\ Len(d) <= Cardinality(S)
      /\ \A i \in 1..Len(d) : StableOrder(S)[i] = d[i]
  BY BeginsTheOrder
<1>2. Len(d) \in Nat /\ d \in [1..Len(d) -> Message]
  BY LenProperties
<1>3. IsFiniteSet(1..Len(d)) /\ Cardinality(1..Len(d)) = Len(d)
  BY <1>2, UpTo
<1>4. IsFiniteSet(S) /\ Cardinality(S) <= Len(d)
  <2>1. d \in Surjection(1..Len(d), S)
    BY <1>2 DEF Surjection
  <2> QED
    BY <1>3, <2>1, FS_Surjection
<1>5. Cardinality(S) = Len(d)
  BY <1>1, <1>2, <1>4, FS_CardinalityType
<1>6. StableOrder(S) = [i \in 1..Len(d) |-> StableOrder(S)[i]]
  <2> DEFINE at(i) == CHOOSE m \in S : Cardinality({n \in S : Earlier(n, m)}) = i - 1
  <2>1. StableOrder(S) = [i \in 1..Len(d) |-> at(i)]
    BY <1>5 DEF StableOrder
  <2> HIDE DEF at
  <2> QED
    BY <2>1
<1> QED
  BY <1>1, <1>2, <1>6

\* What close_and_sort makes of the whole of a version.
Entries(v) == Sorted(Mrt(v))

LEMMA Sorting ==
  ASSUME NEW v \in Version
  PROVE  /\ Entries(v) \in Seq(Message)
         /\ Len(Entries(v)) = Len(Content[v])
         /\ Ascending(Entries(v))
         /\ \A i \in 1..Len(Entries(v)) : Entries(v)[i] \in MessagesOf(v)
         /\ \A m \in MessagesOf(v) : \E i \in 1..Len(Entries(v)) : m = Entries(v)[i]
         /\ StableOrder(MessagesOf(v)) = Entries(v)
<1> DEFINE n == Len(Content[v])
           D == 1..n
           e == Entries(v)
           InOrder(p) == \A i, j \in DOMAIN Mrt(v) : i < j => Before(Mrt(v), p[i], p[j])
           p == CHOOSE p \in [DOMAIN Mrt(v) -> DOMAIN Mrt(v)] : InOrder(p)
<1>1. n \in Nat /\ DOMAIN Mrt(v) = D
      /\ \A i \in D : Mrt(v)[i] = <<v, i>> /\ <<v, i>> \in MessagesOf(v) /\ <<v, i>> \in Message
  BY Messages DEF Mrt
<1>2. p \in [D -> D] /\ InOrder(p)
  <2>1. \E q \in [DOMAIN Mrt(v) -> DOMAIN Mrt(v)] : InOrder(q)
    BY OrderExists
  <2> HIDE DEF InOrder
  <2>2. p \in [DOMAIN Mrt(v) -> DOMAIN Mrt(v)] /\ InOrder(p)
    BY <2>1
  <2> QED
    BY <1>1, <2>2
<1>3. e = [i \in D |-> Mrt(v)[p[i]]]
  BY <1>1 DEF Entries, Sorted
<1> HIDE DEF p, e
<1>4. \A i \in D : p[i] \in D /\ e[i] = <<v, p[i]>> /\ e[i] \in MessagesOf(v) /\ e[i] \in Message
  BY <1>1, <1>2, <1>3
<1>5. e \in Seq(Message) /\ Len(e) = n /\ DOMAIN e = D
  <2>1. e \in [D -> Message]
    BY <1>3, <1>4
  <2> QED
    BY <1>1, <2>1, SeqDef, LenProperties
<1>6. \A i, j \in D : i < j => Earlier(e[i], e[j])
  <2> SUFFICES ASSUME NEW i \in D, NEW j \in D, i < j PROVE Earlier(e[i], e[j])
    OBVIOUS
  <2>1. PICK x \in D : x = p[i]
    BY <1>4
  <2>2. PICK y \in D : y = p[j]
    BY <1>4
  <2>3. Before(Mrt(v), x, y)
    BY <1>1, <1>2, <2>1, <2>2
  <2>4. Mrt(v)[x] = <<v, x>> /\ Mrt(v)[y] = <<v, y>>
    BY <1>1
  <2>5. Earlier(<<v, x>>, <<v, y>>)
    BY <2>3, <2>4 DEF Before, Earlier
  <2> QED
    BY <1>4, <2>1, <2>2, <2>5
<1>7. \A m \in MessagesOf(v) : \E i \in D : m = e[i]
  <2>1. p \in Injection(D, D)
    <3>1. \A i, j \in D : p[i] = p[j] => i = j
      <4> SUFFICES ASSUME NEW i \in D, NEW j \in D, p[i] = p[j], i < j PROVE FALSE
        BY <1>1
      <4>1. Earlier(e[i], e[j]) /\ e[i] = e[j] /\ e[i] \in Message
        BY <1>4, <1>6
      <4> QED
        BY <4>1, EarlierIsOrder
    <3> QED
      BY <1>2, <3>1, Zenon DEF Injection, IsInjective
  <2>2. p \in Surjection(D, D)
    <3>1. IsFiniteSet(D)
      BY <1>1, UpTo
    <3> HIDE DEF D
    <3> QED
      BY <2>1, <3>1, FS_Injection
  <2>3. \A k \in D : \E i \in D : p[i] = k
    BY <2>2 DEF Surjection
  <2>4. \A m \in MessagesOf(v) : \E k \in D : m = <<v, k>>
    BY Messages DEF MessagesOf
  <2> SUFFICES ASSUME NEW m \in MessagesOf(v) PROVE \E i \in D : m = e[i]
    OBVIOUS
  <2>5. PICK k \in D : m = <<v, k>>
    BY <2>4
  <2>6. PICK i \in D : p[i] = k
    BY <2>3
  <2> QED
    BY <1>4, <2>5, <2>6
<1>8. Ascending(e) /\ \A i \in 1..Len(e) : e[i] \in MessagesOf(v)
  BY <1>4, <1>5, <1>6 DEF Ascending
<1>9. StableOrder(MessagesOf(v)) = e
  BY <1>5, <1>7, <1>8, IsTheOrder
<1> QED
  BY <1>5, <1>7, <1>8, <1>9 DEF e

-----------------------------------------------------------------------------
(* Files, and the inductive invariant.                                     *)

\* The first k cells of f are a header and blocks that hold the sorted messages of v one
\* after the other; off[i] of them are in the cells up to i.
Laid(f, k, st, v, off) ==
  /\ f \in Seq(Cell)
  /\ k \in 1..Len(f)
  /\ off \in [1..k -> 0..Len(Entries(v))]
  /\ f[1] = Header(st)
  /\ off[1] = 0
  /\ \A i \in 2..k : /\ off[i - 1] < off[i]
                     /\ f[i] = Block(SubSeq(Entries(v), off[i - 1] + 1, off[i]))

\* The partial file after n messages.
Growing(f, st, v, n) ==
  \E off \in [1..Len(f) -> 0..Len(Entries(v))] : Laid(f, Len(f), st, v, off) /\ off[Len(f)] = n

\* The finished file.
Framed(f, st, v, off) ==
  /\ Len(f) >= 2
  /\ Laid(f, Len(f) - 1, st, v, off)
  /\ off[Len(f) - 1] = Len(Entries(v))
  /\ f[Len(f)] = Footer(Len(Entries(v)))

Finished(f, st, v) == \E off \in [1..(Len(f) - 1) -> 0..Len(Entries(v))] : Framed(f, st, v, off)

\* Stamped before it was read: a fingerprint that is not later than the messages.
Stamps(v, latest) == {st \in Version : st <= v /\ v <= latest}

\* The file of the cache was finished, and damaged at most once.
CacheInv ==
  cache # NoFile =>
    \E v \in Version : \E st \in Stamps(v, source) :
      IF tampered THEN \E g \in Seq(Cell) : Finished(g, st, v) /\ cache \in Damaged(g)
                  ELSE Finished(cache, st, v)

\* What the builder has done is in its files, if they are still there.
BuildInv ==
  /\ builder.pc = "create" => builder = [NoBuilder EXCEPT !.pc = "create"]
  /\ builder.pc = "idle" => builder = NoBuilder
  /\ builder.pc \in {"open", "parse", "write", "rename"} =>
       builder.stamp \in Version /\ builder.stamp <= source
  /\ builder.pc = "open" => builder.taken = 0 /\ builder.written = 0
  /\ builder.pc \in {"parse", "write", "rename"} =>
       builder.parsed \in Version /\ builder.stamp \in Stamps(builder.parsed, source)
  /\ builder.pc = "parse" =>
       /\ builder.written = 0
       /\ builder.taken <= Len(Content[builder.parsed])
       /\ spool = NoFile \/ spool = SubSeq(Mrt(builder.parsed), 1, builder.taken)
  /\ builder.pc \in {"open", "parse"} => part = NoFile \/ part = <<Header(builder.stamp)>>
  /\ builder.pc \in {"write", "rename"} => builder.entries = Entries(builder.parsed)
  /\ builder.pc = "write" =>
       /\ builder.written <= Len(builder.entries)
       /\ part = NoFile \/ Growing(part, builder.stamp, builder.parsed, builder.written)
  /\ builder.pc = "rename" =>
       part = NoFile \/ Finished(part, builder.stamp, builder.parsed)

\* d is the first n messages of v, those of the range.
Selects(d, v, n, range) ==
  /\ Ascending(d)
  /\ \A i \in 1..Len(d) : \E j \in 1..n : d[i] = Entries(v)[j] /\ InRange(range, Entries(v)[j])
  /\ \A j \in 1..n : InRange(range, Entries(v)[j]) => \E i \in 1..Len(d) : d[i] = Entries(v)[j]

\* What was handed out or is kept, after n messages of v.
Progress(r, v, n) == Selects(r.delivered \o r.batch, v, n, r.range)

\* A reader of a file that was g, the file of v stamped st, when it was published.
Reads(r, g, st, v, off) ==
  /\ IF r.sound THEN r.file = g ELSE r.file \in Damaged(g)
  /\ r.checked # NoVersion => st = v /\ r.checked = v /\ r.file[1] = Header(v)
  /\ r.checked = NoVersion => r.batch = <<>> /\ r.delivered = <<>>
  /\ r.pc = "header" => r.checked = NoVersion /\ r.seen = 0 /\ r.previous = NoTime
  /\ r.pc \in {"cells", "messages"} =>
       /\ r.checked = v
       /\ r.cell \in 2..Len(g)
       /\ \A i \in 2..(r.cell - 1) : i <= Len(r.file) /\ r.file[i] = g[i]
       /\ r.previous = IF r.seen = 0 THEN NoTime ELSE Ts(Entries(v)[r.seen])
       /\ Len(r.batch) < BatchSize
  /\ r.pc = "cells" => r.seen = off[r.cell - 1]
  /\ r.pc = "messages" =>
       /\ r.cell < Len(g) /\ r.cell <= Len(r.file) /\ r.file[r.cell] = g[r.cell]
       /\ r.next \in 1..(off[r.cell] - off[r.cell - 1])
       /\ r.seen = off[r.cell - 1] + r.next - 1
  /\ r.pc = "done" => r.sound /\ r.checked = v /\ r.seen = Len(Entries(v)) /\ r.batch = <<>>
  /\ r.pc = "failed" /\ r.sound => r.checked = NoVersion
  /\ r.pc # "done" => Len(r.delivered) % BatchSize = 0
  /\ r.seen <= Len(Entries(v)) /\ Progress(r, v, r.seen)

ReadInv ==
  /\ reader.pc = "idle" => reader = NoReader
  /\ reader.pc # "idle" =>
       \E v \in Version : \E st \in Stamps(v, source) : \E g \in Seq(Cell) :
         \E off \in [1..(Len(g) - 1) -> 0..Len(Entries(v))] :
           Framed(g, st, v, off) /\ Reads(reader, g, st, v, off)

Inv == TypeOK /\ CacheInv /\ BuildInv /\ ReadInv

-----------------------------------------------------------------------------
(* What the builder writes.                                                *)

LEMMA Cells ==
  /\ \A st \in Version \cup {NoVersion} : Header(st) \in Cell
  /\ \A s \in Seq(Message) : Block(s) \in Cell
  /\ \A n \in Nat : Footer(n) \in Cell
  /\ \A st : ~IsBlock(Header(st)) /\ Header(st).kind = "header"
  /\ \A s : IsBlock(Block(s)) /\ Block(s).kind = "block" /\ Block(s).messages = s /\ Block(s).intact
  /\ \A n : ~IsBlock(Footer(n)) /\ Footer(n).kind = "footer" /\ Footer(n).count = n
  /\ \A m, n : Footer(m) = Footer(n) => m = n
  /\ \A m, n : Header(m) = Header(n) => m = n
<1>1. \A st \in Version \cup {NoVersion} : Header(st) \in Cell
  BY DEF Header, Cell
<1>2. \A s \in Seq(Message) : Block(s) \in Cell
  BY DEF Block, Cell
<1>3. \A n \in Nat : Footer(n) \in Cell
  BY DEF Footer, Cell
<1>4. \A st : ~IsBlock(Header(st)) /\ Header(st).kind = "header"
  BY DEF Header, IsBlock
<1>5. \A s : IsBlock(Block(s)) /\ Block(s).kind = "block" /\ Block(s).messages = s /\ Block(s).intact
  BY DEF Block, IsBlock
<1>6. \A n : ~IsBlock(Footer(n)) /\ Footer(n).kind = "footer" /\ Footer(n).count = n
  BY DEF Footer, IsBlock
<1>7. \A m, n : Header(m) = Header(n) => m = n
  BY DEF Header
<1> QED
  BY <1>1, <1>2, <1>3, <1>4, <1>5, <1>6, <1>7

\* The next messages of a sequence, at least one if there is one.
LEMMA NextPiece ==
  ASSUME NEW s \in Seq(Message), NEW n \in Nat, n < Len(s)
  PROVE  LET piece == Piece(s, n + 1, BlockSize)
         IN  /\ piece \in Seq(Message)
             /\ Len(piece) \in Nat /\ n < n + Len(piece) /\ n + Len(piece) <= Len(s)
             /\ piece = SubSeq(s, n + 1, n + Len(piece))
<1> DEFINE last == IF n + 1 + BlockSize - 1 < Len(s) THEN n + 1 + BlockSize - 1 ELSE Len(s)
           piece == Piece(s, n + 1, BlockSize)
<1>1. Len(s) \in Nat /\ BlockSize \in Nat \ {0} /\ \A i \in 1..Len(s) : s[i] \in Message
  BY ConstantsOK, LenProperties, ElementOfSeq
<1>2. last \in Nat /\ n + 1 <= last /\ last <= Len(s)
  BY <1>1
<1>3. piece = SubSeq(s, n + 1, last)
  BY DEF Piece
<1> HIDE DEF last, piece
<1>4. piece \in Seq(Message) /\ Len(piece) = last - (n + 1) + 1
  BY <1>1, <1>2, <1>3, SubSeqProperties
<1> QED
  BY <1>1, <1>2, <1>3, <1>4 DEF piece

LEMMA FirstCell ==
  ASSUME NEW v \in Version, NEW st \in Version
  PROVE  Growing(<<Header(st)>>, st, v, 0)
<1> DEFINE f == <<Header(st)>>
           off == [i \in 1..1 |-> 0]
<1>1. f \in Seq(Cell) /\ Len(f) = 1 /\ f[1] = Header(st)
  BY Cells
<1>2. Len(Entries(v)) \in Nat
  BY Sorting, LenProperties
<1>3. Laid(f, 1, st, v, off) /\ off[1] = 0 /\ off \in [1..1 -> 0..Len(Entries(v))]
  BY <1>1, <1>2 DEF Laid
<1> QED
  BY <1>1, <1>3 DEF Growing

\* A block continues a partial file.
LEMMA NextBlock ==
  ASSUME NEW v \in Version, NEW st \in Version, NEW f, NEW n, Growing(f, st, v, n),
         NEW m \in Nat, n < m, m <= Len(Entries(v))
  PROVE  Growing(f \o <<Block(SubSeq(Entries(v), n + 1, m))>>, st, v, m)
<1> DEFINE e == Entries(v)
           b == Block(SubSeq(e, n + 1, m))
           g == f \o <<b>>
<1>1. e \in Seq(Message) /\ Len(e) \in Nat /\ \A i \in 1..Len(e) : e[i] \in Message
  BY Sorting, LenProperties, ElementOfSeq
<1> HIDE DEF e
<1>2. PICK off \in [1..Len(f) -> 0..Len(e)] : Laid(f, Len(f), st, v, off) /\ off[Len(f)] = n
  BY DEF Growing, e
<1>3. f \in Seq(Cell) /\ Len(f) \in Nat \ {0}
  BY <1>2, LenProperties DEF Laid
<1>4. n \in Nat
  BY <1>1, <1>2, <1>3
<1>5. b \in Cell
  <2>1. SubSeq(e, n + 1, m) \in Seq(Message)
    <3>1. n + 1 \in Int /\ m \in Int /\ \A i \in (n + 1)..m : e[i] \in Message
      BY <1>1, <1>4 DEF e
    <3> QED
      BY <3>1, SubSeqProperties
  <2> QED
    BY <2>1, Cells
<1> HIDE DEF b
<1>6. /\ g \in Seq(Cell) /\ Len(g) = Len(f) + 1
      /\ \A i \in 1..Len(f) : g[i] = f[i]
      /\ g[Len(f) + 1] = b
  <2>1. <<b>> \in Seq(Cell) /\ Len(<<b>>) = 1 /\ <<b>>[1] = b
    BY <1>5
  <2> QED
    BY <1>3, <2>1, ConcatProperties
<1> HIDE DEF g
<1> DEFINE more == [i \in 1..Len(g) |-> IF i = Len(g) THEN m ELSE off[i]]
<1>7. more \in [1..Len(g) -> 0..Len(e)] /\ more[Len(g)] = m /\ \A i \in 1..Len(f) : more[i] = off[i]
  BY <1>1, <1>2, <1>3, <1>6 DEF e
<1> HIDE DEF more
<1>8. Laid(g, Len(g), st, v, more)
  <2>1. /\ f[1] = Header(st) /\ off[1] = 0
        /\ \A i \in 2..Len(f) : off[i - 1] < off[i] /\ f[i] = Block(SubSeq(e, off[i - 1] + 1, off[i]))
    BY <1>2 DEF Laid, e
  <2>2. g[1] = Header(st) /\ more[1] = 0 /\ Len(g) \in 1..Len(g)
    BY <1>3, <1>6, <1>7, <2>1
  <2>3. ASSUME NEW i \in 2..Len(g)
        PROVE  more[i - 1] < more[i] /\ g[i] = Block(SubSeq(e, more[i - 1] + 1, more[i]))
    <3>1. CASE i \in 2..Len(f)
      <4>1. i - 1 \in 1..Len(f) /\ i \in 1..Len(f)
        BY <1>3, <3>1
      <4>2. more[i - 1] = off[i - 1] /\ more[i] = off[i] /\ g[i] = f[i]
        BY <1>6, <1>7, <4>1
      <4> QED
        BY <2>1, <3>1, <4>2
    <3>2. CASE i = Len(f) + 1
      <4>1. more[i - 1] = n /\ more[i] = m /\ g[i] = b
        BY <1>2, <1>3, <1>6, <1>7, <3>2
      <4> QED
        BY <4>1 DEF b
    <3> QED
      BY <1>3, <1>6, <3>1, <3>2
  <2> QED
    BY <1>6, <1>7, <2>2, <2>3 DEF Laid, e
<1> QED
  BY <1>7, <1>8 DEF Growing, g, b, e

\* The footer ends it.
LEMMA LastCell ==
  ASSUME NEW v \in Version, NEW st \in Version, NEW f, Growing(f, st, v, Len(Entries(v)))
  PROVE  Finished(f \o <<Footer(Len(Entries(v)))>>, st, v)
<1> DEFINE n == Len(Entries(v))
           b == Footer(n)
           g == f \o <<b>>
<1>1. n \in Nat
  BY Sorting, LenProperties
<1>2. PICK off \in [1..Len(f) -> 0..n] : Laid(f, Len(f), st, v, off) /\ off[Len(f)] = n
  BY DEF Growing
<1>3. f \in Seq(Cell) /\ Len(f) \in Nat \ {0} /\ b \in Cell
  BY <1>1, <1>2, LenProperties, Cells DEF Laid
<1> HIDE DEF b
<1>4. /\ g \in Seq(Cell) /\ Len(g) = Len(f) + 1
      /\ \A i \in 1..Len(f) : g[i] = f[i]
      /\ g[Len(f) + 1] = b
  <2>1. <<b>> \in Seq(Cell) /\ Len(<<b>>) = 1 /\ <<b>>[1] = b
    BY <1>3
  <2> QED
    BY <1>3, <2>1, ConcatProperties
<1> HIDE DEF g
<1>5. Len(g) - 1 = Len(f) /\ Len(g) >= 2 /\ Len(f) \in 1..Len(g)
  BY <1>3, <1>4
<1>6. Laid(g, Len(f), st, v, off)
  <2>1. \A i \in 2..Len(f) : g[i] = f[i]
    BY <1>4
  <2>2. 1 \in 1..Len(f)
    BY <1>3
  <2> QED
    BY <1>2, <1>4, <1>5, <2>1, <2>2 DEF Laid
<1>7. Framed(g, st, v, off)
  BY <1>2, <1>4, <1>5, <1>6 DEF Framed, b
<1> QED
  BY <1>2, <1>5, <1>7 DEF Finished, g, b

-----------------------------------------------------------------------------
(* What a finished file is.                                                *)

LEMMA FramedFile ==
  ASSUME NEW v \in Version, NEW st, NEW f, NEW off, Framed(f, st, v, off)
  PROVE  /\ f \in Seq(Cell) /\ Len(f) \in Nat /\ Len(f) >= 2 /\ DOMAIN f = 1..Len(f)
         /\ f[1] = Header(st) /\ f[Len(f)] = Footer(Len(Entries(v)))
         /\ off[1] = 0 /\ off[Len(f) - 1] = Len(Entries(v))
         /\ Len(Entries(v)) \in Nat
         /\ \A i \in 1..(Len(f) - 1) : off[i] \in 0..Len(Entries(v))
         /\ \A i \in 2..(Len(f) - 1) :
              /\ i - 1 \in 1..(Len(f) - 1) /\ off[i - 1] < off[i]
              /\ IsBlock(f[i]) /\ f[i].intact
              /\ f[i].messages = SubSeq(Entries(v), off[i - 1] + 1, off[i])
              /\ Len(f[i].messages) = off[i] - off[i - 1]
              /\ DOMAIN f[i].messages = 1..(off[i] - off[i - 1])
              /\ \A j \in 1..(off[i] - off[i - 1]) :
                   f[i].messages[j] = Entries(v)[off[i - 1] + j]
         /\ Blocks(f) = 2..(Len(f) - 1)
<1> DEFINE e == Entries(v)
           n == Len(e)
           l == Len(f)
<1>1. e \in Seq(Message) /\ n \in Nat /\ \A i \in 1..n : e[i] \in Message
  BY Sorting, LenProperties, ElementOfSeq
<1> HIDE DEF e
<1>2. /\ f \in Seq(Cell) /\ l >= 2 /\ l - 1 \in 1..l /\ off \in [1..(l - 1) -> 0..n]
      /\ f[1] = Header(st) /\ off[1] = 0 /\ off[l - 1] = n /\ f[l] = Footer(n)
      /\ \A i \in 2..(l - 1) : off[i - 1] < off[i] /\ f[i] = Block(SubSeq(e, off[i - 1] + 1, off[i]))
  BY DEF Framed, Laid, e
<1>3. l \in Nat /\ DOMAIN f = 1..l
  BY <1>2, LenProperties
<1>4. ASSUME NEW i \in 2..(l - 1)
      PROVE  /\ i - 1 \in 1..(l - 1) /\ off[i - 1] < off[i]
             /\ IsBlock(f[i]) /\ f[i].intact
             /\ f[i].messages = SubSeq(e, off[i - 1] + 1, off[i])
             /\ Len(f[i].messages) = off[i] - off[i - 1]
             /\ DOMAIN f[i].messages = 1..(off[i] - off[i - 1])
             /\ \A j \in 1..(off[i] - off[i - 1]) : f[i].messages[j] = e[off[i - 1] + j]
  <2>0. i \in 1..(l - 1) /\ i - 1 \in 1..(l - 1)
    BY <1>2, <1>3
  <2>1. PICK a \in 0..n : a = off[i - 1]
    BY <1>2, <2>0
  <2>2. PICK b \in 0..n : b = off[i]
    BY <1>2, <2>0
  <2>3. i - 1 \in 1..(l - 1) /\ a < b /\ f[i] = Block(SubSeq(e, a + 1, b))
    BY <1>2, <1>3, <2>1, <2>2
  <2> DEFINE s == SubSeq(e, a + 1, b)
  <2>4. s \in Seq(Message) /\ Len(s) = b - a /\ \A j \in 1..(b - a) : s[j] = e[a + j]
    <3>1. a + 1 \in Int /\ b \in Int /\ \A k \in (a + 1)..b : e[k] \in Message
      BY <1>1
    <3>2. /\ s \in Seq(Message) /\ Len(s) = IF a + 1 <= b THEN b - (a + 1) + 1 ELSE 0
          /\ \A j \in 1..(b - (a + 1) + 1) : s[j] = e[a + 1 + j - 1]
      BY <3>1, SubSeqProperties
    <3> HIDE DEF s
    <3>3. \A j \in 1..(b - a) : j \in 1..(b - (a + 1) + 1) /\ a + 1 + j - 1 = a + j
      OBVIOUS
    <3> QED
      BY <2>3, <3>2, <3>3
  <2> HIDE DEF s
  <2>5. DOMAIN s = 1..(b - a)
    BY <2>4, LenProperties
  <2>6. IsBlock(f[i]) /\ f[i].intact /\ f[i].messages = s
    BY <2>3, Cells DEF s
  <2> QED
    BY <2>1, <2>2, <2>3, <2>4, <2>5, <2>6 DEF s
<1>5. Blocks(f) = 2..(l - 1)
  <2>1. ~IsBlock(f[1]) /\ ~IsBlock(f[l])
    BY <1>2, Cells
  <2>2. \A i \in 1..l : i = 1 \/ i = l \/ i \in 2..(l - 1)
    <3> HIDE DEF l
    <3> SUFFICES ASSUME NEW i \in 1..l, i # 1, i # l PROVE i \in 2..(l - 1)
      OBVIOUS
    <3> QED
      BY <1>3
  <2>3. \A i \in 2..(l - 1) : i \in 1..l
    BY <1>3
  <2> QED
    BY <1>3, <1>4, <2>1, <2>2, <2>3 DEF Blocks
<1>6. \A i \in 1..(l - 1) : off[i] \in 0..n
  BY <1>2
<1> QED
  BY <1>1, <1>2, <1>3, <1>4, <1>5, <1>6 DEF e

\* The count of the footer is that of the messages in the blocks.
LEMMA FramedCount ==
  ASSUME NEW v \in Version, NEW st, NEW f, NEW off, Framed(f, st, v, off)
  PROVE  MessageCount(f) = Len(Entries(v))
<1> DEFINE l == Len(f)
           part_of(i) == {i} \X DOMAIN f[i].messages
           U(k) == UNION {part_of(i) : i \in 2..k}
           S == {k \in Nat : k + 1 <= l - 1 => IsFiniteSet(U(k + 1)) /\ Cardinality(U(k + 1)) = off[k + 1]}
<1>1. /\ l \in Nat /\ l >= 2 /\ off[1] = 0 /\ off[l - 1] = Len(Entries(v))
      /\ Len(Entries(v)) \in Nat
      /\ \A i \in 1..(l - 1) : off[i] \in 0..Len(Entries(v))
      /\ \A i \in 2..(l - 1) : off[i - 1] < off[i] /\ DOMAIN f[i].messages = 1..(off[i] - off[i - 1])
      /\ Blocks(f) = 2..(l - 1)
  BY FramedFile
<1>2. 0 \in S
  <2>1. 2..1 = {}
    OBVIOUS
  <2>2. U(1) = {}
    BY <2>1
  <2>3. IsFiniteSet(U(1)) /\ Cardinality(U(1)) = 0
    BY <2>2, FS_EmptySet, Zenon
  <2> HIDE DEF U
  <2> QED
    BY <1>1, <2>3
<1>3. ASSUME NEW k \in Nat, k \in S
      PROVE  k + 1 \in S
  <2> SUFFICES ASSUME k + 2 <= l - 1
               PROVE  IsFiniteSet(U(k + 2)) /\ Cardinality(U(k + 2)) = off[k + 2]
    OBVIOUS
  <2> DEFINE A == U(k + 1)
             B == part_of(k + 2)
             d == off[k + 2] - off[k + 1]
  <2>1. IsFiniteSet(A) /\ Cardinality(A) = off[k + 1]
    BY <1>1, <1>3
  <2>2. U(k + 2) = A \cup B
    <3>1. 2..(k + 2) = 2..(k + 1) \cup {k + 2}
      OBVIOUS
    <3> HIDE DEF part_of
    <3> QED
      BY <3>1
  <2>3. A \cap B = {}
    <3>1. \A x \in A : \E i \in 2..(k + 1) : x[1] = i
      OBVIOUS
    <3>2. \A x \in B : x[1] = k + 2
      OBVIOUS
    <3>3. \A i \in 2..(k + 1) : i # k + 2
      OBVIOUS
    <3> HIDE DEF A, B
    <3> QED
      BY <3>1, <3>2, <3>3
  <2>4. d \in Nat /\ k + 2 \in 2..(l - 1) /\ DOMAIN f[k + 2].messages = 1..d
        /\ off[k + 1] \in Nat /\ off[k + 2] = off[k + 1] + d
    <3>1. k + 1 \in 1..(l - 1) /\ k + 2 \in 2..(l - 1) /\ k + 2 \in 1..(l - 1) /\ (k + 2) - 1 = k + 1
      BY <1>1
    <3>2. off[k + 1] \in Nat /\ off[k + 2] \in Nat
      BY <1>1, <3>1
    <3>3. off[k + 1] < off[k + 2] /\ DOMAIN f[k + 2].messages = 1..(off[k + 2] - off[k + 1])
      BY <1>1, <3>1
    <3> QED
      BY <3>1, <3>2, <3>3
  <2> HIDE DEF A, d
  <2>5. IsFiniteSet(B) /\ Cardinality(B) = d
    <3> DEFINE X == {k + 2}
               Y == 1..d
    <3>1. IsFiniteSet(X) /\ Cardinality(X) = 1
      BY FS_Singleton
    <3>2. IsFiniteSet(Y) /\ Cardinality(Y) = d
      BY <2>4, UpTo
    <3>3. B = X \X Y
      BY <2>4
    <3> HIDE DEF X, Y, B
    <3>4. IsFiniteSet(X \X Y) /\ Cardinality(X \X Y) = Cardinality(X) * Cardinality(Y)
      BY <3>1, <3>2, FS_Product
    <3> QED
      BY <2>4, <3>1, <3>2, <3>3, <3>4
  <2> HIDE DEF B
  <2>6. IsFiniteSet(A \cup B) /\ Cardinality(A \cup B) = Cardinality(A) + Cardinality(B) - Cardinality(A \cap B)
    BY <2>1, <2>5, FS_Union
  <2>7. Cardinality(A \cap B) = 0
    BY <2>3, FS_EmptySet
  <2>8. Cardinality(A \cup B) = off[k + 2]
    BY <2>1, <2>4, <2>5, <2>6, <2>7
  <2> HIDE DEF U
  <2> QED
    BY <2>2, <2>6, <2>8
<1> HIDE DEF S
<1>4. \A k \in Nat : k \in S
  BY <1>2, <1>3, NatSetInduction
<1>5. Cardinality(U(l - 1)) = off[l - 1]
  <2> HIDE DEF U
  <2>1. l - 2 \in Nat /\ (l - 2) + 1 = l - 1
    BY <1>1
  <2>2. l - 2 \in S
    BY <1>4, <2>1
  <2> QED
    BY <2>1, <2>2 DEF S
<1>6. MessageCount(f) = Cardinality(U(l - 1))
  BY <1>1 DEF MessageCount
<1> QED
  BY <1>1, <1>5, <1>6

\* The blocks of a finished file hold the messages of its version in stable order.
LEMMA FramedContents ==
  ASSUME NEW v \in Version, NEW st, NEW f, NEW off, Framed(f, st, v, off)
  PROVE  Contents(f) = Entries(v)
<1> DEFINE e == Entries(v)
           n == Len(e)
           l == Len(f)
           cell(k) == IF IsBlock(f[k]) THEN f[k].messages ELSE <<>>
           Solves(u) == u = [k \in 0..l |-> IF k = 0 THEN <<>> ELSE u[k - 1] \o cell(k)]
           w == [k \in 0..l |-> IF k = 0 THEN <<>> ELSE IF k = l THEN e ELSE SubSeq(e, 1, off[k])]
           upto == CHOOSE u : Solves(u)
<1>1. e \in Seq(Message) /\ n \in Nat
  BY Sorting, LenProperties
<1> HIDE DEF e
<1>2. /\ l \in Nat /\ l >= 2 /\ off[1] = 0 /\ off[l - 1] = n
      /\ \A i \in 1..(l - 1) : off[i] \in 0..n
      /\ \A i \in 2..(l - 1) : /\ off[i - 1] < off[i]
                               /\ IsBlock(f[i]) /\ f[i].messages = SubSeq(e, off[i - 1] + 1, off[i])
      /\ f[1] = Header(st) /\ f[l] = Footer(n)
  <2> USE DEF e
  <2>1. /\ l \in Nat /\ l >= 2 /\ off[1] = 0 /\ off[l - 1] = n
        /\ f[1] = Header(st) /\ f[l] = Footer(n)
    BY FramedFile
  <2>2. \A i \in 1..(l - 1) : off[i] \in 0..n
    BY FramedFile
  <2>3. \A i \in 2..(l - 1) :
          /\ off[i - 1] < off[i]
          /\ IsBlock(f[i]) /\ f[i].messages = SubSeq(e, off[i - 1] + 1, off[i])
    BY FramedFile
  <2> QED
    BY <2>1, <2>2, <2>3
<1>3. cell(1) = <<>> /\ cell(l) = <<>>
  BY <1>2, Cells
<1>4. \A i \in 2..(l - 1) : cell(i) = SubSeq(e, off[i - 1] + 1, off[i])
  BY <1>2
<1> HIDE DEF cell, n
<1>5. ASSUME NEW k \in 1..l
      PROVE  w[k] = w[k - 1] \o cell(k)
  <2>1. CASE k = 1
    <3>1. w[1] = SubSeq(e, 1, 0) /\ w[0] = <<>>
      BY <1>2
    <3>2. SubSeq(e, 1, 0) = <<>>
      BY SubSeqEmpty
    <3>3. <<>> \o <<>> = <<>>
      OBVIOUS
    <3> HIDE DEF w
    <3> QED
      BY <1>3, <2>1, <3>1, <3>2, <3>3
  <2>2. CASE k \in 2..(l - 1)
    <3>1. k - 1 \in 1..(l - 1) /\ k \in 1..(l - 1)
      BY <1>2, <2>2
    <3>2. PICK a \in 0..n : a = off[k - 1]
      BY <1>2, <3>1
    <3>3. PICK b \in 0..n : b = off[k]
      BY <1>2, <3>1
    <3>4. w[k] = SubSeq(e, 1, b) /\ w[k - 1] = SubSeq(e, 1, a)
      <4>1. k \in 0..l /\ k # 0 /\ k # l /\ k - 1 \in 0..l /\ k - 1 # 0 /\ k - 1 # l
        BY <1>2, <3>1
      <4> QED
        BY <3>2, <3>3, <4>1
    <3>8. cell(k) = SubSeq(e, a + 1, b)
      BY <1>4, <2>2, <3>2, <3>3
    <3>5. a < b
      BY <1>2, <2>2, <3>2, <3>3
    <3>6. 1 \in 1..(Len(e) + 1) /\ a \in (1 - 1)..Len(e) /\ b \in a..Len(e)
      BY <1>1, <3>5 DEF n
    <3>7. SubSeq(e, 1, a) \o SubSeq(e, a + 1, b) = SubSeq(e, 1, b)
      BY <1>1, <3>6, ConcatAdjacentSubSeq
    <3> HIDE DEF w
    <3> QED
      BY <3>4, <3>7, <3>8
  <2>3. CASE k = l
    <3>1. w[l] = e /\ w[l - 1] = SubSeq(e, 1, n)
      <4>1. l \in 0..l /\ l # 0 /\ l - 1 \in 0..l /\ l - 1 # 0 /\ l - 1 # l /\ off[l - 1] = n
        BY <1>2
      <4> QED
        BY <4>1
    <3>2. SubSeq(e, 1, n) = e
      BY <1>1, SubSeqFull DEF n
    <3>3. e \o <<>> = e
      BY <1>1, ConcatEmptySeq
    <3> HIDE DEF w
    <3> QED
      BY <1>3, <2>3, <3>1, <3>2, <3>3
  <2>4. k = 1 \/ k = l \/ k \in 2..(l - 1)
    <3> HIDE DEF l
    <3> SUFFICES ASSUME k # 1, k # l PROVE k \in 2..(l - 1)
      OBVIOUS
    <3> QED
      BY <1>2
  <2> QED
    BY <2>1, <2>2, <2>3, <2>4
<1>6. Solves(w)
  <2>1. w = [k \in 0..l |-> w[k]] /\ w[0] = <<>>
    BY <1>2
  <2>2. \A k \in 0..l : k = 0 \/ k \in 1..l
    BY <1>2
  <2> HIDE DEF w
  <2>3. \A k \in 0..l : w[k] = IF k = 0 THEN <<>> ELSE w[k - 1] \o cell(k)
    BY <1>5, <2>1, <2>2
  <2> QED
    BY <2>1, <2>3
<1>7. Solves(upto)
  <2> HIDE DEF Solves
  <2> QED
    BY <1>6
<1> HIDE DEF upto
<1> DEFINE S == {k \in Nat : k <= l => upto[k] = w[k]}
<1>8. \A k \in Nat : k \in S
  <2>1. 0 \in S
    BY <1>2, <1>7
  <2>2. ASSUME NEW k \in Nat, k \in S
        PROVE  k + 1 \in S
    <3> SUFFICES ASSUME k + 1 <= l PROVE upto[k + 1] = w[k + 1]
      OBVIOUS
    <3>1. upto[k] = w[k]
      BY <1>2, <2>2
    <3>2. k + 1 \in 1..l /\ k + 1 \in 0..l /\ (k + 1) - 1 = k /\ k + 1 # 0
      BY <1>2
    <3>3. upto[k + 1] = upto[k] \o cell(k + 1)
      BY <1>7, <3>2
    <3>4. w[k + 1] = w[k] \o cell(k + 1)
      BY <1>5, <3>2
    <3> QED
      BY <3>1, <3>3, <3>4
  <2> HIDE DEF S
  <2> QED
    BY <2>1, <2>2, NatSetInduction
<1>9. upto[l] = e
  <2>1. upto[l] = w[l]
    <3> DEFINE IsSolved(k) == k <= l => upto[k] = w[k]
    <3>1. \A k \in Nat : IsSolved(k)
      BY <1>8
    <3>2. l \in Nat /\ l <= l
      BY <1>2
    <3>3. IsSolved(l)
      <4> HIDE DEF IsSolved, l
      <4> QED
        BY <3>1, <3>2
    <3> HIDE DEF w
    <3> QED
      BY <3>2, <3>3
  <2>2. w[l] = e
    BY <1>2
  <2> QED
    BY <2>1, <2>2
<1>10. Contents(f) = upto[l]
  BY DEF Contents, upto, cell
<1> QED
  BY <1>9, <1>10 DEF e

\* A finished file passes the checks of the frame, and all of its blocks are intact.
LEMMA FramedIsSound ==
  ASSUME NEW v \in Version, NEW st, NEW f, Finished(f, st, v)
  PROVE  /\ WellFramed(f) /\ f # <<>> /\ f[1] = Header(st)
         /\ \A i \in Blocks(f) : f[i].intact
         /\ Contents(f) = StableOrder(MessagesOf(v))
<1>1. PICK off \in [1..(Len(f) - 1) -> 0..Len(Entries(v))] : Framed(f, st, v, off)
  BY DEF Finished
<1>2. /\ f \in Seq(Cell) /\ Len(f) \in Nat /\ Len(f) >= 2
      /\ f[1] = Header(st) /\ f[Len(f)] = Footer(Len(Entries(v)))
      /\ Blocks(f) = 2..(Len(f) - 1)
      /\ \A i \in 2..(Len(f) - 1) : f[i].intact
  BY <1>1, FramedFile
<1>3. WellFramed(f)
  <2>1. MessageCount(f) = Len(Entries(v))
    BY <1>1, FramedCount
  <2>2. f[1].kind = "header"
    BY <1>2, Cells
  <2> QED
    BY <1>2, <2>1, <2>2 DEF WellFramed
<1>4. Contents(f) = StableOrder(MessagesOf(v))
  BY <1>1, FramedContents, Sorting
<1>5. f # <<>>
  BY <1>2, EmptySeq
<1> QED
  BY <1>2, <1>3, <1>4, <1>5

-----------------------------------------------------------------------------
(* What damage makes of a finished file.                                   *)

\* f is g with another cell i.
Differs(f, g, i) == Len(f) = Len(g) /\ \A j \in 1..Len(g) : j # i => f[j] = g[j]

LEMMA DamageForms ==
  ASSUME NEW v \in Version, NEW st, NEW g, NEW off, Framed(g, st, v, off), NEW f \in Damaged(g)
  PROVE  /\ f \in Seq(Cell)
         /\ \/ Len(f) < Len(g) /\ \A j \in 1..Len(f) : f[j] = g[j]
            \/ \E i \in 2..(Len(g) - 1) : Differs(f, g, i) /\ ~f[i].intact /\ f[i] # g[i]
            \/ Differs(f, g, 1) /\ f[1] = Header(NoVersion)
            \/ Differs(f, g, Len(g)) /\ f[Len(g)] = Footer(Len(Entries(v)) + 1)
            \/ Len(f) = Len(g) + 1 /\ \A j \in 1..Len(g) : f[j] = g[j]
<1>1. /\ g \in Seq(Cell) /\ Len(g) \in Nat /\ Len(g) >= 2 /\ DOMAIN g = 1..Len(g)
      /\ g[1] = Header(st) /\ g[Len(g)] = Footer(Len(Entries(v))) /\ Len(Entries(v)) \in Nat
      /\ Blocks(g) = 2..(Len(g) - 1)
      /\ \A i \in 2..(Len(g) - 1) : IsBlock(g[i]) /\ g[i].intact
      /\ \A i \in 1..Len(g) : g[i] \in Cell
  BY FramedFile, ElementOfSeq
<1>2. ASSUME NEW k \in 0..(Len(g) - 1), f = SubSeq(g, 1, k)
      PROVE  f \in Seq(Cell) /\ Len(f) < Len(g) /\ \A j \in 1..Len(f) : f[j] = g[j]
  <2>1. 1 \in Int /\ k \in Int /\ \A j \in 1..k : g[j] \in Cell
    BY <1>1
  <2>2. /\ f \in Seq(Cell) /\ Len(f) = IF 1 <= k THEN k - 1 + 1 ELSE 0
        /\ \A j \in 1..(k - 1 + 1) : f[j] = g[1 + j - 1]
    BY <1>2, <2>1, SubSeqProperties
  <2>3. Len(f) = k /\ \A j \in 1..k : j \in 1..(k - 1 + 1) /\ 1 + j - 1 = j
    BY <2>2
  <2>4. \A j \in 1..k : f[j] = g[j]
    BY <2>2, <2>3
  <2> QED
    BY <1>1, <2>2, <2>3, <2>4
<1>3. ASSUME NEW i \in Blocks(g), f = [g EXCEPT ![i].intact = FALSE]
      PROVE  f \in Seq(Cell) /\ i \in 2..(Len(g) - 1) /\ Differs(f, g, i) /\ ~f[i].intact /\ f[i] # g[i]
  <2>1. i \in 2..(Len(g) - 1) /\ i \in 1..Len(g) /\ IsBlock(g[i]) /\ g[i].intact /\ g[i] \in Cell
    BY <1>1
  <2>2. g[i] \in [kind : {"block"}, messages : Seq(Message), intact : BOOLEAN]
    BY <2>1 DEF IsBlock, Cell
  <2> DEFINE c == [g[i] EXCEPT !.intact = FALSE]
  <2>3. c \in Cell /\ ~c.intact
    BY <2>2 DEF Cell
  <2>4. f = [g EXCEPT ![i] = c]
    BY <1>3
  <2> HIDE DEF c
  <2>5. f \in Seq(Cell) /\ Len(f) = Len(g) /\ \A j \in 1..Len(g) : f[j] = IF j = i THEN c ELSE g[j]
    BY <1>1, <2>1, <2>3, <2>4, ExceptSeq
  <2>6. f[i] = c /\ \A j \in 1..Len(g) : j # i => f[j] = g[j]
    BY <2>1, <2>5
  <2> QED
    BY <2>1, <2>3, <2>5, <2>6 DEF Differs
<1>4. ASSUME NEW i \in DOMAIN g, g[i].kind = "header", f = [g EXCEPT ![i] = Header(NoVersion)]
      PROVE  f \in Seq(Cell) /\ Differs(f, g, 1) /\ f[1] = Header(NoVersion)
  <2>1. i = 1
    <3>1. g[Len(g)].kind = "footer" /\ \A j \in 2..(Len(g) - 1) : g[j].kind = "block"
      BY <1>1, Cells DEF IsBlock
    <3>2. i # Len(g) /\ i \notin 2..(Len(g) - 1)
      BY <1>4, <3>1
    <3> QED
      BY <1>1, <3>2
  <2> DEFINE c == Header(NoVersion)
  <2>2. c \in Cell /\ 1 \in 1..Len(g)
    BY <1>1, Cells
  <2> HIDE DEF c
  <2>3. f = [g EXCEPT ![1] = c]
    BY <1>4, <2>1 DEF c
  <2>4. f \in Seq(Cell) /\ Len(f) = Len(g) /\ \A j \in 1..Len(g) : f[j] = IF j = 1 THEN c ELSE g[j]
    BY <1>1, <2>2, <2>3, ExceptSeq
  <2>5. f[1] = c /\ \A j \in 1..Len(g) : j # 1 => f[j] = g[j]
    BY <2>2, <2>4
  <2> QED
    BY <2>4, <2>5 DEF Differs, c
<1>5. ASSUME NEW i \in DOMAIN g, g[i].kind = "footer", f = [g EXCEPT ![i] = Footer(@.count + 1)]
      PROVE  f \in Seq(Cell) /\ Differs(f, g, Len(g)) /\ f[Len(g)] = Footer(Len(Entries(v)) + 1)
  <2>1. i = Len(g)
    <3>1. g[1].kind = "header" /\ \A j \in 2..(Len(g) - 1) : g[j].kind = "block"
      BY <1>1, Cells DEF IsBlock
    <3>2. i # 1 /\ i \notin 2..(Len(g) - 1)
      BY <1>5, <3>1
    <3> QED
      BY <1>1, <3>2
  <2> DEFINE c == Footer(Len(Entries(v)) + 1)
  <2>2. c \in Cell /\ Len(g) \in 1..Len(g)
    <3>1. Len(Entries(v)) + 1 \in Nat
      BY <1>1
    <3> QED
      BY <1>1, <3>1, Cells
  <2>3. g[i].count = Len(Entries(v))
    BY <1>1, <2>1, Cells
  <2>4. f = [g EXCEPT ![Len(g)] = c]
    BY <1>5, <2>1, <2>3
  <2> HIDE DEF c
  <2>5. f \in Seq(Cell) /\ Len(f) = Len(g) /\ \A j \in 1..Len(g) : f[j] = IF j = Len(g) THEN c ELSE g[j]
    BY <1>1, <2>2, <2>4, ExceptSeq
  <2>6. f[Len(g)] = c /\ \A j \in 1..Len(g) : j # Len(g) => f[j] = g[j]
    BY <2>2, <2>5
  <2> QED
    BY <2>5, <2>6 DEF Differs, c
<1>6. ASSUME f = Append(g, Footer(0))
      PROVE  f \in Seq(Cell) /\ Len(f) = Len(g) + 1 /\ \A j \in 1..Len(g) : f[j] = g[j]
  <2>1. Footer(0) \in Cell
    BY Cells
  <2> QED
    BY <1>1, <1>6, <2>1, AppendProperties
<1>7. \/ \E k \in 0..(Len(g) - 1) : f = SubSeq(g, 1, k)
      \/ \E i \in Blocks(g) : f = [g EXCEPT ![i].intact = FALSE]
      \/ \E i \in DOMAIN g : g[i].kind = "header" /\ f = [g EXCEPT ![i] = Header(NoVersion)]
      \/ \E i \in DOMAIN g : g[i].kind = "footer" /\ f = [g EXCEPT ![i] = Footer(@.count + 1)]
      \/ f = Append(g, Footer(0))
  BY DEF Damaged
<1> QED
  BY <1>2, <1>3, <1>4, <1>5, <1>6, <1>7

\* A damaged file whose fingerprint is still that of a version has the one it had.
LEMMA DamagedStamp ==
  ASSUME NEW v \in Version, NEW st, NEW g, NEW off, Framed(g, st, v, off), NEW f \in Damaged(g),
         NEW s \in Version, f # <<>>, f[1] = Header(s)
  PROVE  s = st
<1>1. /\ Len(g) \in Nat /\ Len(g) >= 2 /\ g[1] = Header(st) /\ g[Len(g)] = Footer(Len(Entries(v)))
  BY FramedFile
<1>2. f \in Seq(Cell) /\ Len(f) \in Nat \ {0}
  BY DamageForms, EmptySeq, LenProperties
<1>3. f[1] = g[1] \/ f[1] = Header(NoVersion)
  <2>1. 1 \in 1..Len(f) /\ 1 \in 1..Len(g) /\ Len(g) # 1 /\ \A i \in 2..(Len(g) - 1) : i # 1
    BY <1>1, <1>2
  <2>2. CASE Len(f) < Len(g) /\ \A j \in 1..Len(f) : f[j] = g[j]
    BY <2>1, <2>2
  <2>3. CASE \E i \in 2..(Len(g) - 1) : Differs(f, g, i) /\ ~f[i].intact /\ f[i] # g[i]
    BY <2>1, <2>3 DEF Differs
  <2>4. CASE Differs(f, g, Len(g)) /\ f[Len(g)] = Footer(Len(Entries(v)) + 1)
    BY <2>1, <2>4 DEF Differs
  <2>5. CASE Len(f) = Len(g) + 1 /\ \A j \in 1..Len(g) : f[j] = g[j]
    BY <2>1, <2>5
  <2> QED
    BY <2>2, <2>3, <2>4, <2>5, DamageForms
<1>4. f[1] # Header(NoVersion)
  <2>1. s # NoVersion
    BY Messages
  <2> QED
    BY <2>1, Cells
<1>5. Header(s) = Header(st)
  BY <1>1, <1>3, <1>4
<1> QED
  BY <1>5, Cells

\* A reader that has passed intact cells goes on only to another one, and does not find the
\* end, in a file that is damaged but fresh.
LEMMA DamageIsFound ==
  ASSUME NEW v \in Version, NEW st, NEW g, NEW off, Framed(g, st, v, off), NEW f \in Damaged(g),
         NEW s \in Version, f[1] = Header(s),
         NEW c \in 2..Len(g), \A i \in 2..(c - 1) : i <= Len(f) /\ f[i] = g[i]
  PROVE  /\ c <= Len(f) /\ IsBlock(f[c]) /\ f[c].intact => c < Len(g) /\ f[c] = g[c]
         /\ ~(c = Len(f) /\ f[c] = Footer(off[c - 1]))
<1> DEFINE l == Len(g)
<1>1. /\ l \in Nat /\ l >= 2 /\ g[1] = Header(st) /\ g[l] = Footer(Len(Entries(v)))
      /\ off[l - 1] = Len(Entries(v)) /\ Len(Entries(v)) \in Nat
      /\ \A i \in 2..(l - 1) : IsBlock(g[i]) /\ g[i].intact
  BY FramedFile
<1>2. f \in Seq(Cell) /\ Len(f) \in Nat
  BY DamageForms, LenProperties
<1>3. c \in 1..l /\ (c = l \/ c \in 2..(l - 1)) /\ 1 \in 1..l
  BY <1>1
<1>4. ~IsBlock(g[l]) /\ \A i \in 2..(l - 1) : \A k : g[i] # Footer(k)
  BY <1>1, Cells
<1>5. CASE Len(f) < l /\ \A j \in 1..Len(f) : f[j] = g[j]
  <2>1. c <= Len(f) => c \in 2..(l - 1) /\ f[c] = g[c]
    BY <1>1, <1>2, <1>5
  <2> QED
    BY <1>1, <1>4, <2>1
<1>6. CASE \E i \in 2..(l - 1) : Differs(f, g, i) /\ ~f[i].intact /\ f[i] # g[i]
  <2>1. PICK i \in 2..(l - 1) : Differs(f, g, i) /\ ~f[i].intact /\ f[i] # g[i]
    BY <1>6
  <2>2. i \notin 2..(c - 1)
    BY <2>1
  <2>3. c <= i /\ c \in 2..(l - 1) /\ Len(f) = l
    BY <1>1, <2>1, <2>2 DEF Differs
  <2>4. c # i => f[c] = g[c]
    BY <1>3, <2>1 DEF Differs
  <2>5. c # Len(f)
    BY <1>1, <2>3
  <2> QED
    BY <1>1, <2>1, <2>3, <2>4, <2>5
<1>7. CASE Differs(f, g, 1) /\ f[1] = Header(NoVersion)
  <2>1. Header(s) = Header(NoVersion)
    BY <1>7
  <2>2. s = NoVersion
    BY <2>1, Cells
  <2> QED
    BY <2>2, Messages
<1>8. CASE Differs(f, g, l) /\ f[l] = Footer(Len(Entries(v)) + 1)
  <2>1. Len(f) = l /\ \A j \in 1..l : j # l => f[j] = g[j]
    BY <1>8 DEF Differs
  <2>2. IsBlock(f[c]) => c # l /\ f[c] = g[c]
    BY <1>3, <1>8, <2>1, Cells
  <2>3. c = l => f[c] # Footer(off[c - 1])
    BY <1>1, <1>8, Cells
  <2> QED
    BY <1>1, <1>3, <2>1, <2>2, <2>3
<1>9. CASE Len(f) = l + 1 /\ \A j \in 1..l : f[j] = g[j]
  <2>1. f[c] = g[c] /\ c # Len(f)
    BY <1>1, <1>3, <1>9
  <2> QED
    BY <1>1, <1>3, <1>4, <2>1
<1> QED
  BY <1>5, <1>6, <1>7, <1>8, <1>9, DamageForms

-----------------------------------------------------------------------------
(* The steps of the preparse keep the invariant.                           *)

LEMMA MrtFacts ==
  ASSUME NEW v \in Version
  PROVE  Mrt(v) \in Seq(Message) /\ Len(Mrt(v)) = Len(Content[v]) /\ Len(Content[v]) \in Nat
<1>1. Len(Content[v]) \in Nat /\ DOMAIN Content[v] = 1..Len(Content[v])
      /\ \A i \in 1..Len(Content[v]) : <<v, i>> \in Message
  BY Messages
<1>2. Mrt(v) \in [1..Len(Content[v]) -> Message]
  BY <1>1 DEF Mrt
<1> QED
  BY <1>1, <1>2, SeqDef, LenProperties

LEMMA StampsGrow ==
  ASSUME NEW m \in Version, NEW n \in Version, m <= n
  PROVE  \A v \in Version : Stamps(v, m) \subseteq Stamps(v, n)
BY Messages DEF Stamps

\* What a process reads of the files of others stays true when the source is replaced.
LEMMA ReadStays ==
  ASSUME ReadInv, UNCHANGED reader, source \in Version, source' \in Version, source <= source'
  PROVE  ReadInv'
<1>1. \A v \in Version : Stamps(v, source) \subseteq Stamps(v, source')
  BY StampsGrow
<1> QED
  BY <1>1, Zenon DEF ReadInv

LEMMA CacheStays ==
  ASSUME CacheInv, UNCHANGED <<cache, tampered>>, source \in Version, source' \in Version,
         source <= source'
  PROVE  CacheInv'
<1>1. \A v \in Version : Stamps(v, source) \subseteq Stamps(v, source')
  BY StampsGrow
<1> QED
  BY <1>1, Zenon DEF CacheInv

LEMMA FileTypes ==
  /\ \A v \in Version : \A st, f : Finished(f, st, v) => f \in Seq(Cell)
  /\ \A v \in Version : \A st, n, f : Growing(f, st, v, n) => f \in Seq(Cell)
BY DEF Finished, Framed, Growing, Laid

\* The fields of the builder.
Builder == [pc : BuilderLabel, stamp : Version \cup {NoVersion},
            parsed : Version \cup {NoVersion}, taken : Nat, entries : Seq(Message), written : Nat]

LEMMA BuilderFields ==
  ASSUME builder \in Builder
  PROVE  /\ builder.pc \in BuilderLabel /\ builder.stamp \in Version \cup {NoVersion}
         /\ builder.parsed \in Version \cup {NoVersion} /\ builder.taken \in Nat
         /\ builder.entries \in Seq(Message) /\ builder.written \in Nat
         /\ \A p \in BuilderLabel : [builder EXCEPT !.pc = p] \in Builder
         /\ NoBuilder \in Builder
BY EmptySeq, Messages DEF Builder, NoBuilder, BuilderLabel, NoVersion

LEMMA IdleSteps ==
  ASSUME TypeOK, BuildInv, CheckCache \/ Restart
  PROVE  builder' \in Builder /\ BuildInv'
<1>1. builder \in Builder
  BY DEF TypeOK, Builder
<1>2. CASE CheckCache
  <2>1. builder = NoBuilder /\ (\/ builder' = [builder EXCEPT !.pc = "reused"]
                                \/ builder' = [builder EXCEPT !.pc = "create"])
    BY <1>2 DEF CheckCache, BuildInv
  <2>2. builder' \in Builder
    BY <1>1, <2>1, BuilderFields DEF BuilderLabel
  <2>3. builder'.pc \in {"reused", "create"}
    BY <1>1, <2>1 DEF Builder
  <2> QED
    BY <2>1, <2>2, <2>3 DEF BuildInv
<1>3. CASE Restart
  <2>1. builder' = NoBuilder /\ NoBuilder.pc = "idle"
    BY <1>3 DEF Restart, NoBuilder
  <2> QED
    BY <1>1, <2>1, BuilderFields DEF BuildInv
<1> QED
  BY <1>2, <1>3

LEMMA OpeningSteps ==
  ASSUME TypeOK, BuildInv, CreateWriter \/ OpenSource
  PROVE  /\ builder' \in Builder /\ part' \in CacheFile /\ spool' \in Seq(Message) \cup {NoFile}
         /\ BuildInv'
<1>1. builder \in Builder /\ source \in Version
  BY DEF TypeOK, Builder
<1>2. CASE CreateWriter
  <2>1. /\ builder = [NoBuilder EXCEPT !.pc = "create"]
        /\ builder' = [builder EXCEPT !.pc = "open", !.stamp = source]
        /\ part' = <<Header(source)>> /\ UNCHANGED <<spool, source>>
    BY <1>2 DEF CreateWriter, BuildInv, Truncated
  <2>2. /\ builder'.pc = "open" /\ builder'.stamp = source /\ builder'.taken = 0
        /\ builder'.written = 0
    BY <2>1 DEF NoBuilder
  <2>3. builder' \in Builder
    BY <1>1, <2>1 DEF Builder, BuilderLabel
  <2>4. part' \in CacheFile
    BY <1>1, <2>1, Cells DEF CacheFile
  <2>5. source <= source
    BY <1>1, Messages
  <2> QED
    BY <1>1, <2>1, <2>2, <2>3, <2>4, <2>5 DEF BuildInv, TypeOK
<1>3. CASE OpenSource
  <2>1. /\ builder.pc = "open" /\ builder' = [builder EXCEPT !.pc = "parse", !.parsed = source]
        /\ spool' = <<>> /\ UNCHANGED <<part, source>>
    BY <1>3 DEF OpenSource, Truncated
  <2>2. /\ builder'.pc = "parse" /\ builder'.stamp = builder.stamp /\ builder'.parsed = source
        /\ builder'.taken = 0 /\ builder'.written = 0
    BY <1>1, <2>1 DEF BuildInv, Builder
  <2>3. builder' \in Builder
    BY <1>1, <2>1 DEF Builder, BuilderLabel
  <2>4. spool' = SubSeq(Mrt(source), 1, 0) /\ spool' \in Seq(Message)
    BY <2>1, SubSeqEmpty, EmptySeq
  <2>5. builder.stamp \in Stamps(source, source) /\ builder.stamp \in Version /\ builder.stamp <= source
    BY <1>1, <2>1, Messages DEF Stamps, BuildInv
  <2>6. 0 <= Len(Content[source])
    BY <1>1, Messages
  <2>7. part' = NoFile \/ part' = <<Header(builder'.stamp)>>
    BY <2>1, <2>2 DEF BuildInv
  <2> QED
    BY <1>1, <2>1, <2>2, <2>3, <2>4, <2>5, <2>6, <2>7 DEF BuildInv, TypeOK
<1> QED
  BY <1>2, <1>3

LEMMA ParseBatchKeeps ==
  ASSUME TypeOK, BuildInv, ParseBatch
  PROVE  builder' \in Builder /\ spool' \in Seq(Message) \cup {NoFile} /\ BuildInv'
<1> DEFINE v == builder.parsed
           n == builder.taken
           batch == Piece(Mrt(v), n + 1, BlockSize)
<1>1. /\ builder \in Builder /\ source \in Version /\ builder.pc = "parse" /\ v \in Version
      /\ n \in Nat /\ n < Len(Content[v])
      /\ builder' = [builder EXCEPT !.taken = @ + Len(batch)]
      /\ spool' = Written(spool, batch) /\ UNCHANGED <<source, part>>
      /\ spool \in Seq(Message) \cup {NoFile}
  BY DEF TypeOK, Builder, ParseBatch, BuildInv, Mrt
<1>2. Mrt(v) \in Seq(Message) /\ Len(Mrt(v)) = Len(Content[v]) /\ Len(Content[v]) \in Nat
  BY <1>1, MrtFacts
<1>3. /\ batch \in Seq(Message) /\ Len(batch) \in Nat /\ n + Len(batch) <= Len(Mrt(v))
      /\ batch = SubSeq(Mrt(v), n + 1, n + Len(batch))
  BY <1>1, <1>2, NextPiece
<1> HIDE DEF batch
<1>4. spool = NoFile \/ spool = SubSeq(Mrt(v), 1, n)
  BY <1>1 DEF BuildInv
<1>5. spool' = NoFile \/ spool' = SubSeq(Mrt(v), 1, n + Len(batch))
  <2> SUFFICES ASSUME spool # NoFile PROVE spool' = SubSeq(Mrt(v), 1, n + Len(batch))
    BY <1>1 DEF Written
  <2>1. spool' = SubSeq(Mrt(v), 1, n) \o SubSeq(Mrt(v), n + 1, n + Len(batch))
    BY <1>1, <1>3, <1>4 DEF Written
  <2>2. /\ 1 \in 1..(Len(Mrt(v)) + 1) /\ n \in (1 - 1)..Len(Mrt(v))
        /\ n + Len(batch) \in n..Len(Mrt(v))
    BY <1>1, <1>2, <1>3, SMTT(40)
  <2> QED
    BY <1>2, <2>1, <2>2, ConcatAdjacentSubSeq
<1>6. spool' \in Seq(Message) \cup {NoFile}
  BY <1>1, <1>3, ConcatProperties DEF Written
<1>7. /\ builder' \in Builder
      /\ builder'.pc = "parse" /\ builder'.stamp = builder.stamp /\ builder'.parsed = v
      /\ builder'.taken = n + Len(batch) /\ builder'.written = builder.written
  <2> DEFINE t == n + Len(batch)
  <2>1. t \in Nat /\ builder' = [builder EXCEPT !.taken = t] /\ builder \in Builder
    BY <1>1, <1>3 DEF Builder
  <2> HIDE DEF t
  <2>2. builder' \in Builder /\ builder'.pc = builder.pc /\ builder'.stamp = builder.stamp
        /\ builder'.parsed = builder.parsed /\ builder'.taken = t /\ builder'.written = builder.written
    BY <2>1 DEF Builder
  <2> QED
    BY <1>1, <2>2 DEF t
<1>8. /\ builder.stamp \in Version /\ builder.stamp <= source /\ builder.written = 0
      /\ builder.stamp \in Stamps(v, source) /\ (part = NoFile \/ part = <<Header(builder.stamp)>>)
  BY <1>1 DEF BuildInv
<1>9. n + Len(batch) <= Len(Content[v])
  BY <1>2, <1>3
<1> QED
  BY <1>1, <1>5, <1>6, <1>7, <1>8, <1>9 DEF BuildInv

LEMMA SortSpoolKeeps ==
  ASSUME TypeOK, BuildInv, SortSpool
  PROVE  builder' \in Builder /\ BuildInv'
<1> DEFINE v == builder.parsed
<1>1. /\ builder \in Builder /\ source \in Version /\ builder.pc = "parse" /\ v \in Version
      /\ builder.taken = Len(Content[v]) /\ spool # NoFile
      /\ builder' = [builder EXCEPT !.pc = "write", !.entries = Sorted(spool)]
      /\ UNCHANGED <<source, part>>
  BY DEF TypeOK, Builder, SortSpool, BuildInv, SpoolIntact, files
<1>2. /\ builder.stamp \in Version /\ builder.stamp <= source /\ builder.written = 0
      /\ builder.stamp \in Stamps(v, source) /\ (part = NoFile \/ part = <<Header(builder.stamp)>>)
      /\ spool = SubSeq(Mrt(v), 1, Len(Content[v]))
  BY <1>1 DEF BuildInv
<1>3. Sorted(spool) = Entries(v)
  BY <1>1, <1>2, MrtFacts, SubSeqFull DEF Entries
<1>4. Entries(v) \in Seq(Message) /\ 0 <= Len(Entries(v))
  BY <1>1, Sorting, LenProperties
<1>5. /\ builder' \in Builder
      /\ builder'.pc = "write" /\ builder'.stamp = builder.stamp /\ builder'.parsed = v
      /\ builder'.entries = Entries(v) /\ builder'.written = 0
  <2> DEFINE e == Entries(v)
  <2>1. builder' = [builder EXCEPT !.pc = "write", !.entries = e] /\ e \in Seq(Message)
    BY <1>1, <1>3, <1>4
  <2> HIDE DEF e
  <2>2. builder' \in Builder /\ builder'.pc = "write" /\ builder'.stamp = builder.stamp
        /\ builder'.parsed = builder.parsed /\ builder'.entries = e /\ builder'.written = builder.written
    BY <1>1, <2>1 DEF Builder, BuilderLabel
  <2> QED
    BY <1>2, <2>2 DEF e
<1>6. part = NoFile \/ Growing(part, builder.stamp, v, 0)
  BY <1>1, <1>2, FirstCell
<1> QED
  BY <1>1, <1>2, <1>4, <1>5, <1>6 DEF BuildInv

LEMMA WriteBlockKeeps ==
  ASSUME TypeOK, BuildInv, WriteBlock
  PROVE  builder' \in Builder /\ part' \in CacheFile /\ BuildInv'
<1> DEFINE v == builder.parsed
           e == Entries(v)
           n == builder.written
           piece == Piece(e, n + 1, BlockSize)
           m == n + Len(piece)
<1>1. /\ builder \in Builder /\ source \in Version /\ builder.pc = "write" /\ v \in Version
      /\ n \in Nat /\ builder.entries = e /\ n <= Len(e) /\ n # Len(e)
      /\ builder' = [builder EXCEPT !.written = @ + Len(piece)]
      /\ part' = Written(part, <<Block(piece)>>) /\ UNCHANGED <<source, spool>>
      /\ part \in CacheFile
  BY DEF TypeOK, Builder, WriteBlock, BuildInv, AllWritten
<1>2. e \in Seq(Message) /\ Len(e) \in Nat
  BY <1>1, Sorting, LenProperties
<1> HIDE DEF e
<1>3. /\ piece \in Seq(Message) /\ m \in Nat /\ n < m /\ m <= Len(e)
      /\ piece = SubSeq(e, n + 1, m)
  <2>1. n < Len(e)
    BY <1>1, <1>2
  <2>2. /\ piece \in Seq(Message) /\ Len(piece) \in Nat /\ n < n + Len(piece)
        /\ n + Len(piece) <= Len(e) /\ piece = SubSeq(e, n + 1, n + Len(piece))
    BY <1>1, <1>2, <2>1, NextPiece
  <2> QED
    BY <1>1, <2>2
<1> HIDE DEF piece, m
<1>4. /\ builder.stamp \in Version /\ builder.stamp <= source
      /\ builder.stamp \in Stamps(v, source)
      /\ (part = NoFile \/ Growing(part, builder.stamp, v, n))
  BY <1>1 DEF BuildInv
<1>5. part' = NoFile \/ Growing(part', builder.stamp, v, m)
  <2> SUFFICES ASSUME part # NoFile PROVE Growing(part', builder.stamp, v, m)
    BY <1>1 DEF Written
  <2>1. part' = part \o <<Block(SubSeq(e, n + 1, m))>> /\ Growing(part, builder.stamp, v, n)
    BY <1>1, <1>3, <1>4 DEF Written
  <2>2. Growing(part \o <<Block(SubSeq(e, n + 1, m))>>, builder.stamp, v, m)
    BY <1>1, <1>3, <1>4, <2>1, NextBlock DEF e
  <2> QED
    BY <2>1, <2>2
<1>6. part' \in CacheFile
  BY <1>1, <1>5, FileTypes DEF CacheFile
<1>7. /\ builder' \in Builder
      /\ builder'.pc = "write" /\ builder'.stamp = builder.stamp /\ builder'.parsed = v
      /\ builder'.written = m /\ builder'.entries = e
  <2>1. builder' = [builder EXCEPT !.written = m]
    BY <1>1 DEF m, Builder
  <2>2. builder' \in Builder /\ builder'.pc = builder.pc /\ builder'.stamp = builder.stamp
        /\ builder'.parsed = builder.parsed /\ builder'.entries = builder.entries /\ builder'.written = m
    BY <1>1, <1>3, <2>1 DEF Builder
  <2> QED
    BY <1>1, <2>2
<1> QED
  BY <1>1, <1>3, <1>4, <1>5, <1>6, <1>7 DEF BuildInv, e

LEMMA WriteFooterKeeps ==
  ASSUME TypeOK, BuildInv, WriteFooter
  PROVE  builder' \in Builder /\ part' \in CacheFile /\ BuildInv'
<1> DEFINE v == builder.parsed
           n == Len(Entries(v))
<1>1. /\ builder \in Builder /\ source \in Version /\ builder.pc = "write" /\ v \in Version
      /\ builder.entries = Entries(v) /\ builder.written = n
      /\ builder' = [builder EXCEPT !.pc = "rename"]
      /\ part' = Written(part, <<Footer(n)>>) /\ UNCHANGED <<source, spool>>
      /\ part \in CacheFile
  BY DEF TypeOK, Builder, WriteFooter, BuildInv, AllWritten
<1>2. /\ builder.stamp \in Version /\ builder.stamp <= source
      /\ builder.stamp \in Stamps(v, source)
      /\ (part = NoFile \/ Growing(part, builder.stamp, v, n))
  BY <1>1 DEF BuildInv
<1>3. part' = NoFile \/ Finished(part', builder.stamp, v)
  BY <1>1, <1>2, LastCell DEF Written
<1>4. part' \in CacheFile
  BY <1>1, <1>3, FileTypes DEF CacheFile
<1>5. /\ builder' \in Builder
      /\ builder'.pc = "rename" /\ builder'.stamp = builder.stamp /\ builder'.parsed = v
      /\ builder'.entries = Entries(v)
  BY <1>1 DEF Builder, BuilderLabel
<1> QED
  BY <1>1, <1>2, <1>3, <1>4, <1>5 DEF BuildInv

LEMMA PublishKeeps ==
  ASSUME TypeOK, BuildInv, Publish
  PROVE  builder' \in Builder /\ cache' \in CacheFile /\ part' \in CacheFile /\ BuildInv' /\ CacheInv'
<1> DEFINE v == builder.parsed
<1>1. /\ builder \in Builder /\ source \in Version /\ builder.pc = "rename" /\ v \in Version
      /\ builder.stamp \in Stamps(v, source) /\ Finished(part, builder.stamp, v)
      /\ builder' = [builder EXCEPT !.pc = "inspect"]
      /\ cache' = part /\ part' = NoFile /\ tampered' = FALSE /\ UNCHANGED source
      /\ part \in CacheFile
  BY DEF TypeOK, Builder, Publish, BuildInv, Published
<1>2. builder' \in Builder /\ builder'.pc = "inspect"
  BY <1>1 DEF Builder, BuilderLabel
<1>3. CacheInv'
  BY <1>1 DEF CacheInv
<1> QED
  BY <1>1, <1>2, <1>3 DEF BuildInv, CacheFile

\* Whatever ends a generation leaves nothing to rely on.
LEMMA EndingSteps ==
  ASSUME TypeOK, InspectBuilt \/ LoseFile \/ FailBuild \/ Crash
  PROVE  /\ builder' \in Builder /\ part' \in CacheFile /\ spool' \in Seq(Message) \cup {NoFile}
         /\ troubles' \in 0..MaxTroubles /\ BuildInv'
<1>1. /\ builder \in Builder /\ part \in CacheFile /\ spool \in Seq(Message) \cup {NoFile}
      /\ troubles \in 0..MaxTroubles /\ MaxTroubles \in Nat
  BY ConstantsOK DEF TypeOK, Builder
<1>2. /\ builder' = NoBuilder \/ \E p \in {"built", "failed"} : builder' = [builder EXCEPT !.pc = p]
      /\ spool' = spool \/ spool' = NoFile
      /\ troubles' = troubles \/ (troubles < MaxTroubles /\ troubles' = troubles + 1)
  BY DEF InspectBuilt, LoseFile, FailBuild, Crash, Trouble
<1>3. builder' \in Builder /\ (builder' = NoBuilder \/ builder'.pc \in {"built", "failed"})
  <2>1. ASSUME NEW p \in {"built", "failed"}, builder' = [builder EXCEPT !.pc = p]
        PROVE  builder' \in Builder /\ builder'.pc \in {"built", "failed"}
    BY <1>1, <2>1 DEF Builder, BuilderLabel
  <2>2. NoBuilder \in Builder
    BY <1>1, BuilderFields
  <2> QED
    BY <1>2, <2>1, <2>2
<1>4. part' \in CacheFile
  <2>1. part' = part \/ (part # NoFile /\ \E k \in 0..Len(part) : part' = SubSeq(part, 1, k))
    BY DEF InspectBuilt, LoseFile, FailBuild, Crash
  <2>2. ASSUME part # NoFile, NEW k \in 0..Len(part), part' = SubSeq(part, 1, k)
        PROVE  part' \in Seq(Cell)
    <3>1. part \in Seq(Cell) /\ Len(part) \in Nat
      BY <1>1, <2>2, LenProperties DEF CacheFile
    <3>2. 1 \in Int /\ k \in Int /\ \A i \in 1..k : part[i] \in Cell
      BY <3>1, ElementOfSeq
    <3> QED
      BY <2>2, <3>2, SubSeqProperties
  <2> QED
    BY <1>1, <2>1, <2>2 DEF CacheFile
<1>5. BuildInv'
  <2>1. NoBuilder.pc = "idle"
    BY DEF NoBuilder
  <2> QED
    BY <1>3, <2>1 DEF BuildInv
<1> QED
  BY <1>1, <1>2, <1>3, <1>4, <1>5

\* The environment: a new source, damage, clearing.
LEMMA EnvironmentSteps ==
  ASSUME TypeOK, CacheInv, BuildInv, ReplaceSource \/ Damage \/ ClearCache
  PROVE  /\ source' \in Version /\ source <= source'
         /\ cache' \in CacheFile /\ part' \in CacheFile /\ spool' \in Seq(Message) \cup {NoFile}
         /\ tampered' \in BOOLEAN /\ troubles' \in 0..MaxTroubles
         /\ CacheInv' /\ BuildInv'
<1>1. /\ builder \in Builder /\ source \in Version /\ tampered \in BOOLEAN
      /\ cache \in CacheFile /\ part \in CacheFile /\ spool \in Seq(Message) \cup {NoFile}
      /\ troubles \in 0..MaxTroubles /\ MaxTroubles \in Nat
  BY ConstantsOK DEF TypeOK, Builder
<1>2. Version = 1..Len(Content) /\ Len(Content) \in Nat
  BY Messages
<1>3. CASE ReplaceSource
  <2>1. source' = source + 1 /\ source < Len(Content)
        /\ UNCHANGED <<cache, part, spool, builder, reader, tampered, troubles>>
    BY <1>3 DEF ReplaceSource, files
  <2>2. source' \in Version /\ source <= source'
    BY <1>1, <1>2, <2>1
  <2>3. CacheInv'
    BY <1>1, <2>1, <2>2, CacheStays
  <2>4. BuildInv'
    <3>1. \A v \in Version : Stamps(v, source) \subseteq Stamps(v, source')
      BY <1>1, <2>2, StampsGrow
    <3>2. \A st \in Version : st <= source => st <= source'
      BY <1>1, <1>2, <2>1
    <3> QED
      BY <2>1, <3>1, <3>2 DEF BuildInv
  <2> QED
    BY <1>1, <2>1, <2>2, <2>3, <2>4
<1>4. CASE Damage
  <2>1. /\ cache # NoFile /\ ~tampered /\ cache' \in Damaged(cache) /\ tampered' = TRUE
        /\ UNCHANGED <<source, part, spool, builder, reader>>
        /\ troubles < MaxTroubles /\ troubles' = troubles + 1
    BY <1>4 DEF Damage, Trouble
  <2>2. PICK v \in Version : \E st \in Stamps(v, source) : Finished(cache, st, v)
    BY <2>1 DEF CacheInv
  <2>3. PICK st \in Stamps(v, source) : Finished(cache, st, v)
    BY <2>2
  <2>4. cache \in Seq(Cell)
    BY <2>3, FileTypes
  <2>5. CacheInv'
    BY <2>1, <2>3, <2>4 DEF CacheInv
  <2>6. cache' \in CacheFile
    <3>1. PICK off : Framed(cache, st, v, off)
      BY <2>3 DEF Finished
    <3>2. cache' \in Seq(Cell)
      BY <2>1, <3>1, DamageForms
    <3> QED
      BY <3>2 DEF CacheFile
  <2>7. BuildInv'
    BY <2>1 DEF BuildInv
  <2>8. source <= source /\ troubles' \in 0..MaxTroubles
    BY <1>1, <1>2, <2>1
  <2> QED
    BY <1>1, <2>1, <2>5, <2>6, <2>7, <2>8
<1>5. CASE ClearCache
  <2>1. /\ cache' = NoFile /\ part' = NoFile /\ spool' = NoFile /\ tampered' = FALSE
        /\ UNCHANGED <<source, builder, reader>>
        /\ troubles < MaxTroubles /\ troubles' = troubles + 1
    BY <1>5 DEF ClearCache, Trouble
  <2>2. CacheInv'
    BY <2>1 DEF CacheInv
  <2>3. BuildInv'
    BY <2>1 DEF BuildInv
  <2>4. source <= source /\ troubles' \in 0..MaxTroubles
    BY <1>1, <1>2, <2>1
  <2> QED
    BY <1>1, <2>1, <2>2, <2>3, <2>4 DEF CacheFile
<1> QED
  BY <1>3, <1>4, <1>5

\* Everybody but the reader.
LEMMA OthersKeep ==
  ASSUME Inv, BuilderStep \/ Environment
  PROVE  Inv'
<1>1. TypeOK /\ CacheInv /\ BuildInv /\ ReadInv /\ source \in Version /\ source <= source
  BY Messages DEF Inv, TypeOK
<1>2. UNCHANGED reader
  BY DEF BuilderStep, Environment, CheckCache, CreateWriter, OpenSource, ParseBatch, SortSpool,
         WriteBlock, WriteFooter, Publish, InspectBuilt, LoseFile, Restart, ReplaceSource, Damage,
         ClearCache, FailBuild, Crash
<1>3. CASE ReplaceSource \/ Damage \/ ClearCache
  <2>1. /\ source' \in Version /\ source <= source'
        /\ cache' \in CacheFile /\ part' \in CacheFile /\ spool' \in Seq(Message) \cup {NoFile}
        /\ tampered' \in BOOLEAN /\ troubles' \in 0..MaxTroubles /\ CacheInv' /\ BuildInv'
    BY <1>1, <1>3, EnvironmentSteps
  <2>2. UNCHANGED builder
    BY <1>3 DEF ReplaceSource, Damage, ClearCache
  <2>3. ReadInv'
    BY <1>1, <1>2, <2>1, ReadStays
  <2>4. TypeOK'
    BY <1>1, <1>2, <2>1, <2>2 DEF TypeOK
  <2> QED
    BY <2>1, <2>3, <2>4 DEF Inv
<1>4. CASE ~(ReplaceSource \/ Damage \/ ClearCache)
  <2>1. UNCHANGED source
    BY <1>4 DEF BuilderStep, Environment, CheckCache, CreateWriter, OpenSource, ParseBatch,
                SortSpool, WriteBlock, WriteFooter, Publish, InspectBuilt, LoseFile, Restart,
                FailBuild, Crash
  <2>2. ReadInv'
    BY <1>1, <1>2, <2>1, ReadStays
  <2>3. CASE Publish
    <3>1. builder' \in Builder /\ cache' \in CacheFile /\ part' \in CacheFile /\ BuildInv' /\ CacheInv'
      BY <1>1, <2>3, PublishKeeps
    <3>2. UNCHANGED <<spool, troubles>> /\ tampered' = FALSE
      BY <2>3 DEF Publish
    <3>3. TypeOK'
      BY <1>1, <1>2, <2>1, <3>1, <3>2 DEF TypeOK, Builder
    <3> QED
      BY <2>2, <3>1, <3>3 DEF Inv
  <2>4. CASE ~Publish
    <3>1. UNCHANGED <<cache, tampered>>
      BY <1>4, <2>4 DEF BuilderStep, Environment, CheckCache, CreateWriter, OpenSource, ParseBatch,
                SortSpool, WriteBlock, WriteFooter, InspectBuilt, LoseFile, Restart, FailBuild,
                Crash, files
    <3>2. CacheInv'
      BY <1>1, <2>1, <3>1, CacheStays
    <3>3. /\ builder' \in Builder /\ part' \in CacheFile /\ spool' \in Seq(Message) \cup {NoFile}
          /\ troubles' \in 0..MaxTroubles /\ BuildInv'
      <4>1. /\ part \in CacheFile /\ spool \in Seq(Message) \cup {NoFile}
            /\ troubles \in 0..MaxTroubles
        BY <1>1 DEF TypeOK
      <4>2. CASE CheckCache \/ Restart
        BY <1>1, <4>1, <4>2, IdleSteps DEF CheckCache, Restart, files
      <4>3. CASE CreateWriter \/ OpenSource
        BY <1>1, <4>1, <4>3, OpeningSteps DEF CreateWriter, OpenSource
      <4>4. CASE ParseBatch
        BY <1>1, <4>1, <4>4, ParseBatchKeeps DEF ParseBatch
      <4>5. CASE SortSpool
        BY <1>1, <4>1, <4>5, SortSpoolKeeps DEF SortSpool, files
      <4>6. CASE WriteBlock
        BY <1>1, <4>1, <4>6, WriteBlockKeeps DEF WriteBlock
      <4>7. CASE WriteFooter
        BY <1>1, <4>1, <4>7, WriteFooterKeeps DEF WriteFooter
      <4>8. CASE InspectBuilt \/ LoseFile \/ FailBuild \/ Crash
        BY <1>1, <4>8, EndingSteps
      <4> QED
        BY <1>4, <2>4, <4>2, <4>3, <4>4, <4>5, <4>6, <4>7, <4>8 DEF BuilderStep, Environment
    <3>4. TypeOK'
      BY <1>1, <1>2, <2>1, <3>1, <3>3 DEF TypeOK, Builder
    <3> QED
      BY <2>2, <3>2, <3>3, <3>4 DEF Inv
  <2> QED
    BY <2>3, <2>4
<1> QED
  BY <1>3, <1>4

-----------------------------------------------------------------------------
(* The steps of the reader keep the invariant.                             *)

\* Full batches add up to full batches.
LEMMA WholeBatches ==
  ASSUME NEW b \in Nat \ {0}, NEW n \in Nat, n % b = 0
  PROVE  (n + b) % b = 0 /\ 0 % b = 0
<1> DEFINE S == {k \in Nat : \E q \in Nat : \E r \in 0..(b - 1) : k = b * q + r}
<1>1. 0 \in S
  <2>1. 0 \in Nat /\ 0 \in 0..(b - 1) /\ 0 = b * 0 + 0
    OBVIOUS
  <2> QED
    BY <2>1
<1>2. ASSUME NEW k \in Nat, k \in S
      PROVE  k + 1 \in S
  <2>1. PICK q \in Nat : \E r \in 0..(b - 1) : k = b * q + r
    BY <1>2
  <2>2. PICK r \in 0..(b - 1) : k = b * q + r
    BY <2>1
  <2>3. CASE r + 1 < b
    <3>1. r + 1 \in 0..(b - 1) /\ k + 1 = b * q + (r + 1)
      BY <2>2, <2>3
    <3> QED
      BY <3>1
  <2>4. CASE r + 1 = b
    <3> DEFINE p == q + 1
    <3>1. p \in Nat /\ 0 \in 0..(b - 1) /\ k + 1 = b * p + 0
      BY <2>2, <2>4
    <3> HIDE DEF p
    <3> QED
      BY <3>1
  <2> QED
    BY <2>3, <2>4
<1> HIDE DEF S
<1>3. n \in S
  BY <1>1, <1>2, NatSetInduction
<1>4. PICK q \in Nat : \E r \in 0..(b - 1) : n = b * q + r
  BY <1>3 DEF S
<1>5. PICK r \in 0..(b - 1) : n = b * q + r
  BY <1>4
<1>6. r = 0
  <2>1. n % b = r
    BY <1>5
  <2> QED
    BY <2>1
<1>7. n + b = b * (q + 1)
  BY <1>5, <1>6
<1>8. q + 1 \in Nat /\ (b * (q + 1)) % b = 0 /\ 0 % b = 0
  OBVIOUS
<1> QED
  BY <1>7, <1>8

Reader ==
  [pc : ReaderLabel, file : Seq(Cell), range : [start : Int, end : Int],
   checked : Version \cup {NoVersion}, sound : BOOLEAN, cell : Nat \ {0},
   next : Nat \ {0}, seen : Nat, previous : Nat \cup {NoTime},
   batch : Seq(Message), delivered : Seq(Message)]

With(b, m, in) == IF in THEN Append(b, m) ELSE b
Extended(d, v, n, range) == With(d, Entries(v)[n + 1], InRange(range, Entries(v)[n + 1]))

\* One more message of a version, handed on if it is in the range.
LEMMA OneMore ==
  ASSUME NEW v \in Version, NEW n \in Nat, n < Len(Entries(v)), NEW range,
         NEW d \in Seq(Message), Selects(d, v, n, range)
  PROVE  Selects(Extended(d, v, n, range), v, n + 1, range)
<1> DEFINE e == Entries(v)
           In(m) == InRange(range, m)
           c == Extended(d, v, n, range)
<1>0. c = IF InRange(range, Entries(v)[n + 1]) THEN Append(d, Entries(v)[n + 1]) ELSE d
  BY DEF Extended, With
<1> SUFFICES /\ Ascending(c)
             /\ \A i \in 1..Len(c) : \E j \in 1..(n + 1) : c[i] = e[j] /\ In(e[j])
             /\ \A j \in 1..(n + 1) : In(e[j]) => \E i \in 1..Len(c) : c[i] = e[j]
  BY DEF Selects
<1>ascends. Ascending(d)
  BY DEF Selects
<1> HIDE DEF c
<1>1. /\ e \in Seq(Message) /\ Len(e) \in Nat /\ DOMAIN e = 1..Len(e) /\ Ascending(e)
      /\ \A j \in 1..Len(e) : e[j] \in Message
  BY Sorting, LenProperties, ElementOfSeq
<1>2. Len(d) \in Nat /\ DOMAIN d = 1..Len(d) /\ \A i \in 1..Len(d) : d[i] \in Message
  BY LenProperties, ElementOfSeq
<1> HIDE DEF e, In
<1>3. \A i \in 1..Len(d) : \E j \in 1..n : d[i] = e[j] /\ In(e[j])
  BY DEF e, In, Selects
<1>4. \A j \in 1..n : In(e[j]) => \E i \in 1..Len(d) : d[i] = e[j]
  BY DEF e, In, Selects
<1>5. n + 1 \in 1..Len(e) /\ \A j \in 1..(n + 1) : j \in 1..n \/ j = n + 1
  BY <1>1 DEF e
<1>6. CASE ~In(e[n + 1])
  <2>1. c = d
    BY <1>0, <1>6 DEF e, In
  <2>2. \A i \in 1..Len(d) : \E j \in 1..(n + 1) : d[i] = e[j] /\ In(e[j])
    <3>1. \A j \in 1..n : j \in 1..(n + 1)
      OBVIOUS
    <3> QED
      BY <1>3, <3>1
  <2>3. \A j \in 1..(n + 1) : In(e[j]) => \E i \in 1..Len(d) : d[i] = e[j]
    BY <1>4, <1>5, <1>6
  <2> QED
    BY <1>ascends, <2>1, <2>2, <2>3
<1>7. CASE In(e[n + 1])
  <2> DEFINE m == e[n + 1]
  <2>1. c = Append(d, m) /\ m \in Message
    BY <1>0, <1>1, <1>5, <1>7 DEF e, In
  <2>2. /\ c \in Seq(Message) /\ Len(c) = Len(d) + 1
        /\ \A i \in 1..Len(d) : c[i] = d[i]
        /\ c[Len(d) + 1] = m
    BY <2>1, AppendProperties
  <2>3. \A i \in 1..Len(c) : i \in 1..Len(d) \/ i = Len(d) + 1
    BY <1>2, <2>2
  <2>4. \A i \in 1..Len(c) : \E j \in 1..(n + 1) : c[i] = e[j] /\ In(e[j])
    <3>1. n + 1 \in 1..(n + 1) /\ \A j \in 1..n : j \in 1..(n + 1)
      OBVIOUS
    <3>2. ASSUME NEW i \in 1..Len(d)
          PROVE  \E j \in 1..(n + 1) : c[i] = e[j] /\ In(e[j])
      <4>1. PICK j \in 1..n : d[i] = e[j] /\ In(e[j])
        BY <1>3
      <4>2. j \in 1..(n + 1) /\ c[i] = e[j]
        BY <2>2, <3>1, <4>1
      <4> QED
        BY <4>1, <4>2
    <3> QED
      BY <1>7, <2>2, <2>3, <3>1, <3>2
  <2>5. \A j \in 1..(n + 1) : In(e[j]) => \E i \in 1..Len(c) : c[i] = e[j]
    <3>1. Len(d) + 1 \in 1..Len(c) /\ \A i \in 1..Len(d) : i \in 1..Len(c)
      BY <1>2, <2>2
    <3>2. ASSUME NEW j \in 1..n, In(e[j])
          PROVE  \E i \in 1..Len(c) : c[i] = e[j]
      <4>1. PICK i \in 1..Len(d) : d[i] = e[j]
        BY <1>4, <3>2
      <4>2. i \in 1..Len(c) /\ c[i] = e[j]
        BY <2>2, <3>1, <4>1
      <4> QED
        BY <4>2
    <3> QED
      BY <1>5, <2>2, <3>1, <3>2
  <2>6. Ascending(c)
    <3>1. \A i \in 1..Len(d) : Earlier(d[i], m)
      <4> SUFFICES ASSUME NEW i \in 1..Len(d) PROVE Earlier(d[i], m)
        OBVIOUS
      <4>1. PICK j \in 1..n : d[i] = e[j]
        BY <1>3
      <4>2. j \in 1..Len(e) /\ j < n + 1
        BY <1>1, <1>5
      <4> QED
        BY <1>1, <1>5, <4>1, <4>2 DEF Ascending
    <3>2. DOMAIN c = 1..Len(c)
      BY <2>2, LenProperties
    <3> SUFFICES ASSUME NEW i \in 1..Len(c), NEW j \in 1..Len(c), i < j PROVE Earlier(c[i], c[j])
      BY <3>2 DEF Ascending
    <3>3. i \in 1..Len(d)
      BY <1>2, <2>2
    <3>4. CASE j \in 1..Len(d)
      BY <1>2, <1>ascends, <2>2, <3>3, <3>4 DEF Ascending
    <3>5. CASE j = Len(d) + 1
      BY <2>2, <3>1, <3>3, <3>5
    <3> QED
      BY <2>3, <3>4, <3>5
  <2> QED
    BY <2>4, <2>5, <2>6
<1> QED
  BY <1>6, <1>7

LEMMA ReaderFields ==
  ASSUME TypeOK
  PROVE  /\ reader \in Reader /\ reader.pc \in ReaderLabel /\ reader.file \in Seq(Cell)
         /\ reader.range \in [start : Int, end : Int]
         /\ reader.checked \in Version \cup {NoVersion} /\ reader.sound \in BOOLEAN
         /\ reader.cell \in Nat \ {0} /\ reader.next \in Nat \ {0} /\ reader.seen \in Nat
         /\ reader.previous \in Nat \cup {NoTime}
         /\ reader.batch \in Seq(Message) /\ reader.delivered \in Seq(Message)
BY DEF TypeOK, Reader

LEMMA NoProgress ==
  ASSUME NEW r, r.delivered = <<>>, r.batch = <<>>, NEW v
  PROVE  Progress(r, v, 0)
<1>1. r.delivered \o r.batch = <<>> /\ Len(<<>>) = 0 /\ DOMAIN <<>> = {}
  BY EmptySeq
<1> QED
  BY <1>1 DEF Progress, Selects, Ascending

LEMMA OpenCacheKeeps ==
  ASSUME TypeOK, CacheInv, OpenCache
  PROVE  reader' \in Reader /\ ReadInv'
<1>1. PICK range \in Ranges : reader' = [NoReader EXCEPT !.pc = "header", !.file = cache,
                                           !.range = range, !.sound = ~tampered]
  BY DEF OpenCache
<1>2. /\ cache # NoFile /\ cache \in Seq(Cell) /\ range \in [start : Int, end : Int]
      /\ tampered \in BOOLEAN /\ source \in Version
      /\ UNCHANGED <<source, cache, tampered>>
  BY ConstantsOK DEF OpenCache, TypeOK, CacheFile, ReaderStep, files
<1>3. /\ reader'.pc = "header" /\ reader'.file = cache /\ reader'.range = range
      /\ reader'.sound = ~tampered /\ reader'.checked = NoVersion /\ reader'.cell = 1
      /\ reader'.next = 1 /\ reader'.seen = 0 /\ reader'.previous = NoTime
      /\ reader'.batch = <<>> /\ reader'.delivered = <<>>
  BY <1>1 DEF NoReader
<1>4. reader' \in Reader
  <2> DEFINE sound == ~tampered
  <2>1. sound \in BOOLEAN
    BY <1>2
  <2> HIDE DEF sound
  <2>2. reader' = [NoReader EXCEPT !.pc = "header", !.file = cache, !.range = range, !.sound = sound]
    BY <1>1 DEF sound
  <2>3. NoReader \in Reader
    BY EmptySeq DEF NoReader, Reader, ReaderLabel, NoTime
  <2> QED
    BY <1>2, <2>1, <2>2, <2>3 DEF Reader, ReaderLabel
<1>5. PICK v \in Version : \E st \in Stamps(v, source) :
        IF tampered THEN \E g \in Seq(Cell) : Finished(g, st, v) /\ cache \in Damaged(g)
                    ELSE Finished(cache, st, v)
  BY <1>2 DEF CacheInv
<1>6. PICK st \in Stamps(v, source) :
        IF tampered THEN \E g \in Seq(Cell) : Finished(g, st, v) /\ cache \in Damaged(g)
                    ELSE Finished(cache, st, v)
  BY <1>5
<1>7. PICK g \in Seq(Cell) : Finished(g, st, v)
                             /\ IF tampered THEN cache \in Damaged(g) ELSE cache = g
  BY <1>2, <1>6
<1>8. PICK off \in [1..(Len(g) - 1) -> 0..Len(Entries(v))] : Framed(g, st, v, off)
  BY <1>7 DEF Finished
<1>9. Reads(reader', g, st, v, off)
  <2>1. Progress(reader', v, 0)
    BY <1>3, NoProgress
  <2>2. Len(<<>>) % BatchSize = 0 /\ 0 <= Len(Entries(v))
    <3>1. Len(<<>>) = 0 /\ 0 \in Nat /\ BatchSize \in Nat \ {0}
      BY ConstantsOK, EmptySeq
    <3>2. Len(Entries(v)) \in Nat
      BY Sorting, LenProperties
    <3> QED
      BY <3>1, <3>2
  <2>3. IF reader'.sound THEN reader'.file = g ELSE reader'.file \in Damaged(g)
    BY <1>2, <1>3, <1>7
  <2> QED
    BY <1>3, <2>1, <2>2, <2>3, Messages DEF Reads
<1> QED
  BY <1>2, <1>3, <1>4, <1>8, <1>9 DEF ReadInv

LEMMA SameProgress ==
  ASSUME NEW r, NEW q, NEW v, NEW n, Progress(r, v, n),
         q.delivered \o q.batch = r.delivered \o r.batch, q.range = r.range
  PROVE  Progress(q, v, n)
BY DEF Progress

\* One field of a reader changes.
LEMMA ReaderUpdates ==
  ASSUME NEW r \in Reader
  PROVE  /\ \A x \in Nat \ {0} : [r EXCEPT !.cell = x] \in Reader
         /\ \A x \in Nat \ {0} : [r EXCEPT !.next = x] \in Reader
         /\ \A x \in ReaderLabel : [r EXCEPT !.pc = x] \in Reader
         /\ \A x \in Version : [r EXCEPT !.checked = x] \in Reader
<1>1. \A x \in Nat \ {0} : [r EXCEPT !.cell = x] \in Reader
  BY DEF Reader
<1>2. \A x \in Nat \ {0} : [r EXCEPT !.next = x] \in Reader
  BY DEF Reader
<1>3. \A x \in ReaderLabel : [r EXCEPT !.pc = x] \in Reader
  BY DEF Reader
<1>4. \A x \in Version : [r EXCEPT !.checked = x] \in Reader
  BY DEF Reader
<1> QED
  BY <1>1, <1>2, <1>3, <1>4

\* A read that fails keeps what it has handed out.
LEMMA Fails ==
  ASSUME NEW r \in Reader, NEW g, NEW st, NEW v, NEW off, Reads(r, g, st, v, off),
         r.pc # "done", r.sound => r.checked = NoVersion,
         NEW q, q = [r EXCEPT !.pc = "failed"]
  PROVE  q \in Reader /\ q.pc = "failed" /\ Reads(q, g, st, v, off)
<1>1. q \in Reader
  BY DEF Reader, ReaderLabel
<1>2. /\ q.pc = "failed" /\ q.file = r.file /\ q.range = r.range /\ q.checked = r.checked
      /\ q.sound = r.sound /\ q.cell = r.cell /\ q.next = r.next /\ q.seen = r.seen
      /\ q.previous = r.previous /\ q.batch = r.batch /\ q.delivered = r.delivered
  BY DEF Reader
<1>3. Progress(q, v, q.seen)
  <2>1. Progress(r, v, r.seen)
    BY DEF Reads
  <2> QED
    BY <1>2, <2>1, SameProgress
<1> QED
  BY <1>1, <1>2, <1>3 DEF Reads

LEMMA CheckHeaderKeeps ==
  ASSUME TypeOK, ReadInv, CheckHeader
  PROVE  reader' \in Reader /\ ReadInv'
<1>1. /\ reader \in Reader /\ reader.pc = "header" /\ source \in Version /\ UNCHANGED source
      /\ reader' = IF Fresh(reader.file)
                   THEN [reader EXCEPT !.pc = "cells", !.checked = source, !.cell = 2]
                   ELSE [reader EXCEPT !.pc = "failed"]
  BY ReaderFields DEF CheckHeader, ReaderStep, TypeOK
<1>2. PICK v \in Version : \E st \in Stamps(v, source) : \E g \in Seq(Cell) :
        \E off \in [1..(Len(g) - 1) -> 0..Len(Entries(v))] :
          Framed(g, st, v, off) /\ Reads(reader, g, st, v, off)
  BY <1>1 DEF ReadInv
<1>3. PICK st \in Stamps(v, source) : \E g \in Seq(Cell) :
        \E off \in [1..(Len(g) - 1) -> 0..Len(Entries(v))] :
          Framed(g, st, v, off) /\ Reads(reader, g, st, v, off)
  BY <1>2
<1>4. PICK g \in Seq(Cell) : \E off \in [1..(Len(g) - 1) -> 0..Len(Entries(v))] :
        Framed(g, st, v, off) /\ Reads(reader, g, st, v, off)
  BY <1>3
<1>5. PICK off \in [1..(Len(g) - 1) -> 0..Len(Entries(v))] :
        Framed(g, st, v, off) /\ Reads(reader, g, st, v, off)
  BY <1>4
<1>6. /\ reader.checked = NoVersion /\ reader.seen = 0 /\ reader.previous = NoTime
      /\ reader.batch = <<>> /\ reader.delivered = <<>>
      /\ IF reader.sound THEN reader.file = g ELSE reader.file \in Damaged(g)
      /\ Progress(reader, v, reader.seen)
  BY <1>1, <1>5 DEF Reads
<1>7. reader' \in Reader /\ reader'.pc # "idle" /\ Reads(reader', g, st, v, off)
  <2>1. CASE ~Fresh(reader.file)
    BY <1>1, <1>5, <1>6, <2>1, Fails
  <2>2. CASE Fresh(reader.file)
    <3>1. reader' = [reader EXCEPT !.pc = "cells", !.checked = source, !.cell = 2]
      BY <1>1, <2>2
    <3>2. /\ reader' \in Reader /\ reader'.pc = "cells" /\ reader'.checked = source
          /\ reader'.cell = 2 /\ reader'.file = reader.file /\ reader'.range = reader.range
          /\ reader'.sound = reader.sound /\ reader'.seen = 0 /\ reader'.previous = NoTime
          /\ reader'.batch = <<>> /\ reader'.delivered = <<>>
      <4> DEFINE r == [reader EXCEPT !.checked = source]
                 s == [r EXCEPT !.cell = 2]
      <4>1. r \in Reader /\ r.checked = source /\ r.cell = reader.cell /\ r.file = reader.file
            /\ r.range = reader.range /\ r.sound = reader.sound /\ r.seen = reader.seen
            /\ r.previous = reader.previous /\ r.batch = reader.batch
            /\ r.delivered = reader.delivered
        BY <1>1 DEF Reader
      <4>2. s \in Reader
        <5>1. 2 \in Nat \ {0}
          OBVIOUS
        <5> HIDE DEF r
        <5>2. \A x \in Nat \ {0} : [r EXCEPT !.cell = x] \in Reader
          BY <4>1, ReaderUpdates
        <5> QED
          BY <5>1, <5>2, Zenon
      <4>3. s.checked = r.checked /\ s.cell = 2 /\ s.file = r.file
            /\ s.range = r.range /\ s.sound = r.sound /\ s.seen = r.seen
            /\ s.previous = r.previous /\ s.batch = r.batch /\ s.delivered = r.delivered
        <5> HIDE DEF r
        <5> QED
          BY <4>1 DEF Reader
      <4>4. reader' = [s EXCEPT !.pc = "cells"]
        BY <1>1, <3>1 DEF Reader
      <4> HIDE DEF r, s
      <4> QED
        BY <1>6, <4>1, <4>2, <4>3, <4>4 DEF Reader, ReaderLabel
    <3>3. reader.file # <<>> /\ reader.file[1] = Header(source)
      BY <2>2 DEF Fresh
    <3>4. /\ Len(g) >= 2 /\ Len(g) \in Nat /\ g[1] = Header(st) /\ off[1] = 0
          /\ Len(Entries(v)) \in Nat
      BY <1>5, FramedFile
    <3>5. st = source
      <4>1. CASE reader.sound
        BY <1>6, <3>3, <3>4, <4>1, Cells
      <4>2. CASE ~reader.sound
        BY <1>1, <1>5, <1>6, <3>3, <4>2, DamagedStamp
      <4> QED
        BY <4>1, <4>2
    <3>6. v = source
      BY <1>1, <3>5, Messages DEF Stamps
    <3>7. Progress(reader', v, 0)
      BY <3>2, NoProgress
    <3>8. Len(<<>>) = 0 /\ BatchSize \in Nat \ {0} /\ 0 % BatchSize = 0
      BY ConstantsOK, EmptySeq
    <3>9. v # NoVersion /\ 2 \in 2..Len(g) /\ off[2 - 1] = 0 /\ \A i : i \notin 2..(2 - 1)
      BY <3>4, Messages
    <3>10. Len(reader'.batch) < BatchSize /\ Len(reader'.delivered) % BatchSize = 0
      BY <3>2, <3>8
    <3> HIDE DEF Header
    <3> QED
      BY <1>6, <3>2, <3>3, <3>4, <3>5, <3>6, <3>7, <3>9, <3>10 DEF Reads
  <2> QED
    BY <2>1, <2>2
<1> QED
  BY <1>1, <1>3, <1>5, <1>7 DEF ReadInv

\* What a reader reads.
LEMMA Reading ==
  ASSUME ReadInv, reader.pc # "idle"
  PROVE  \E v, st, g, off :
           /\ v \in Version /\ st \in Stamps(v, source) /\ g \in Seq(Cell)
           /\ off \in [1..(Len(g) - 1) -> 0..Len(Entries(v))]
           /\ Framed(g, st, v, off) /\ Reads(reader, g, st, v, off)
<1>1. PICK v \in Version : \E st \in Stamps(v, source) : \E g \in Seq(Cell) :
        \E off \in [1..(Len(g) - 1) -> 0..Len(Entries(v))] :
          Framed(g, st, v, off) /\ Reads(reader, g, st, v, off)
  BY DEF ReadInv
<1>2. PICK st \in Stamps(v, source) : \E g \in Seq(Cell) :
        \E off \in [1..(Len(g) - 1) -> 0..Len(Entries(v))] :
          Framed(g, st, v, off) /\ Reads(reader, g, st, v, off)
  BY <1>1
<1>3. PICK g \in Seq(Cell) : \E off \in [1..(Len(g) - 1) -> 0..Len(Entries(v))] :
        Framed(g, st, v, off) /\ Reads(reader, g, st, v, off)
  BY <1>2
<1>4. PICK off \in [1..(Len(g) - 1) -> 0..Len(Entries(v))] :
        Framed(g, st, v, off) /\ Reads(reader, g, st, v, off)
  BY <1>3
<1> QED
  BY <1>1, <1>2, <1>3, <1>4

\* A block that a reader accepts is the one that was written.
LEMMA AcceptedBlock ==
  ASSUME NEW v \in Version, NEW st, NEW g, NEW off, Framed(g, st, v, off),
         NEW r \in Reader, Reads(r, g, st, v, off), r.pc = "cells",
         r.cell <= Len(r.file), IsBlock(r.file[r.cell])
  PROVE  /\ r.file[r.cell].intact => r.cell < Len(g) /\ r.file[r.cell] = g[r.cell]
         /\ ~r.file[r.cell].intact => ~r.sound
<1>1. /\ r.cell \in 2..Len(g) /\ r.checked = v
      /\ \A i \in 2..(r.cell - 1) : i <= Len(r.file) /\ r.file[i] = g[i]
      /\ IF r.sound THEN r.file = g ELSE r.file \in Damaged(g)
  BY DEF Reads
<1>2. v # NoVersion /\ r.file[1] = Header(v)
  BY <1>1, Messages DEF Reads
<1>3. /\ Len(g) \in Nat /\ Len(g) >= 2 /\ ~IsBlock(g[Len(g)])
      /\ \A i \in 2..(Len(g) - 1) : g[i].intact
  BY FramedFile, Cells
<1>4. CASE r.sound
  <2>1. r.file = g /\ r.cell # Len(g)
    BY <1>1, <1>3, <1>4
  <2>2. r.cell \in 2..(Len(g) - 1)
    BY <1>1, <1>3, <2>1
  <2> QED
    BY <1>3, <2>1, <2>2
<1>5. CASE ~r.sound
  <2> DEFINE f == r.file
             c == r.cell
  <2>1. /\ f \in Damaged(g) /\ f[1] = Header(v) /\ c \in 2..Len(g)
        /\ \A i \in 2..(c - 1) : i <= Len(f) /\ f[i] = g[i]
    BY <1>1, <1>2, <1>5
  <2> HIDE DEF f, c
  <2>2. c <= Len(f) /\ IsBlock(f[c]) /\ f[c].intact => c < Len(g) /\ f[c] = g[c]
    BY <2>1, DamageIsFound
  <2> QED
    BY <1>5, <2>2 DEF f, c
<1> QED
  BY <1>4, <1>5

LEMMA ReadBlockKeeps ==
  ASSUME TypeOK, ReadInv, ReadBlock
  PROVE  reader' \in Reader /\ ReadInv'
<1>1. /\ reader \in Reader /\ reader.pc = "cells" /\ UNCHANGED source
      /\ reader.cell <= Len(reader.file) /\ IsBlock(reader.file[reader.cell])
      /\ reader' = IF reader.file[reader.cell].intact
                   THEN [reader EXCEPT !.pc = "messages", !.next = 1]
                   ELSE [reader EXCEPT !.pc = "failed"]
  BY ReaderFields DEF ReadBlock, ReaderStep, FirstMessage
<1>2. PICK v, st, g, off :
        /\ v \in Version /\ st \in Stamps(v, source) /\ g \in Seq(Cell)
        /\ off \in [1..(Len(g) - 1) -> 0..Len(Entries(v))]
        /\ Framed(g, st, v, off) /\ Reads(reader, g, st, v, off)
  BY <1>1, Reading
<1>3. /\ reader.file[reader.cell].intact =>
           reader.cell < Len(g) /\ reader.file[reader.cell] = g[reader.cell]
      /\ ~reader.file[reader.cell].intact => ~reader.sound
  BY <1>1, <1>2, AcceptedBlock
<1>4. reader' \in Reader /\ reader'.pc # "idle" /\ Reads(reader', g, st, v, off)
  <2>1. CASE ~reader.file[reader.cell].intact
    BY <1>1, <1>2, <1>3, <2>1, Fails
  <2>2. CASE reader.file[reader.cell].intact
    <3> DEFINE r == [reader EXCEPT !.next = 1]
    <3>0. r \in Reader
      <4>1. 1 \in Nat \ {0}
        OBVIOUS
      <4>2. \A x \in Nat \ {0} : [reader EXCEPT !.next = x] \in Reader
        BY <1>1, ReaderUpdates
      <4> QED
        BY <4>1, <4>2, Zenon
    <3>1. /\ r \in Reader /\ r.pc = reader.pc /\ r.file = reader.file /\ r.range = reader.range
          /\ r.checked = reader.checked /\ r.sound = reader.sound /\ r.cell = reader.cell
          /\ r.next = 1 /\ r.seen = reader.seen /\ r.previous = reader.previous
          /\ r.batch = reader.batch /\ r.delivered = reader.delivered
      BY <1>1, <3>0 DEF Reader
    <3>2. reader' = [r EXCEPT !.pc = "messages"]
      BY <1>1, <2>2 DEF Reader
    <3> HIDE DEF r
    <3>3. /\ reader' \in Reader /\ reader'.pc = "messages" /\ reader'.file = reader.file
          /\ reader'.range = reader.range /\ reader'.checked = reader.checked
          /\ reader'.sound = reader.sound /\ reader'.cell = reader.cell
          /\ reader'.next = 1 /\ reader'.seen = reader.seen
          /\ reader'.previous = reader.previous /\ reader'.batch = reader.batch
          /\ reader'.delivered = reader.delivered
      BY <3>1, <3>2 DEF Reader, ReaderLabel
    <3>4. Progress(reader', v, reader.seen)
      <4>1. Progress(reader, v, reader.seen)
        BY <1>2 DEF Reads
      <4> QED
        BY <3>3, <4>1, SameProgress
    <3>5. /\ reader.cell \in 2..Len(g) /\ reader.seen = off[reader.cell - 1]
          /\ reader.cell <= Len(reader.file)
      BY <1>1, <1>2 DEF Reads
    <3>6. /\ reader.cell < Len(g) /\ reader.file[reader.cell] = g[reader.cell]
          /\ 1 \in 1..(off[reader.cell] - off[reader.cell - 1])
          /\ reader.seen = off[reader.cell - 1] + 1 - 1
      <4> DEFINE c == reader.cell
      <4>1. Len(g) \in Nat /\ c \in 2..Len(g) /\ c < Len(g)
        BY <1>2, <1>3, <2>2, <3>5, FramedFile
      <4>2. c \in 2..(Len(g) - 1) /\ c \in 1..(Len(g) - 1) /\ c - 1 \in 1..(Len(g) - 1)
        BY <4>1
      <4> HIDE DEF c
      <4>3. off[c - 1] < off[c] /\ off[c] \in 0..Len(Entries(v)) /\ off[c - 1] \in 0..Len(Entries(v))
            /\ Len(Entries(v)) \in Nat
        <5>1. v \in Version /\ Framed(g, st, v, off)
          BY <1>2
        <5>2. /\ Len(Entries(v)) \in Nat
              /\ \A i \in 1..(Len(g) - 1) : off[i] \in 0..Len(Entries(v))
              /\ \A i \in 2..(Len(g) - 1) : off[i - 1] < off[i]
          BY <5>1, FramedFile
        <5> QED
          BY <4>2, <5>2
      <4>4. 1 \in 1..(off[c] - off[c - 1]) /\ off[c - 1] = off[c - 1] + 1 - 1
        BY <4>3
      <4> QED
        BY <1>3, <2>2, <3>5, <4>1, <4>4 DEF c
    <3> HIDE DEF r
    <3> QED
      BY <1>1, <1>2, <3>3, <3>4, <3>5, <3>6, SMTT(60) DEF Reads
  <2> QED
    BY <2>1, <2>2
<1> QED
  BY <1>1, <1>2, <1>4 DEF ReadInv

Moved(r, p, c, x, s, t, b, d) ==
  [r EXCEPT !.pc = p, !.cell = c, !.next = x, !.seen = s, !.previous = t, !.batch = b,
            !.delivered = d]

IsMoved(q, r, p, c, x, s, t, b, d) ==
  /\ q \in Reader
  /\ q.pc = p /\ q.file = r.file /\ q.range = r.range /\ q.checked = r.checked
  /\ q.sound = r.sound /\ q.cell = c /\ q.next = x /\ q.seen = s /\ q.previous = t
  /\ q.batch = b /\ q.delivered = d

\* Several fields of a reader change.
LEMMA ReaderMoves ==
  ASSUME NEW r \in Reader, NEW p \in ReaderLabel, NEW c \in Nat \ {0}, NEW x \in Nat \ {0},
         NEW s \in Nat, NEW t \in Nat, NEW b \in Seq(Message), NEW d \in Seq(Message)
  PROVE  IsMoved(Moved(r, p, c, x, s, t, b, d), r, p, c, x, s, t, b, d)
<1> DEFINE q == Moved(r, p, c, x, s, t, b, d)
<1>1. q = [pc |-> p, file |-> r.file, range |-> r.range, checked |-> r.checked,
           sound |-> r.sound, cell |-> c, next |-> x, seen |-> s, previous |-> t,
           batch |-> b, delivered |-> d]
  <2>1. q = [r EXCEPT !.pc = p, !.cell = c, !.next = x, !.seen = s, !.previous = t, !.batch = b,
                      !.delivered = d]
    BY DEF Moved
  <2> HIDE DEF q
  <2> QED
    BY <2>1 DEF Reader
<1>2. /\ r.file \in Seq(Cell) /\ r.range \in [start : Int, end : Int]
      /\ r.checked \in Version \cup {NoVersion} /\ r.sound \in BOOLEAN
  BY DEF Reader
<1> QED
  BY <1>1, <1>2 DEF Reader, IsMoved

\* The message a reader takes is the next one of the source, and not older than the last.
LEMMA NextMessage ==
  ASSUME NEW v \in Version, NEW st, NEW g \in Seq(Cell), NEW off, Framed(g, st, v, off),
         NEW r \in Reader, Reads(r, g, st, v, off), r.pc = "messages"
  PROVE  LET messages == r.file[r.cell].messages
         IN  /\ r.seen \in Nat /\ r.seen < Len(Entries(v))
             /\ messages[r.next] = Entries(v)[r.seen + 1]
             /\ ~(Ts(messages[r.next]) < r.previous)
             /\ r.cell < Len(g) /\ r.file[r.cell] = g[r.cell]
             /\ IF r.next = Len(messages)
                THEN r.seen + 1 = off[r.cell]
                ELSE r.next + 1 \in 1..(off[r.cell] - off[r.cell - 1])
<1> DEFINE c == r.cell
           e == Entries(v)
           n == r.seen
           messages == r.file[c].messages
<1>1. /\ c \in 2..Len(g) /\ c < Len(g) /\ r.file[c] = g[c]
      /\ r.next \in 1..(off[c] - off[c - 1]) /\ n = off[c - 1] + r.next - 1
      /\ r.previous = IF n = 0 THEN NoTime ELSE Ts(e[n])
  BY DEF Reads
<1>2. Len(g) \in Nat /\ n \in Nat /\ r.next \in Nat /\ c \in Nat
  BY FramedFile DEF Reader
<1>3. c \in 2..(Len(g) - 1) /\ c \in 1..(Len(g) - 1)
  BY <1>1, <1>2
<1>4. /\ c - 1 \in 1..(Len(g) - 1) /\ Len(e) \in Nat
      /\ off[c] \in 0..Len(e) /\ off[c - 1] \in 0..Len(e)
      /\ Len(messages) = off[c] - off[c - 1]
      /\ \A j \in 1..(off[c] - off[c - 1]) : messages[j] = e[off[c - 1] + j]
  <2>1. c - 1 \in 1..(Len(g) - 1) /\ Len(e) \in Nat
    BY <1>2, <1>3, FramedFile
  <2> HIDE DEF c, e
  <2>2. off[c] \in 0..Len(e) /\ off[c - 1] \in 0..Len(e)
    BY <1>3, <2>1, FramedFile DEF e
  <2>3. /\ Len(g[c].messages) = off[c] - off[c - 1]
        /\ \A j \in 1..(off[c] - off[c - 1]) : g[c].messages[j] = e[off[c - 1] + j]
    BY <1>3, FramedFile DEF e
  <2> QED
    BY <1>1, <2>1, <2>2, <2>3
<1> HIDE DEF messages, c, e, n
<1>5. off[c - 1] + r.next = n + 1 /\ n < Len(e) /\ n + 1 <= off[c]
  BY <1>1, <1>2, <1>4, SMTT(40)
<1>6. messages[r.next] = e[n + 1]
  BY <1>1, <1>4, <1>5
<1>7. ~(Ts(messages[r.next]) < r.previous)
  <2>1. /\ Ascending(e) /\ e \in Seq(Message) /\ DOMAIN e = 1..Len(e)
        /\ \A j \in 1..Len(e) : e[j] \in Message /\ Ts(e[j]) \in Nat
    BY Sorting, LenProperties, ElementOfSeq, Messages DEF e
  <2>2. n + 1 \in 1..Len(e) /\ Ts(e[n + 1]) \in Nat
    BY <1>2, <1>4, <1>5, <2>1, SMTT(40)
  <2>3. CASE n = 0
    BY <1>1, <1>6, <2>2, <2>3 DEF NoTime
  <2>4. CASE n # 0
    <3>1. n \in 1..Len(e) /\ n < n + 1
      BY <1>2, <1>4, <1>5, <2>4
    <3>2. Earlier(e[n], e[n + 1])
      BY <2>1, <2>2, <3>1 DEF Ascending
    <3>3. Ts(e[n]) <= Ts(e[n + 1])
      <4> DEFINE a == Ts(e[n])
                 b == Ts(e[n + 1])
      <4>1. (a < b \/ a = b) /\ a \in Nat /\ b \in Nat
        BY <2>1, <2>2, <3>1, <3>2 DEF Earlier
      <4> HIDE DEF a, b
      <4>2. a <= b
        BY <4>1
      <4> QED
        BY <4>2 DEF a, b
    <3>4. r.previous = Ts(e[n])
      BY <1>1, <2>4
    <3>5. Ts(e[n]) \in Nat
      BY <2>1, <3>1
    <3> QED
      <4> DEFINE a == Ts(e[n])
                 b == Ts(e[n + 1])
      <4>1. a <= b /\ a \in Nat /\ b \in Nat /\ r.previous = a /\ Ts(messages[r.next]) = b
        BY <1>6, <2>2, <3>3, <3>4, <3>5
      <4> HIDE DEF a, b
      <4> QED
        BY <4>1
  <2> QED
    BY <2>3, <2>4
<1>8. IF r.next = Len(messages) THEN n + 1 = off[c]
                                ELSE r.next + 1 \in 1..(off[c] - off[c - 1])
  <2> DEFINE to == off[c]
             from == off[c - 1]
             x == r.next
  <2>1. /\ to \in Nat /\ from \in Nat /\ x \in Nat /\ x \in 1..(to - from)
        /\ from + x = n + 1 /\ n \in Nat /\ Len(messages) = to - from
    BY <1>1, <1>2, <1>4, <1>5
  <2> HIDE DEF to, from, x
  <2>2. CASE x = Len(messages)
    BY <2>1, <2>2 DEF to, x
  <2>3. CASE x # Len(messages)
    <3>1. x + 1 \in 1..(to - from)
      BY <2>1, <2>3
    <3> QED
      BY <2>3, <3>1 DEF to, from, x
  <2> QED
    BY <2>2, <2>3
<1> QED
  BY <1>1, <1>2, <1>5, <1>6, <1>7, <1>8 DEF messages, c, e, n

Kept(batch)    == IF Len(batch) >= BatchSize THEN <<>> ELSE batch
Out(d, batch)  == IF Len(batch) >= BatchSize THEN d \o batch ELSE d

\* Handing out batches does not change what was taken, and only hands out whole ones.
LEMMA Flushing ==
  ASSUME NEW d \in Seq(Message), NEW b \in Seq(Message), NEW m \in Message, NEW in \in BOOLEAN,
         Len(b) < BatchSize, Len(d) % BatchSize = 0
  PROVE  /\ Kept(With(b, m, in)) \in Seq(Message) /\ Out(d, With(b, m, in)) \in Seq(Message)
         /\ Len(Kept(With(b, m, in))) < BatchSize /\ Len(Out(d, With(b, m, in))) % BatchSize = 0
         /\ d \o b \in Seq(Message)
         /\ Out(d, With(b, m, in)) \o Kept(With(b, m, in)) =
              IF in THEN Append(d \o b, m) ELSE d \o b
<1> DEFINE batch == With(b, m, in)
           b2 == Kept(batch)
           d2 == Out(d, batch)
<1>0. /\ batch = IF in THEN Append(b, m) ELSE b
      /\ b2 = IF Len(batch) >= BatchSize THEN <<>> ELSE batch
      /\ d2 = IF Len(batch) >= BatchSize THEN d \o batch ELSE d
  BY DEF With, Kept, Out
<1> SUFFICES /\ b2 \in Seq(Message) /\ d2 \in Seq(Message)
             /\ Len(b2) < BatchSize /\ Len(d2) % BatchSize = 0
             /\ d \o b \in Seq(Message)
             /\ d2 \o b2 = IF in THEN Append(d \o b, m) ELSE d \o b
  OBVIOUS
<1> HIDE DEF batch, b2, d2
<1>1. BatchSize \in Nat \ {0} /\ Len(b) \in Nat /\ Len(d) \in Nat
  BY ConstantsOK, LenProperties
<1>2. /\ batch \in Seq(Message) /\ Len(batch) \in Nat /\ Len(batch) <= BatchSize
  <2>1. CASE in
    BY <1>0, <1>1, <2>1, AppendProperties
  <2>2. CASE ~in
    BY <1>0, <1>1, <2>2
  <2> QED
    BY <2>1, <2>2
<1>3. d \o b \in Seq(Message)
  BY ConcatProperties
<1>4. d \o batch = IF in THEN Append(d \o b, m) ELSE d \o b
  <2>1. CASE in
    <3>1. d \o Append(b, m) = Append(d \o b, m)
      <4> DEFINE one == <<m>>
      <4>1. one \in Seq(Message) /\ Append(b, m) = b \o one /\ Append(d \o b, m) = (d \o b) \o one
        BY <1>3, AppendIsConcat
      <4> HIDE DEF one
      <4>2. (d \o b) \o one = d \o (b \o one)
        BY <4>1, ConcatAssociative
      <4> QED
        BY <4>1, <4>2
    <3> QED
      BY <1>0, <2>1, <3>1
  <2>2. CASE ~in
    BY <1>0, <2>2
  <2> QED
    BY <2>1, <2>2
<1>5. CASE Len(batch) >= BatchSize
  <2>1. Len(batch) = BatchSize /\ b2 = <<>> /\ d2 = d \o batch
    BY <1>0, <1>1, <1>2, <1>5
  <2>2. d2 \in Seq(Message) /\ Len(d2) = Len(d) + BatchSize
    BY <1>2, <2>1, ConcatProperties
  <2>3. Len(d2) % BatchSize = 0
    BY <1>1, <2>2, WholeBatches
  <2>4. b2 \in Seq(Message) /\ Len(b2) < BatchSize /\ d2 \o b2 = d2
    BY <1>1, <2>1, <2>2, EmptySeq, ConcatEmptySeq
  <2> QED
    BY <1>3, <1>4, <2>1, <2>2, <2>3, <2>4
<1>6. CASE ~(Len(batch) >= BatchSize)
  <2>1. b2 = batch /\ d2 = d /\ Len(batch) < BatchSize
    BY <1>0, <1>1, <1>2, <1>6
  <2> QED
    BY <1>2, <1>3, <1>4, <2>1
<1> QED
  BY <1>5, <1>6

LEMMA TakeMessageKeeps ==
  ASSUME TypeOK, ReadInv, TakeMessage
  PROVE  reader' \in Reader /\ ReadInv'
<1> DEFINE messages == reader.file[reader.cell].messages
           m     == messages[reader.next]
           batch == IF InRange(reader.range, m) THEN Append(reader.batch, m) ELSE reader.batch
           last  == reader.next = Len(messages)
           p     == IF last THEN "cells" ELSE "messages"
           c     == IF last THEN reader.cell + 1 ELSE reader.cell
           b     == IF Len(batch) >= BatchSize THEN <<>> ELSE batch
           d     == IF Len(batch) >= BatchSize THEN reader.delivered \o batch ELSE reader.delivered
           n     == reader.seen
<1>1. /\ reader \in Reader /\ reader.pc = "messages" /\ UNCHANGED source
      /\ reader' = IF Ts(m) < reader.previous
                   THEN [reader EXCEPT !.pc = "failed"]
                   ELSE [reader EXCEPT !.pc = p, !.cell = c, !.next = reader.next + 1,
                                       !.seen = n + 1, !.previous = Ts(m),
                                       !.batch = b, !.delivered = d]
  BY ReaderFields DEF TakeMessage, ReaderStep, AfterFlush
<1>2. PICK v, st, g, off :
        /\ v \in Version /\ st \in Stamps(v, source) /\ g \in Seq(Cell)
        /\ off \in [1..(Len(g) - 1) -> 0..Len(Entries(v))]
        /\ Framed(g, st, v, off) /\ Reads(reader, g, st, v, off)
  BY <1>1, Reading
<1> DEFINE e == Entries(v)
<1>3. /\ n \in Nat /\ n < Len(e) /\ m = e[n + 1] /\ ~(Ts(m) < reader.previous)
      /\ reader.cell < Len(g) /\ reader.file[reader.cell] = g[reader.cell]
      /\ IF last THEN n + 1 = off[reader.cell]
                 ELSE reader.next + 1 \in 1..(off[reader.cell] - off[reader.cell - 1])
  BY <1>1, <1>2, NextMessage
<1>4. Len(e) \in Nat /\ m \in Message /\ Ts(m) \in Nat /\ m = e[n + 1]
  <2>1. e \in Seq(Message) /\ Len(e) \in Nat
    BY <1>2, Sorting, LenProperties
  <2> HIDE DEF messages, e
  <2>2. n + 1 \in 1..Len(e)
    BY <1>3, <2>1
  <2>3. m = e[n + 1]
    BY <1>3
  <2>4. e[n + 1] \in Message
    BY <2>1, <2>2, ElementOfSeq
  <2> QED
    BY <2>1, <2>3, <2>4, Messages
<1>5. /\ reader.cell \in 2..Len(g) /\ Len(g) \in Nat /\ reader.next \in Nat
      /\ reader.cell \in Nat \ {0} /\ reader.cell <= Len(reader.file)
      /\ reader.batch \in Seq(Message) /\ reader.delivered \in Seq(Message)
      /\ Len(reader.batch) < BatchSize /\ Len(reader.delivered) % BatchSize = 0
      /\ Progress(reader, v, n) /\ reader.checked = v
      /\ IF reader.sound THEN reader.file = g ELSE reader.file \in Damaged(g)
      /\ \A i \in 2..(reader.cell - 1) : i <= Len(reader.file) /\ reader.file[i] = g[i]
      /\ n = off[reader.cell - 1] + reader.next - 1
      /\ st = v /\ reader.file[1] = Header(v) /\ v # NoVersion
  BY <1>1, <1>2, FramedFile, Messages, SMTT(40) DEF Reads, Reader
<1>6. /\ b \in Seq(Message) /\ d \in Seq(Message)
      /\ Len(b) < BatchSize /\ Len(d) % BatchSize = 0
      /\ reader.delivered \o reader.batch \in Seq(Message)
      /\ d \o b = IF InRange(reader.range, m) THEN Append(reader.delivered \o reader.batch, m)
                                             ELSE reader.delivered \o reader.batch
  <2> DEFINE inside == InRange(reader.range, m)
  <2>1. inside \in BOOLEAN
    BY DEF InRange
  <2> DEFINE kept == reader.batch
             out  == reader.delivered
  <2>2. /\ kept \in Seq(Message) /\ out \in Seq(Message) /\ m \in Message
        /\ Len(kept) < BatchSize /\ Len(out) % BatchSize = 0
    BY <1>4, <1>5
  <2>3. b = Kept(With(kept, m, inside)) /\ d = Out(out, With(kept, m, inside))
    BY DEF With, Kept, Out
  <2> HIDE DEF inside, kept, out, m, batch, b, d
  <2>4. /\ b \in Seq(Message) /\ d \in Seq(Message)
        /\ Len(b) < BatchSize /\ Len(d) % BatchSize = 0
        /\ out \o kept \in Seq(Message)
        /\ d \o b = IF inside THEN Append(out \o kept, m) ELSE out \o kept
    BY <2>1, <2>2, <2>3, Flushing, ZenonT(40)
  <2> QED
    BY <2>4 DEF inside, kept, out
<1>7. /\ p \in ReaderLabel /\ c \in Nat \ {0} /\ n + 1 \in Nat /\ reader.next + 1 \in Nat \ {0}
  <2> HIDE DEF messages
  <2>1. p \in ReaderLabel
    BY DEF ReaderLabel
  <2>2. c \in Nat \ {0}
    BY <1>5
  <2>3. n + 1 \in Nat /\ reader.next + 1 \in Nat \ {0}
    <3>1. n \in Nat
      BY <1>3
    <3>2. reader.next \in Nat
      BY <1>5
    <3> HIDE DEF n
    <3> QED
      BY <3>1, <3>2
  <2> QED
    BY <2>1, <2>2, <2>3
<1>8. /\ reader' \in Reader
      /\ reader'.pc = p /\ reader'.file = reader.file /\ reader'.range = reader.range
      /\ reader'.checked = reader.checked /\ reader'.sound = reader.sound /\ reader'.cell = c
      /\ reader'.next = reader.next + 1 /\ reader'.seen = n + 1 /\ reader'.previous = Ts(m)
      /\ reader'.batch = b /\ reader'.delivered = d
  <2> DEFINE t == Ts(m)
             x == reader.next + 1
             s == n + 1
  <2>1. /\ reader' = Moved(reader, p, c, x, s, t, b, d)
        /\ t \in Nat /\ x \in Nat \ {0} /\ s \in Nat
    BY <1>1, <1>3, <1>4, <1>7 DEF Moved
  <2> HIDE DEF p, c, b, d, t, x, s
  <2>2. reader \in Reader /\ p \in ReaderLabel /\ c \in Nat \ {0}
        /\ b \in Seq(Message) /\ d \in Seq(Message)
    BY <1>1, <1>6, <1>7
  <2>3. /\ reader' \in Reader
        /\ reader'.pc = p /\ reader'.file = reader.file /\ reader'.range = reader.range
        /\ reader'.checked = reader.checked /\ reader'.sound = reader.sound /\ reader'.cell = c
        /\ reader'.next = x /\ reader'.seen = s /\ reader'.previous = t
        /\ reader'.batch = b /\ reader'.delivered = d
    <3> DEFINE q == Moved(reader, p, c, x, s, t, b, d)
    <3>1. IsMoved(q, reader, p, c, x, s, t, b, d)
      BY <2>1, <2>2, ReaderMoves
    <3>2. reader' = q
      BY <2>1
    <3> HIDE DEF q
    <3> QED
      BY <3>1, <3>2 DEF IsMoved
  <2> QED
    BY <2>3 DEF t, x, s
<1>9. Progress(reader', v, n + 1)
  <2> DEFINE q == reader.delivered \o reader.batch
             z == d \o b
             range == reader.range
  <2>1. q \in Seq(Message) /\ z = Extended(q, v, n, range)
    BY <1>4, <1>6 DEF With, Extended
  <2>2. Selects(q, v, n, range)
    BY <1>5 DEF Progress
  <2>3. z = reader'.delivered \o reader'.batch /\ range = reader'.range
    BY <1>8
  <2> HIDE DEF q, z, range
  <2>4. Selects(z, v, n + 1, range)
    <3>1. n \in Nat /\ n < Len(Entries(v)) /\ v \in Version
      BY <1>2, <1>3
    <3> HIDE DEF n
    <3> QED
      BY <2>1, <2>2, <3>1, OneMore
  <2> QED
    BY <2>3, <2>4 DEF Progress
<1>10. Reads(reader', g, st, v, off)
  <2> HIDE DEF m, b, d
  <2>1. n + 1 # 0 /\ n + 1 <= Len(e) /\ Ts(m) = Ts(e[n + 1])
    BY <1>3, <1>4
  <2>2. CASE last
    <3>1. /\ reader'.pc = "cells" /\ reader'.cell = reader.cell + 1
          /\ reader'.cell \in 2..Len(g) /\ reader'.cell - 1 = reader.cell
          /\ n + 1 = off[reader.cell]
      <4>1. p = "cells" /\ c = reader.cell + 1 /\ n + 1 = off[reader.cell]
        BY <1>3, <2>2
      <4>2. reader'.pc = p /\ reader'.cell = c
        BY <1>8
      <4> HIDE DEF p, c, n
      <4>3. c \in 2..Len(g) /\ c - 1 = reader.cell
        <5> DEFINE x == reader.cell
        <5>1. x \in 2..Len(g) /\ x < Len(g) /\ Len(g) \in Nat /\ c = x + 1
          BY <1>3, <1>5, <4>1
        <5> HIDE DEF x
        <5>2. c \in 2..Len(g) /\ c - 1 = x
          BY <5>1
        <5> QED
          BY <5>2 DEF x
      <4> QED
        BY <4>1, <4>2, <4>3
    <3>2. \A i \in 2..reader.cell : i <= Len(reader.file) /\ reader.file[i] = g[i]
      <4> SUFFICES ASSUME NEW i \in 2..reader.cell
                   PROVE  i <= Len(reader.file) /\ reader.file[i] = g[i]
        OBVIOUS
      <4>1. i = reader.cell \/ i \in 2..(reader.cell - 1)
        BY <1>5
      <4> QED
        BY <1>3, <1>5, <4>1
    <3>3. \A i \in 2..(reader'.cell - 1) : i <= Len(reader.file) /\ reader.file[i] = g[i]
      BY <3>1, <3>2
    <3> HIDE DEF n, last, messages
    <3> QED
      BY <1>5, <1>6, <1>8, <1>9, <2>1, <3>1, <3>3 DEF Reads
  <2>3. CASE ~last
    <3>1. reader'.pc = "messages" /\ reader'.cell = reader.cell
      BY <1>8, <2>3
    <3>2. /\ reader.next + 1 \in 1..(off[reader.cell] - off[reader.cell - 1])
          /\ n + 1 = off[reader.cell - 1] + (reader.next + 1) - 1
      <4> DEFINE from == off[reader.cell - 1]
                 x == reader.next
      <4>1. from \in Nat /\ x \in Nat /\ n = from + x - 1
        <5>1. reader.cell - 1 \in 1..(Len(g) - 1)
          BY <1>3, <1>5, SMTT(40)
        <5>2. Len(e) \in Nat /\ off[reader.cell - 1] \in 0..Len(e)
          BY <1>2, <1>4, <5>1
        <5> QED
          BY <1>5, <5>2
      <4> HIDE DEF from, x
      <4>2. n + 1 = from + (x + 1) - 1
        BY <4>1
      <4> QED
        BY <1>3, <2>3, <4>2 DEF from, x
    <3> HIDE DEF n, last, messages
    <3> QED
      BY <1>3, <1>5, <1>6, <1>8, <1>9, <2>1, <3>1, <3>2 DEF Reads
  <2> QED
    BY <2>2, <2>3
<1>11. reader'.pc # "idle"
  BY <1>8
<1> QED
  BY <1>1, <1>2, <1>8, <1>10, <1>11 DEF ReadInv

\* A reader that finds no block is at the footer, unless the file was damaged.
LEMMA FooterFound ==
  ASSUME NEW v \in Version, NEW st, NEW g, NEW off, Framed(g, st, v, off),
         NEW r \in Reader, Reads(r, g, st, v, off), r.pc = "cells",
         ~(r.cell <= Len(r.file) /\ IsBlock(r.file[r.cell]))
  PROVE  /\ AtEnd(r) <=> r.sound
         /\ r.sound => r.seen = Len(Entries(v))
<1>1. /\ r.cell \in 2..Len(g) /\ r.checked = v
      /\ \A i \in 2..(r.cell - 1) : i <= Len(r.file) /\ r.file[i] = g[i]
      /\ IF r.sound THEN r.file = g ELSE r.file \in Damaged(g)
      /\ r.seen = off[r.cell - 1]
  BY DEF Reads
<1>2. v # NoVersion /\ r.file[1] = Header(v)
  BY <1>1, Messages DEF Reads
<1>3. /\ Len(g) \in Nat /\ Len(g) >= 2 /\ g[Len(g)] = Footer(Len(Entries(v)))
      /\ off[Len(g) - 1] = Len(Entries(v))
      /\ \A i \in 2..(Len(g) - 1) : IsBlock(g[i])
  BY FramedFile
<1>4. CASE r.sound
  <2>1. r.file = g /\ r.cell <= Len(g) /\ ~IsBlock(g[r.cell])
    BY <1>1, <1>3, <1>4
  <2>2. r.cell \notin 2..(Len(g) - 1)
    BY <1>3, <2>1
  <2>3. r.cell = Len(g)
    BY <1>1, <1>3, <2>2
  <2> QED
    BY <1>1, <1>3, <1>4, <2>1, <2>3 DEF AtEnd
<1>5. CASE ~r.sound
  <2> DEFINE f == r.file
             c == r.cell
  <2>1. /\ f \in Damaged(g) /\ f[1] = Header(v) /\ c \in 2..Len(g)
        /\ \A i \in 2..(c - 1) : i <= Len(f) /\ f[i] = g[i]
    BY <1>1, <1>2, <1>5
  <2> HIDE DEF f, c
  <2>2. ~(c = Len(f) /\ f[c] = Footer(off[c - 1]))
    BY <2>1, DamageIsFound
  <2> QED
    BY <1>1, <1>5, <2>2 DEF f, c, AtEnd
<1> QED
  BY <1>4, <1>5

LEMMA ReadFooterKeeps ==
  ASSUME TypeOK, ReadInv, ReadFooter
  PROVE  reader' \in Reader /\ ReadInv'
<1>1. /\ reader \in Reader /\ reader.pc = "cells" /\ UNCHANGED source
      /\ ~(reader.cell <= Len(reader.file) /\ IsBlock(reader.file[reader.cell]))
      /\ reader' = IF AtEnd(reader)
                   THEN [reader EXCEPT !.pc = "done", !.delivered = @ \o reader.batch,
                                       !.batch = <<>>]
                   ELSE [reader EXCEPT !.pc = "failed"]
  BY ReaderFields DEF ReadFooter, ReaderStep
<1>2. PICK v, st, g, off :
        /\ v \in Version /\ st \in Stamps(v, source) /\ g \in Seq(Cell)
        /\ off \in [1..(Len(g) - 1) -> 0..Len(Entries(v))]
        /\ Framed(g, st, v, off) /\ Reads(reader, g, st, v, off)
  BY <1>1, Reading
<1>3. /\ AtEnd(reader) <=> reader.sound
      /\ reader.sound => reader.seen = Len(Entries(v))
  BY <1>1, <1>2, FooterFound
<1>4. reader' \in Reader /\ reader'.pc # "idle" /\ Reads(reader', g, st, v, off)
  <2>1. CASE ~AtEnd(reader)
    BY <1>1, <1>2, <1>3, <2>1, Fails
  <2>2. CASE AtEnd(reader)
    <3> DEFINE d == reader.delivered \o reader.batch
    <3>1. d \in Seq(Message) /\ d \o <<>> = d /\ <<>> \in Seq(Message)
      <4>1. reader.delivered \in Seq(Message) /\ reader.batch \in Seq(Message)
        BY <1>1 DEF Reader
      <4>2. d \in Seq(Message)
        BY <4>1, ConcatProperties
      <4> HIDE DEF d
      <4> QED
        BY <4>2, ConcatEmptySeq, EmptySeq
    <3>2. reader' = [reader EXCEPT !.pc = "done", !.delivered = d, !.batch = <<>>]
      BY <1>1, <2>2
    <3> HIDE DEF d
    <3>3. reader' = [pc |-> "done", file |-> reader.file, range |-> reader.range,
                     checked |-> reader.checked, sound |-> reader.sound, cell |-> reader.cell,
                     next |-> reader.next, seen |-> reader.seen, previous |-> reader.previous,
                     batch |-> <<>>, delivered |-> d]
      BY <1>1, <3>2 DEF Reader
    <3>4. /\ reader'.pc = "done" /\ reader'.file = reader.file /\ reader'.range = reader.range
          /\ reader'.checked = reader.checked /\ reader'.sound = reader.sound
          /\ reader'.cell = reader.cell /\ reader'.next = reader.next
          /\ reader'.seen = reader.seen /\ reader'.previous = reader.previous
          /\ reader'.batch = <<>> /\ reader'.delivered = d
      BY <3>3
    <3>5. reader' \in Reader
      <4>1. /\ reader.file \in Seq(Cell) /\ reader.range \in [start : Int, end : Int]
            /\ reader.checked \in Version \cup {NoVersion} /\ reader.sound \in BOOLEAN
            /\ reader.cell \in Nat \ {0} /\ reader.next \in Nat \ {0} /\ reader.seen \in Nat
            /\ reader.previous \in Nat \cup {NoTime}
        BY <1>1 DEF Reader
      <4> QED
        BY <3>1, <3>3, <4>1 DEF Reader, ReaderLabel
    <3>6. Progress(reader', v, reader.seen)
      <4>1. Progress(reader, v, reader.seen)
        BY <1>2 DEF Reads
      <4>2. reader'.delivered \o reader'.batch = reader.delivered \o reader.batch
        BY <3>1, <3>4 DEF d
      <4> QED
        BY <3>4, <4>1, <4>2, SameProgress
    <3>7. reader.checked = v /\ v # NoVersion
      BY <1>1, <1>2, Messages DEF Reads
    <3> QED
      BY <1>2, <1>3, <2>2, <3>4, <3>5, <3>6, <3>7 DEF Reads
  <2> QED
    BY <2>1, <2>2
<1> QED
  BY <1>1, <1>2, <1>4 DEF ReadInv

LEMMA CloseCacheKeeps ==
  ASSUME CloseCache
  PROVE  reader' \in Reader /\ ReadInv'
<1>1. reader' = NoReader
  BY DEF CloseCache
<1>2. NoReader \in Reader /\ NoReader.pc = "idle"
  BY EmptySeq DEF NoReader, Reader, ReaderLabel, NoTime
<1> QED
  BY <1>1, <1>2 DEF ReadInv

LEMMA ReaderKeeps ==
  ASSUME Inv, ReadStep
  PROVE  Inv'
<1>1. TypeOK /\ CacheInv /\ BuildInv /\ ReadInv
  BY DEF Inv
<1>2. UNCHANGED <<source, cache, part, spool, builder, tampered, troubles>>
  BY DEF ReadStep, OpenCache, CheckHeader, ReadBlock, TakeMessage, ReadFooter, CloseCache,
         ReaderStep, files
<1>3. reader' \in Reader /\ ReadInv'
  BY <1>1, OpenCacheKeeps, CheckHeaderKeeps, ReadBlockKeeps, TakeMessageKeeps, ReadFooterKeeps,
     CloseCacheKeeps DEF ReadStep
<1>4. CacheInv' /\ BuildInv'
  BY <1>1, <1>2 DEF CacheInv, BuildInv
<1>5. TypeOK'
  BY <1>1, <1>2, <1>3 DEF TypeOK, Reader
<1> QED
  BY <1>3, <1>4, <1>5 DEF Inv

-----------------------------------------------------------------------------
(* The invariant, and the theorems.                                        *)

LEMMA InvInit == Init => Inv
<1> SUFFICES ASSUME Init PROVE Inv
  OBVIOUS
<1>1. /\ source = 1 /\ cache = NoFile /\ part = NoFile /\ spool = NoFile /\ builder = NoBuilder
      /\ reader = NoReader /\ tampered = FALSE /\ troubles = 0
  BY DEF Init
<1>2. NoReader \in Reader /\ NoReader.pc = "idle"
  BY EmptySeq DEF NoReader, Reader, ReaderLabel, NoTime
<1>3. NoBuilder \in Builder /\ NoBuilder.pc = "idle"
  BY EmptySeq DEF NoBuilder, Builder, BuilderLabel
<1>4. TypeOK
  <2>1. source \in Version /\ troubles \in 0..MaxTroubles /\ tampered \in BOOLEAN
    <3>1. source \in Version /\ tampered \in BOOLEAN
      BY <1>1, Messages
    <3>2. troubles \in 0..MaxTroubles
      BY <1>1, ConstantsOK
    <3> QED
      BY <3>1, <3>2
  <2>2. cache \in CacheFile /\ part \in CacheFile /\ spool \in Seq(Message) \cup {NoFile}
    BY <1>1 DEF CacheFile
  <2>3. reader \in Reader /\ builder \in Builder
    BY <1>1, <1>2, <1>3
  <2> QED
    BY <2>1, <2>2, <2>3 DEF TypeOK, Reader, Builder
<1>5. CacheInv /\ BuildInv /\ ReadInv
  BY <1>1, <1>2, <1>3 DEF CacheInv, BuildInv, ReadInv
<1> QED
  BY <1>4, <1>5 DEF Inv

LEMMA InvNext == Inv /\ [Next]_vars => Inv'
<1> SUFFICES ASSUME Inv, [Next]_vars PROVE Inv'
  OBVIOUS
<1>1. CASE BuilderStep \/ Environment
  BY <1>1, OthersKeep
<1>2. CASE ReadStep
  BY <1>2, ReaderKeeps
<1>3. CASE UNCHANGED vars
  BY <1>3 DEF vars, files, Inv, TypeOK, CacheInv, BuildInv, ReadInv
<1> QED
  BY <1>1, <1>2, <1>3 DEF Next

LEMMA Invariance == Spec => []Inv
BY InvInit, InvNext, PTL DEF Spec

\* Every variable keeps its type: the files stay sequences of cells, the builder and the reader
\* stay at known labels (parsed_cache.cpp, generate_parsed_cache and read_parsed_cache).
THEOREM TypesAreKept == Spec => []TypeOK
BY Invariance, PTL DEF Inv

\* Whatever was killed, failed or left behind, a file under the final name that nobody has damaged
\* is complete: generate_parsed_cache renames only what it has finished.
THEOREM PublishedFilesAreComplete == Spec => []PublishedIsComplete
<1>1. Inv => PublishedIsComplete
  <2> SUFFICES ASSUME Inv, cache # NoFile, ~tampered
               PROVE  /\ WellFramed(cache)
                      /\ \A i \in Blocks(cache) : cache[i].intact
                      /\ \E v \in Version : Contents(cache) = StableOrder(MessagesOf(v))
    BY DEF PublishedIsComplete
  <2>1. PICK v \in Version : \E st \in Stamps(v, source) : Finished(cache, st, v)
    BY DEF Inv, CacheInv
  <2>2. PICK st \in Stamps(v, source) : Finished(cache, st, v)
    BY <2>1
  <2> QED
    BY <2>1, <2>2, FramedIsSound
<1> QED
  BY <1>1, Invariance, PTL

\* A read that ends well was of a file that nobody has damaged, and a read of such a file fails
\* only because it is stale, before it has handed out anything.
THEOREM OutcomesFollowFiles == Spec => []OutcomeFollowsFile
<1>1. Inv => OutcomeFollowsFile
  <2> SUFFICES ASSUME Inv PROVE OutcomeFollowsFile
    OBVIOUS
  <2>1. TypeOK /\ ReadInv
    BY DEF Inv
  <2>2. CASE reader.pc = "idle"
    BY <2>2 DEF OutcomeFollowsFile
  <2>3. CASE reader.pc # "idle"
    <3>1. PICK v, st, g, off :
            /\ v \in Version /\ st \in Stamps(v, source) /\ g \in Seq(Cell)
            /\ off \in [1..(Len(g) - 1) -> 0..Len(Entries(v))]
            /\ Framed(g, st, v, off) /\ Reads(reader, g, st, v, off)
      BY <2>1, <2>3, Reading
    <3> QED
      BY <3>1 DEF Reads, OutcomeFollowsFile
  <2> QED
    BY <2>2, <2>3
<1> QED
  BY <1>1, Invariance, PTL

\* When generation reports success on a file that nobody has damaged, the file holds what the
\* source holds at that moment: the fingerprint in the header is that of the source, and what was
\* read after it was taken is not older.
THEOREM BuiltCachesAreCurrent == Spec => BuiltIsCurrent
<1>1. ASSUME Inv, InspectBuilt, builder'.pc = "built", ~tampered
      PROVE  Contents(cache) = StableOrder(MessagesOf(source))
  <2>1. cache # NoFile /\ cache # <<>> /\ cache[1] = Header(source) /\ source \in Version
    <3>1. builder' = [builder EXCEPT !.pc = IF Accepted THEN "built" ELSE "failed"]
      BY <1>1 DEF InspectBuilt
    <3>2. builder \in Builder
      BY <1>1 DEF Inv, TypeOK, Builder
    <3>3. Accepted
      <4> SUFFICES ASSUME ~Accepted PROVE FALSE
        OBVIOUS
      <4>1. builder' = [builder EXCEPT !.pc = "failed"]
        BY <3>1
      <4> QED
        BY <1>1, <3>2, <4>1 DEF Builder
    <3> QED
      BY <1>1, <3>3 DEF Accepted, Reusable, Fresh, Inv, TypeOK
  <2>2. PICK v \in Version : \E st \in Stamps(v, source) : Finished(cache, st, v)
    BY <1>1, <2>1 DEF Inv, CacheInv
  <2>3. PICK st \in Stamps(v, source) : Finished(cache, st, v)
    BY <2>2
  <2>4. cache[1] = Header(st) /\ Contents(cache) = StableOrder(MessagesOf(v))
    BY <2>2, <2>3, FramedIsSound
  <2>5. st = source
    BY <2>1, <2>4, Cells
  <2>6. v = source
    BY <2>1, <2>3, <2>5, Messages DEF Stamps
  <2> QED
    BY <2>4, <2>6
<1>2. ASSUME Inv, Next, builder.pc = "inspect", builder'.pc = "built", ~tampered
      PROVE  Contents(cache) = StableOrder(MessagesOf(source))
  <2>1. builder \in Builder
    BY <1>2 DEF Inv, TypeOK, Builder
  <2>2. InspectBuilt
    <3> SUFFICES ASSUME ~InspectBuilt PROVE FALSE
      OBVIOUS
    <3>1. \/ builder' = builder \/ builder' = NoBuilder
          \/ builder' = [builder EXCEPT !.pc = "failed"]
      BY <1>2 DEF Next, BuilderStep, ReadStep, Environment, CheckCache, CreateWriter, OpenSource,
         ParseBatch, SortSpool, WriteBlock, WriteFooter, Publish, LoseFile, Restart, FailBuild,
         Crash, ReplaceSource, Damage, ClearCache, OpenCache, CheckHeader, ReadBlock, TakeMessage,
         ReadFooter, CloseCache, ReaderStep
    <3> QED
      BY <1>2, <2>1, <3>1 DEF Builder, NoBuilder
  <2> QED
    BY <1>1, <1>2, <2>2
<1>3. ASSUME Inv, [Next]_vars
      PROVE  [builder.pc = "inspect" /\ builder'.pc = "built" /\ ~tampered
                => Contents(cache) = StableOrder(MessagesOf(source))]_vars
  BY <1>2, <1>3
<1> QED
  BY <1>3, Invariance, PTL DEF Spec, BuiltIsCurrent

\* The messages a read has taken so far are the first of those that were asked for.
LEMMA TakenSoFar ==
  ASSUME Inv, reader.checked # NoVersion, reader.pc # "idle"
  PROVE  /\ Requested \subseteq MessagesOf(reader.checked) /\ reader.checked \in Version
         /\ reader.delivered \o reader.batch \in Seq(Message)
         /\ reader.delivered \in Seq(Message) /\ reader.batch \in Seq(Message)
         /\ reader.pc = "done" => reader.batch = <<>>
         /\ reader.pc # "done" => Len(reader.delivered) % BatchSize = 0
         /\ \E n \in 0..Len(Entries(reader.checked)) :
              /\ Selects(reader.delivered \o reader.batch, reader.checked, n, reader.range)
              /\ reader.pc = "done" => n = Len(Entries(reader.checked))
<1>1. reader \in Reader /\ TypeOK /\ ReadInv
  BY DEF Inv, TypeOK, Reader
<1>2. PICK v, st, g, off :
        /\ v \in Version /\ st \in Stamps(v, source) /\ g \in Seq(Cell)
        /\ off \in [1..(Len(g) - 1) -> 0..Len(Entries(v))]
        /\ Framed(g, st, v, off) /\ Reads(reader, g, st, v, off)
  BY <1>1, Reading
<1>3. /\ reader.checked = v /\ reader.seen <= Len(Entries(v)) /\ Progress(reader, v, reader.seen)
      /\ reader.pc = "done" => reader.seen = Len(Entries(v)) /\ reader.batch = <<>>
      /\ reader.pc # "done" => Len(reader.delivered) % BatchSize = 0
  BY <1>2 DEF Reads
<1>4. /\ reader.delivered \in Seq(Message) /\ reader.batch \in Seq(Message) /\ reader.seen \in Nat
      /\ Len(Entries(v)) \in Nat
  BY <1>1, <1>2, FramedFile DEF Reader
<1>5. reader.delivered \o reader.batch \in Seq(Message)
  BY <1>4, ConcatProperties
<1>6. reader.seen \in 0..Len(Entries(v))
  BY <1>3, <1>4
<1>7. Selects(reader.delivered \o reader.batch, v, reader.seen, reader.range)
  BY <1>3 DEF Progress
<1> QED
  BY <1>2, <1>3, <1>4, <1>5, <1>6, <1>7 DEF Requested

\* The messages of a version that are in a range.
Asked(v, range) == {m \in MessagesOf(v) : Ts(m) \in range.start..(range.end - 1)}

\* The first messages of a version, those of a range, are the first of the order of all messages
\* of the range, and all of them when they are of the whole version.
LEMMA SelectedFirst ==
  ASSUME NEW v \in Version, NEW range \in [start : Int, end : Int],
         NEW n \in 0..Len(Entries(v)), NEW d \in Seq(Message), Selects(d, v, n, range)
  PROVE  /\ Len(d) <= Cardinality(Asked(v, range))
         /\ \A i \in 1..Len(d) : StableOrder(Asked(v, range))[i] = d[i]
         /\ n = Len(Entries(v)) => StableOrder(Asked(v, range)) = d
<1> DEFINE S == Asked(v, range)
           e == Entries(v)
           In(m) == InRange(range, m)
<1>1. /\ e \in Seq(Message) /\ Len(e) \in Nat /\ DOMAIN e = 1..Len(e) /\ Ascending(e)
      /\ \A j \in 1..Len(e) : e[j] \in Message /\ e[j] \in MessagesOf(v)
      /\ \A m \in MessagesOf(v) : \E j \in 1..Len(e) : m = e[j]
  BY Sorting, LenProperties, ElementOfSeq
<1>2. S \subseteq MessagesOf(v) /\ MessagesOf(v) \subseteq Message
  BY Messages DEF Asked
<1>3. \A m \in MessagesOf(v) : m \in S <=> In(m)
  <2> SUFFICES ASSUME NEW m \in MessagesOf(v) PROVE m \in S <=> In(m)
    OBVIOUS
  <2> DEFINE t == Ts(m)
             from == range.start
             to == range.end
  <2>1. t \in Int /\ from \in Int /\ to \in Int
    BY <1>2, Messages
  <2>2. (m \in S <=> t \in from..(to - 1)) /\ (In(m) <=> from <= t /\ t < to)
    BY DEF InRange, Asked
  <2> HIDE DEF t, from, to, In
  <2>3. t \in from..(to - 1) <=> from <= t /\ t < to
    BY <2>1
  <2> QED
    BY <2>2, <2>3
<1> HIDE DEF e, In, S
<1>4. /\ Ascending(d)
      /\ \A i \in 1..Len(d) : \E j \in 1..n : d[i] = e[j] /\ In(e[j])
      /\ \A j \in 1..n : In(e[j]) => \E i \in 1..Len(d) : d[i] = e[j]
  BY DEF Selects, e, In
<1>5. n \in Nat /\ n <= Len(e) /\ \A j \in 1..n : j \in 1..Len(e)
  <2>1. n \in 0..Len(e)
    BY DEF e
  <2> QED
    BY <1>1, <2>1
<1>6. \A i \in 1..Len(d) : d[i] \in S
  <2> SUFFICES ASSUME NEW i \in 1..Len(d) PROVE d[i] \in S
    OBVIOUS
  <2>1. PICK j \in 1..n : d[i] = e[j] /\ In(e[j])
    BY <1>4
  <2> QED
    BY <1>1, <1>3, <1>5, <2>1
<1>7. ASSUME NEW m \in S, NEW i \in 1..Len(d), Earlier(m, d[i])
      PROVE  \E j \in 1..Len(d) : m = d[j]
  <2>1. PICK j \in 1..n : d[i] = e[j]
    BY <1>4
  <2>2. m \in MessagesOf(v) /\ m \in Message /\ In(m)
    BY <1>2, <1>3
  <2>3. PICK k \in 1..Len(e) : m = e[k]
    BY <1>1, <2>2
  <2>4. j \in 1..Len(e) /\ e[j] \in Message /\ e[k] \in Message
    BY <1>1, <1>5, <2>1
  <2>5. k < j
    <3> SUFFICES ASSUME ~(k < j) PROVE FALSE
      OBVIOUS
    <3>1. k = j \/ j < k
      BY <2>4
    <3>2. CASE k = j
      BY <1>7, <2>1, <2>3, <2>4, <3>2, EarlierIsOrder
    <3>3. CASE j < k
      <4>1. Earlier(e[j], e[k])
        BY <1>1, <2>4, <3>3 DEF Ascending
      <4>2. Earlier(e[k], e[j])
        BY <1>7, <2>1, <2>3
      <4> QED
        BY <2>4, <4>1, <4>2, EarlierIsOrder
    <3> QED
      BY <3>1, <3>2, <3>3
  <2>6. k \in 1..n
    BY <1>5, <2>4, <2>5
  <2>7. PICK h \in 1..Len(d) : d[h] = e[k]
    BY <1>4, <2>2, <2>3, <2>6
  <2> QED
    BY <2>3, <2>7
<1>8. /\ Len(d) <= Cardinality(S)
      /\ \A i \in 1..Len(d) : StableOrder(S)[i] = d[i]
  <2>1. \A m \in S : \A i \in 1..Len(d) : Earlier(m, d[i]) => \E j \in 1..Len(d) : m = d[j]
    BY <1>7
  <2>2. Ascending(d) /\ S \subseteq MessagesOf(v)
    BY <1>2, <1>4
  <2> QED
    BY <1>6, <2>1, <2>2, BeginsTheOrder
<1>9. ASSUME n = Len(e)
      PROVE  StableOrder(S) = d
  <2>1. \A m \in S : \E i \in 1..Len(d) : m = d[i]
    <3> SUFFICES ASSUME NEW m \in S PROVE \E i \in 1..Len(d) : m = d[i]
      OBVIOUS
    <3>1. m \in MessagesOf(v) /\ In(m)
      BY <1>2, <1>3
    <3>2. PICK k \in 1..Len(e) : m = e[k]
      BY <1>1, <3>1
    <3> QED
      BY <1>4, <1>9, <3>1, <3>2
  <2> QED
    BY <1>2, <1>4, <1>6, <2>1, IsTheOrder
<1> QED
  BY <1>8, <1>9 DEF e, S

\* A read that ends well has handed out the messages that the source held when its fingerprint
\* was compared, those of the chunk, in stable order, each once; any other has handed out whole
\* batches from the beginning of that sequence (read_parsed_cache).
THEOREM ReadsAreFaithful == Spec => []ReadIsFaithful
<1>1. Inv => ReadIsFaithful
  <2> SUFFICES ASSUME Inv, reader.checked # NoVersion PROVE ReadIsFaithful
    BY DEF ReadIsFaithful
  <2>1. reader.pc # "idle"
    <3> SUFFICES ASSUME reader.pc = "idle" PROVE FALSE
      OBVIOUS
    <3>1. reader = NoReader
      BY DEF Inv, ReadInv
    <3> QED
      BY <3>1 DEF NoReader
  <2> DEFINE v == reader.checked
             S == Requested
             out == reader.delivered
             batch == reader.batch
             d == out \o batch
             order == StableOrder(S)
             k == Len(out)
  <2>2. /\ v \in Version /\ S \subseteq MessagesOf(v)
        /\ d \in Seq(Message) /\ out \in Seq(Message) /\ batch \in Seq(Message)
        /\ reader.pc = "done" => batch = <<>>
        /\ reader.pc # "done" => k % BatchSize = 0
    BY <2>1, TakenSoFar
  <2>3. PICK n \in 0..Len(Entries(v)) :
          /\ Selects(d, v, n, reader.range)
          /\ reader.pc = "done" => n = Len(Entries(v))
    BY <2>1, TakenSoFar
  <2>4. /\ Len(d) <= Cardinality(S)
        /\ \A i \in 1..Len(d) : order[i] = d[i]
        /\ n = Len(Entries(v)) => order = d
    <3>1. reader.range \in [start : Int, end : Int]
      BY ReaderFields DEF Inv
    <3>2. S = Asked(v, reader.range)
      BY DEF Requested, Asked
    <3> HIDE DEF S, v, d
    <3> QED
      BY <2>2, <2>3, <3>1, <3>2, SelectedFirst
  <2>5. reader.pc = "done" => out = order
    <3> SUFFICES ASSUME reader.pc = "done" PROVE out = order
      OBVIOUS
    <3>1. batch = <<>> /\ order = d
      BY <2>2, <2>3, <2>4
    <3> HIDE DEF out, batch, order
    <3>2. d = out
      BY <2>2, <3>1, ConcatEmptySeq
    <3> QED
      BY <3>1, <3>2
  <2>6. IsPrefix(out, order)
    <3>1. k \in Nat /\ Len(batch) \in Nat /\ Len(d) = k + Len(batch)
          /\ \A i \in 1..k : d[i] = out[i]
      <4> HIDE DEF out, batch
      <4> QED
        BY <2>2, LenProperties, ConcatProperties
    <3>2. Cardinality(S) \in Nat /\ Len(order) = Cardinality(S)
      <4>1. IsFiniteSet(S)
        BY <2>2, MessagesFinite, FS_Subset
      <4>2. Cardinality(S) \in Nat
        BY <4>1, FS_CardinalityType
      <4> DEFINE c == Cardinality(S)
                 at(i) == CHOOSE m \in S : Cardinality({o \in S : Earlier(o, m)}) = i - 1
      <4>3. order = [i \in 1..c |-> at(i)]
        BY DEF StableOrder
      <4> HIDE DEF at, c, order
      <4>4. c \in Nat => Len(order) = c
        BY <4>3
      <4> QED
        BY <4>2, <4>4 DEF c
    <3> HIDE DEF k, d, order, S, out, batch
    <3>3. \A i \in 1..k : order[i] = out[i] /\ out[i] \in Message
      <4>1. \A i \in 1..k : i \in 1..Len(d)
        BY <3>1
      <4>2. \A i \in 1..k : out[i] \in Message
        BY <2>2, ElementOfSeq DEF k
      <4> QED
        BY <2>4, <3>1, <4>1, <4>2
    <3>4. k <= Len(order)
      BY <2>4, <3>1, <3>2
    <3>5. SubSeq(out, 1, k) = SubSeq(order, 1, k)
      <4>1. \A i \in 1..k : order[i] \in Message
        BY <3>3
      <4> DEFINE a == SubSeq(out, 1, k)
                 b == SubSeq(order, 1, k)
      <4>2. /\ a \in Seq(Message) /\ Len(a) = (IF 1 <= k THEN k - 1 + 1 ELSE 0)
            /\ \A i \in 1..(k - 1 + 1) : a[i] = out[1 + i - 1]
        BY <3>1, <3>3, SubSeqProperties
      <4>3. /\ b \in Seq(Message) /\ Len(b) = (IF 1 <= k THEN k - 1 + 1 ELSE 0)
            /\ \A i \in 1..(k - 1 + 1) : b[i] = order[1 + i - 1]
        BY <3>1, <4>1, SubSeqProperties
      <4> HIDE DEF a, b
      <4>4. /\ Len(a) = k /\ Len(b) = k
            /\ \A i \in 1..k : i \in 1..(k - 1 + 1) /\ 1 + i - 1 = i
        BY <3>1, <4>2, <4>3
      <4>5. \A i \in 1..k : a[i] = b[i]
        BY <3>3, <4>2, <4>3, <4>4
      <4>6. a = b
        BY <4>2, <4>3, <4>4, <4>5, SeqEqual
      <4> QED
        BY <4>6 DEF a, b
    <3> QED
      BY <3>4, <3>5 DEF IsPrefix, k
  <2> HIDE DEF order, out
  <2> QED
    BY <2>2, <2>5, <2>6 DEF ReadIsFaithful, order, out
<1> QED
  BY <1>1, Invariance, PTL
=============================================================================
