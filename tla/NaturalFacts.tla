----------------------------- MODULE NaturalFacts -----------------------------
(***************************************************************************)
(* Facts about sets of natural numbers that the proofs share.  Induction is *)
(* stated of a set and not of a predicate, so that it can be cited with any *)
(* set {n \in Nat : ...}.                                                   *)
(***************************************************************************)
EXTENDS Integers, WellFoundedInduction, TLAPS

\* A set of natural numbers with an element has a least one.
LEMMA LeastNatural ==
  ASSUME NEW S, S \subseteq Nat, S # {}
  PROVE  \E m \in S : \A n \in S : m <= n
<1> DEFINE R == OpToRel(<, Nat)
<1>1. IsWellFoundedOn(R, Nat)
  BY NatLessThanWellFounded
<1>2. R = {p \in Nat \X Nat : p[1] < p[2]}
  BY Zenon DEF OpToRel
<1> HIDE DEF R
<1>3. PICK m \in S : \A n \in S : ~(<<n, m>> \in R)
  BY <1>1, WFMin
<1>4. \A n \in S : ~(n < m)
  BY <1>2, <1>3
<1> QED
  BY <1>3, <1>4

\* A set of numbers that has 0 and the successor of each of its elements has all.
LEMMA NatSetInduction ==
  ASSUME NEW S, 0 \in S, \A n \in Nat : n \in S => n + 1 \in S
  PROVE  \A n \in Nat : n \in S
<1> SUFFICES ASSUME NEW k \in Nat, k \notin S PROVE FALSE
  OBVIOUS
<1> DEFINE T == {n \in Nat : n \notin S}
<1>1. PICK m \in T : \A n \in T : m <= n
  <2>1. T \subseteq Nat /\ T # {}
    OBVIOUS
  <2> HIDE DEF T
  <2> QED
    BY <2>1, LeastNatural
<1>2. m - 1 \in Nat /\ m - 1 \in S
  BY <1>1
<1>3. (m - 1) + 1 \in S /\ (m - 1) + 1 = m
  BY <1>1, <1>2
<1> QED
  BY <1>1, <1>3

-----------------------------------------------------------------------------
(* Sums, as recursive functions.                                           *)

RunningSum(g) == LET s[n \in Nat] == IF n = 0 THEN 0 ELSE s[n - 1] + g[n] IN s

\* The equation of a running sum has a solution.
LEMMA RunningSumExists ==
  ASSUME NEW g
  PROVE  \E s : s = [n \in Nat |-> IF n = 0 THEN 0 ELSE s[n - 1] + g[n]]
<1> DEFINE Upto(n, s) == s = [k \in 0..n |-> IF k = 0 THEN 0 ELSE s[k - 1] + g[k]]
           E == {n \in Nat : \E s : Upto(n, s)}
           part(n) == CHOOSE s : Upto(n, s)
           sum == [n \in Nat |-> part(n)[n]]
<1>1. \A n \in Nat : n \in E
  <2>1. 0 \in E
    <3> DEFINE s == [k \in 0..0 |-> 0]
    <3>1. Upto(0, s)
      OBVIOUS
    <3> QED
      BY <3>1
  <2>2. ASSUME NEW n \in Nat, n \in E
        PROVE  n + 1 \in E
    <3>1. PICK s : Upto(n, s)
      BY <2>2
    <3> DEFINE t == [k \in 0..(n + 1) |-> IF k = n + 1 THEN s[n] + g[n + 1] ELSE s[k]]
    <3>2. \A k \in 0..n : s[k] = IF k = 0 THEN 0 ELSE s[k - 1] + g[k]
      BY <3>1
    <3>3. \A k \in 0..(n + 1) : t[k] = IF k = 0 THEN 0 ELSE t[k - 1] + g[k]
      BY <3>2
    <3>4. t = [k \in 0..(n + 1) |-> t[k]]
      OBVIOUS
    <3> HIDE DEF t
    <3>5. Upto(n + 1, t)
      BY <3>3, <3>4
    <3> QED
      BY <3>5
  <2> HIDE DEF E
  <2> QED
    BY <2>1, <2>2, NatSetInduction
<1>2. \A n \in Nat : Upto(n, part(n))
  BY <1>1
<1>3. ASSUME NEW n \in Nat
      PROVE  /\ part(n)[0] = 0
             /\ \A k \in 1..n : part(n)[k] = part(n)[k - 1] + g[k]
  <2> DEFINE s == part(n)
  <2>1. s = [k \in 0..n |-> IF k = 0 THEN 0 ELSE s[k - 1] + g[k]]
    BY <1>2
  <2> HIDE DEF s
  <2>2. s[0] = 0 /\ \A k \in 1..n : s[k] = s[k - 1] + g[k]
    BY <2>1
  <2> QED
    BY <2>2 DEF s
<1> HIDE DEF part
\* Two partial sums agree where both are defined.
<1>4. ASSUME NEW n \in Nat
      PROVE  part(n + 1)[n] = part(n)[n]
  <2> DEFINE A == {k \in Nat : k <= n => part(n + 1)[k] = part(n)[k]}
  <2>1. 0 \in A
    BY <1>3
  <2>2. ASSUME NEW k \in Nat, k \in A
        PROVE  k + 1 \in A
    <3> SUFFICES ASSUME k + 1 <= n PROVE part(n + 1)[k + 1] = part(n)[k + 1]
      OBVIOUS
    <3>1. part(n + 1)[k] = part(n)[k]
      BY <2>2
    <3>2. /\ k + 1 \in 1..n /\ k + 1 \in 1..(n + 1) /\ (k + 1) - 1 = k
      OBVIOUS
    <3>3. part(n)[k + 1] = part(n)[(k + 1) - 1] + g[k + 1]
      BY <1>3, <3>2
    <3>4. part(n + 1)[k + 1] = part(n + 1)[(k + 1) - 1] + g[k + 1]
      BY <1>3, <3>2
    <3> QED
      BY <3>1, <3>2, <3>3, <3>4
  <2> HIDE DEF A
  <2>3. n \in A
    BY <2>1, <2>2, NatSetInduction
  <2> QED
    BY <2>3 DEF A
<1>5. \A n \in Nat : sum[n] = IF n = 0 THEN 0 ELSE sum[n - 1] + g[n]
  <2> SUFFICES ASSUME NEW n \in Nat
               PROVE  part(n)[n] = IF n = 0 THEN 0 ELSE part(n - 1)[n - 1] + g[n]
    OBVIOUS
  <2>1. CASE n = 0
    BY <1>3, <2>1
  <2>2. CASE n # 0
    <3>1. n - 1 \in Nat /\ (n - 1) + 1 = n /\ n \in 1..n
      BY <2>2
    <3>2. part(n)[n - 1] = part(n - 1)[n - 1]
      BY <1>4, <3>1
    <3> QED
      BY <1>3, <2>2, <3>1, <3>2
  <2> QED
    BY <2>1, <2>2
<1>6. sum = [n \in Nat |-> sum[n]]
  OBVIOUS
<1> HIDE DEF sum
<1>7. sum = [n \in Nat |-> IF n = 0 THEN 0 ELSE sum[n - 1] + g[n]]
  BY <1>5, <1>6
<1> QED
  BY <1>7

LEMMA RunningSumStep ==
  ASSUME NEW g
  PROVE  /\ RunningSum(g)[0] = 0
         /\ \A n \in Nat \ {0} : RunningSum(g)[n] = RunningSum(g)[n - 1] + g[n]
<1> DEFINE s == RunningSum(g)
<1>1. s = [n \in Nat |-> IF n = 0 THEN 0 ELSE s[n - 1] + g[n]]
  BY RunningSumExists, Zenon DEF RunningSum
<1> HIDE DEF s
<1>2. /\ s[0] = 0
      /\ \A n \in Nat \ {0} : s[n] = s[n - 1] + g[n]
  BY <1>1
<1> QED
  BY <1>2 DEF s

LEMMA RunningSumNext ==
  ASSUME NEW g, NEW n \in Nat
  PROVE  RunningSum(g)[n + 1] = RunningSum(g)[n] + g[n + 1]
<1>1. n + 1 \in Nat \ {0} /\ (n + 1) - 1 = n
  OBVIOUS
<1> QED
  BY <1>1, RunningSumStep

\* A sum of natural numbers is one.
LEMMA RunningSumType ==
  ASSUME NEW N \in Nat, NEW g, \A i \in 1..N : g[i] \in Nat
  PROVE  RunningSum(g)[N] \in Nat
<1> DEFINE S == {n \in Nat : n <= N => RunningSum(g)[n] \in Nat}
<1>1. 0 \in S
  BY RunningSumStep
<1>2. ASSUME NEW n \in Nat, n \in S
      PROVE  n + 1 \in S
  <2>1. RunningSum(g)[n + 1] = RunningSum(g)[n] + g[n + 1]
    BY RunningSumNext
  <2>2. n + 1 <= N => n + 1 \in 1..N
    OBVIOUS
  <2> QED
    BY <1>2, <2>1, <2>2
<1> HIDE DEF S
<1>3. N \in S
  BY <1>1, <1>2, NatSetInduction
<1> QED
  BY <1>3 DEF S

\* The sum of zeros.
LEMMA RunningSumZero ==
  ASSUME NEW N \in Nat, NEW g, \A i \in 1..N : g[i] = 0
  PROVE  RunningSum(g)[N] = 0
<1> DEFINE S == {n \in Nat : n <= N => RunningSum(g)[n] = 0}
<1>1. 0 \in S
  BY RunningSumStep
<1>2. ASSUME NEW n \in Nat, n \in S
      PROVE  n + 1 \in S
  <2>1. RunningSum(g)[n + 1] = RunningSum(g)[n] + g[n + 1]
    BY RunningSumNext
  <2>2. n + 1 <= N => n + 1 \in 1..N
    OBVIOUS
  <2> QED
    BY <1>2, <2>1, <2>2
<1> HIDE DEF S
<1>3. N \in S
  BY <1>1, <1>2, NatSetInduction
<1> QED
  BY <1>3 DEF S

\* One term of a sum changes: the sum changes by as much.
LEMMA RunningSumChange ==
  ASSUME NEW N \in Nat, NEW k \in 1..N,
         NEW g \in [1..N -> Nat], NEW h \in [1..N -> Nat],
         \A i \in (1..N) \ {k} : h[i] = g[i]
  PROVE  /\ RunningSum(g)[N] \in Nat /\ RunningSum(h)[N] \in Nat
         /\ RunningSum(h)[N] = (RunningSum(g)[N] - g[k]) + h[k]
<1> DEFINE G == RunningSum(g)
           H == RunningSum(h)
           S == {n \in Nat : n < k => H[n] = G[n]}
           T == {n \in Nat : k <= n /\ n <= N => H[n] = (G[n] - g[k]) + h[k]}
<1>1. \A n \in 1..N : g[n] \in Nat /\ h[n] \in Nat
  OBVIOUS
<1>2. \A n \in 0..N : G[n] \in Nat /\ H[n] \in Nat
  <2> SUFFICES ASSUME NEW n \in 0..N PROVE G[n] \in Nat /\ H[n] \in Nat
    OBVIOUS
  <2>1. n \in Nat /\ \A i \in 1..n : g[i] \in Nat /\ h[i] \in Nat
    BY <1>1
  <2> QED
    BY <2>1, RunningSumType, Zenon
<1>3. G[0] = 0 /\ H[0] = 0
  BY RunningSumStep, Zenon
<1>4. \A n \in Nat : G[n + 1] = G[n] + g[n + 1] /\ H[n + 1] = H[n] + h[n + 1]
  BY RunningSumNext, Zenon
<1> HIDE DEF G, H
<1>5. \A n \in Nat : n \in S
  <2>1. 0 \in S
    BY <1>3
  <2>2. ASSUME NEW n \in Nat, n \in S
        PROVE  n + 1 \in S
    <3> SUFFICES ASSUME n + 1 < k PROVE H[n + 1] = G[n + 1]
      OBVIOUS
    <3>1. H[n] = G[n] /\ h[n + 1] = g[n + 1]
      BY <2>2
    <3> QED
      BY <1>4, <3>1, Zenon
  <2> HIDE DEF S
  <2> QED
    BY <2>1, <2>2, NatSetInduction
<1>6. \A n \in Nat : n \in T
  <2>1. 0 \in T
    OBVIOUS
  <2>2. ASSUME NEW n \in Nat, n \in T
        PROVE  n + 1 \in T
    <3> SUFFICES ASSUME k <= n + 1, n + 1 <= N
                 PROVE  H[n + 1] = (G[n + 1] - g[k]) + h[k]
      OBVIOUS
    <3>1. G[n] \in Nat /\ H[n] \in Nat
      BY <1>2
    <3>2. G[n + 1] = G[n] + g[n + 1] /\ H[n + 1] = H[n] + h[n + 1]
      BY <1>4
    <3>3. CASE k = n + 1
      <4>1. H[n] = G[n]
        BY <1>5, <3>3
      <4>2. g[k] \in Nat /\ h[k] \in Nat
        BY <1>1
      <4> QED
        BY <3>1, <3>2, <3>3, <4>1, <4>2
    <3>4. CASE k < n + 1
      <4>1. H[n] = (G[n] - g[k]) + h[k] /\ h[n + 1] = g[n + 1]
        BY <2>2, <3>4
      <4>2. g[k] \in Nat /\ h[k] \in Nat /\ g[n + 1] \in Nat
        BY <1>1
      <4> QED
        BY SMTT(30), <3>1, <3>2, <4>1, <4>2
    <3> QED
      BY <3>3, <3>4
  <2> HIDE DEF T
  <2> QED
    BY <2>1, <2>2, NatSetInduction
<1>7. H[N] = (G[N] - g[k]) + h[k]
  <2>1. N \in T
    BY <1>6
  <2> QED
    BY <2>1
<1> QED
  BY <1>2, <1>7 DEF G, H
=============================================================================
