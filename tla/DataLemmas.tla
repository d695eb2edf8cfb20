------------------------------- MODULE DataLemmas ------------------------------
(***************************************************************************)
(* Lemmas about data the other proofs need.  First induction and recursion *)
(* over the natural numbers and the enumeration of sets, stated with sets  *)
(* and functions: the library's own induction theorems take an operator as *)
(* a parameter, which the provers cannot instantiate; these follow from    *)
(* its theorem on minimal elements of a well-founded relation and can be   *)
(* cited for any set or function of a model.  Then lists and the plans of  *)
(* OpOrder: the order of a plan rearranges it, and the report of what is   *)
(* left out of it accounts for all of it.                                  *)
(***************************************************************************)
EXTENDS OpOrder, FiniteSetTheorems, SequenceTheorems, WellFoundedInduction, TLAPS

(* A set of natural numbers that is not empty has a least element.         *)
LEMMA LeastUnder ==
    ASSUME NEW R, IsWellFoundedOn(R, Nat), \A x, y \in Nat : y < x => <<y, x>> \in R,
           NEW T, T \subseteq Nat, T # {}
    PROVE  \E x \in T : \A y \in T : x <= y
<1>1. PICK x \in T : \A y \in T : ~(<<y, x>> \in R)
  BY WFMin
<1>2. ASSUME NEW y \in T PROVE x <= y
  <2>1. x \in Nat /\ y \in Nat
    OBVIOUS
  <2>2. ~(y < x)
    BY <1>1, <2>1
  <2> QED
    BY <2>1, <2>2
<1> QED
  BY <1>2

(* A set of natural numbers that is not empty has a least element.         *)
THEOREM LeastNatural ==
    ASSUME NEW T, T \subseteq Nat, T # {}
    PROVE  \E x \in T : \A y \in T : x <= y
<1>1. \A x, y \in Nat : y < x => <<y, x>> \in OpToRel(<, Nat)
  BY DEF OpToRel
<1> QED
  BY <1>1, NatLessThanWellFounded, LeastUnder

(* A set that holds 0, and with each number its successor, holds them all. *)
THEOREM NatSetInduction ==
    ASSUME NEW S, 0 \in S, \A n \in Nat : n \in S => n + 1 \in S
    PROVE  Nat \subseteq S
<1>1. SUFFICES ASSUME Nat \ S # {} PROVE FALSE
  OBVIOUS
<1>2. PICK x \in Nat \ S : \A y \in Nat \ S : x <= y
  BY <1>1, LeastNatural
<1>3. x # 0 /\ x - 1 \in Nat
  BY <1>2
<1> QED
  BY <1>2, <1>3

(* The equations of the recursive definition of a function's iterates.     *)
Iterates(g, F, a, n) == g = [k \in 0..n |-> IF k = 0 THEN a ELSE F[g[k - 1]]]

(* Iterating a function n times from a is well defined: the recursive      *)
(* definition of the iterates up to n has a value.                         *)
THEOREM IterationDefined ==
    ASSUME NEW S, NEW a \in S, NEW F \in [S -> S], NEW n \in Nat
    PROVE  \E g \in [0..n -> S] : Iterates(g, F, a, n)
<1> DEFINE Good(m) == \E g \in [0..m -> S] : g[0] = a /\ \A k \in 1..m : g[k] = F[g[k - 1]]
           T == {m \in Nat : Good(m)}
<1>1. 0 \in T
  <2> DEFINE g == [k \in 0..0 |-> a]
  <2>1. g \in [0..0 -> S] /\ g[0] = a /\ \A k \in 1..0 : g[k] = F[g[k - 1]]
    OBVIOUS
  <2>2. Good(0)
    BY <2>1
  <2> QED
    BY <2>2
<1>2. ASSUME NEW m \in Nat, m \in T PROVE m + 1 \in T
  <2>1. PICK g \in [0..m -> S] : g[0] = a /\ \A k \in 1..m : g[k] = F[g[k - 1]]
    BY <1>2
  <2> DEFINE h == [k \in 0..(m + 1) |-> IF k = m + 1 THEN F[g[m]] ELSE g[k]]
  <2>2. h \in [0..(m + 1) -> S]
    BY <2>1
  <2>3. h[0] = a /\ \A k \in 1..(m + 1) : h[k] = F[h[k - 1]]
    BY <2>1
  <2>4. Good(m + 1)
    <3> HIDE DEF h
    <3> QED
      BY <2>2, <2>3
  <2> QED
    BY <2>4
<1>3. n \in T
  <2> HIDE DEF T
  <2> QED
    BY <1>1, <1>2, NatSetInduction
<1>4. PICK g \in [0..n -> S] : g[0] = a /\ \A k \in 1..n : g[k] = F[g[k - 1]]
  BY <1>3
<1>5. Iterates(g, F, a, n)
  BY <1>4 DEF Iterates
<1> QED
  BY <1>5

(* So is the recursion that takes a function of its own for every step.    *)
THEOREM RecursionDefined ==
    ASSUME NEW S, NEW a \in S, NEW n \in Nat, NEW G \in [1..n -> [S -> S]]
    PROVE  \E g \in [0..n -> S] : g[0] = a /\ \A k \in 1..n : g[k] = G[k][g[k - 1]]
<1> DEFINE Good(m) == \E g \in [0..m -> S] : g[0] = a /\ \A k \in 1..m : g[k] = G[k][g[k - 1]]
           T == {m \in Nat : m <= n => Good(m)}
<1>1. 0 \in T
  <2> DEFINE g == [k \in 0..0 |-> a]
  <2>1. g \in [0..0 -> S] /\ g[0] = a /\ \A k \in 1..0 : g[k] = G[k][g[k - 1]]
    OBVIOUS
  <2>2. Good(0)
    BY <2>1
  <2> QED
    BY <2>2
<1>2. ASSUME NEW m \in Nat, m \in T PROVE m + 1 \in T
  <2>1. SUFFICES ASSUME m + 1 <= n PROVE Good(m + 1)
    OBVIOUS
  <2>2. PICK g \in [0..m -> S] : g[0] = a /\ \A k \in 1..m : g[k] = G[k][g[k - 1]]
    BY <1>2, <2>1
  <2>3. m + 1 \in 1..n
    BY <2>1
  <2>4. G[m + 1] \in [S -> S] /\ g[m] \in S
    BY <2>2, <2>3
  <2> DEFINE h == [k \in 0..(m + 1) |-> IF k = m + 1 THEN G[m + 1][g[m]] ELSE g[k]]
  <2>5. h \in [0..(m + 1) -> S]
    BY <2>2, <2>4
  <2>6. h[0] = a /\ \A k \in 1..(m + 1) : h[k] = G[k][h[k - 1]]
    BY <2>2
  <2> HIDE DEF h
  <2> QED
    BY <2>5, <2>6
<1>3. n \in T
  <2> HIDE DEF T
  <2> QED
    BY <1>1, <1>2, NatSetInduction
<1> QED
  BY <1>3

(***************************************************************************)
(* Enumeration                                                             *)
(***************************************************************************)

(* InOrder lists a finite set of numbers once each, in increasing order.   *)
THEOREM InOrderEnumerates ==
    ASSUME NEW S, S \subseteq Nat, IsFiniteSet(S)
    PROVE  /\ Cardinality(S) \in Nat /\ Len(InOrder(S)) = Cardinality(S)
           /\ InOrder(S) \in [1..Cardinality(S) -> S]
           /\ \A i \in S : \E r \in 1..Cardinality(S) : InOrder(S)[r] = i
           /\ \A a, b \in 1..Cardinality(S) : a < b => InOrder(S)[a] < InOrder(S)[b]
<1> DEFINE n == Cardinality(S)
           Upto(i) == {j \in S : j <= i}
           rank == [i \in S |-> Cardinality(Upto(i))]
<1>1. n \in Nat
  BY FS_CardinalityType
<1>2. ASSUME NEW i \in S
      PROVE  /\ IsFiniteSet(Upto(i)) /\ Cardinality(Upto(i)) \in 1..n
             /\ i \in Upto(i)
  <2>1. i \in Upto(i) /\ Upto(i) \in SUBSET S
    OBVIOUS
  <2>2. IsFiniteSet(Upto(i)) /\ Cardinality(Upto(i)) \in Nat /\ Cardinality(Upto(i)) <= n
    BY <2>1, FS_Subset, FS_CardinalityType
  <2>3. Cardinality(Upto(i)) # 0
    BY <2>1, <2>2, FS_EmptySet
  <2> QED
    BY <1>1, <2>1, <2>2, <2>3
<1>3. ASSUME NEW i \in S, NEW k \in S, i < k PROVE rank[i] < rank[k]
  <2>1. Upto(i) \in SUBSET Upto(k) /\ k \notin Upto(i)
    <3>1. i \in Nat /\ k \in Nat /\ \A j \in S : j \in Nat
      OBVIOUS
    <3>2. \A j \in S : j <= i => j <= k
      BY <1>3, <3>1
    <3>3. ~(k <= i)
      BY <1>3, <3>1
    <3> QED
      BY <3>2, <3>3
  <2>2. Upto(i) # Upto(k)
    BY <1>2, <2>1
  <2>3. /\ Cardinality(Upto(i)) <= Cardinality(Upto(k))
        /\ Cardinality(Upto(i)) # Cardinality(Upto(k))
    <3>1. IsFiniteSet(Upto(k))
      BY <1>2
    <3> HIDE DEF Upto
    <3> QED
      BY <2>1, <2>2, <3>1, FS_Subset
  <2>4. Cardinality(Upto(i)) \in 1..n /\ Cardinality(Upto(k)) \in 1..n
    BY <1>2
  <2> QED
    BY <1>1, <2>3, <2>4
<1>4. rank \in [S -> 1..n]
  BY <1>2
<1> HIDE DEF rank, n
<1>5. ASSUME NEW i \in S, NEW k \in S, rank[i] = rank[k] PROVE i = k
  <2>1. i \in Nat /\ k \in Nat /\ rank[i] \in 1..n /\ rank[k] \in 1..n
    BY <1>4
  <2>2. ~(i < k) /\ ~(k < i)
    BY <1>1, <1>3, <1>5, <2>1
  <2> QED
    BY <2>1, <2>2
<1>6. \A r \in 1..n : \E i \in S : rank[i] = r
  <2>1. rank \in Injection(S, 1..n)
    BY <1>4, <1>5 DEF Injection, IsInjective
  <2>2. IsFiniteSet(1..n) /\ Cardinality(1..n) = n
    BY <1>1, FS_Interval
  <2>3. rank \in Surjection(S, 1..n)
    BY <2>1, <2>2, FS_Injection DEF n
  <2> QED
    BY <2>3 DEF Surjection
<1> DEFINE s == InOrder(S)
<1>7. s = [r \in 1..n |-> CHOOSE i \in S : Cardinality(Upto(i)) = r]
  BY DEF InOrder, n
<1>8. \A r \in 1..n : s[r] \in S /\ rank[s[r]] = r
  <2>1. \A r \in 1..n : \E i \in S : Cardinality(Upto(i)) = r
    BY <1>6 DEF rank
  <2> HIDE DEF Upto, s
  <2>2. \A r \in 1..n : s[r] \in S /\ Cardinality(Upto(s[r])) = r
    BY <1>7, <2>1
  <2> QED
    BY <2>2 DEF rank
<1>9. s \in [1..n -> S]
  BY <1>7, <1>8
<1> HIDE DEF s
<1>10. Len(s) = n
  BY <1>1, <1>9
<1>11. ASSUME NEW i \in S PROVE \E r \in 1..n : s[r] = i
  BY <1>4, <1>5, <1>8
<1>12. ASSUME NEW a \in 1..n, NEW b \in 1..n, a < b PROVE s[a] < s[b]
  <2>1. s[a] \in S /\ s[b] \in S /\ rank[s[a]] = a /\ rank[s[b]] = b
    BY <1>8
  <2>2. s[a] \in Nat /\ s[b] \in Nat
    BY <2>1
  <2>3. s[a] # s[b] /\ ~(s[b] < s[a])
    BY <1>1, <1>3, <1>12, <2>1, <2>2
  <2> QED
    BY <2>2, <2>3
<1> QED
  BY <1>1, <1>9, <1>10, <1>11, <1>12 DEF s, n

(***************************************************************************)
(* Dependency order                                                        *)
(***************************************************************************)

(* The smallest of a non-empty set of numbers.                             *)
LEMMA SmallestIsLeast ==
    ASSUME NEW S, S \subseteq Nat, S # {}
    PROVE  Smallest(S) \in S /\ \A j \in S : Smallest(S) <= j
<1>1. \E i \in S : \A j \in S : i <= j
  BY LeastNatural
<1> QED
  BY <1>1 DEF Smallest

(* The recursive definition of EmittedAfter has a value and satisfies its  *)
(* equations.                                                              *)
LEMMA EmittedAfterIterates ==
    ASSUME NEW n \in Nat, NEW d, NEW E
    PROVE  Len(d) = n /\ (\A s \in Seq(E) : EmitNext(d, s) \in Seq(E)) =>
           /\ EmittedAfter(d) \in [0..n -> Seq(E)]
           /\ EmittedAfter(d)[0] = <<>>
           /\ \A k \in 1..n : EmittedAfter(d)[k] = EmitNext(d, EmittedAfter(d)[k - 1])
<1>1. SUFFICES ASSUME Len(d) = n, \A s \in Seq(E) : EmitNext(d, s) \in Seq(E)
               PROVE  /\ EmittedAfter(d) \in [0..n -> Seq(E)]
                      /\ EmittedAfter(d)[0] = <<>>
                      /\ \A k \in 1..n :
                            EmittedAfter(d)[k] = EmitNext(d, EmittedAfter(d)[k - 1])
  OBVIOUS
<1> DEFINE F == [s \in Seq(E) |-> EmitNext(d, s)]
           Emits(g) == g = [k \in 0..n |-> IF k = 0 THEN <<>> ELSE EmitNext(d, g[k - 1])]
<1>4. PICK g \in [0..n -> Seq(E)] :
          g = [k \in 0..n |-> IF k = 0 THEN <<>> ELSE F[g[k - 1]]]
  <2> DEFINE S == Seq(E)
             a == <<>>
  <2>1. F \in [S -> S] /\ a \in S /\ n \in Nat
    BY <1>1
  <2> HIDE DEF F, S, a
  <2>2. PICK g \in [0..n -> S] : Iterates(g, F, a, n)
    BY <2>1, IterationDefined
  <2> QED
    BY <2>2 DEF S, a, Iterates
<1>5. Emits(g)
  <2>1. ASSUME NEW k \in 0..n, k # 0 PROVE F[g[k - 1]] = EmitNext(d, g[k - 1])
    <3>1. g[k - 1] \in Seq(E)
      BY <2>1
    <3> QED
      BY <3>1
  <2> HIDE DEF F
  <2> QED
    BY <1>4, <2>1
<1>6. EmittedAfter(d) = CHOOSE f : Emits(f)
  BY <1>1 DEF EmittedAfter
<1>7. Emits(EmittedAfter(d))
  BY <1>5, <1>6
<1> DEFINE h == EmittedAfter(d)
<1>8. h = [k \in 0..n |-> IF k = 0 THEN <<>> ELSE EmitNext(d, h[k - 1])]
  BY <1>7
<1> HIDE DEF h
<1>9. h[0] = <<>> /\ \A k \in 1..n : h[k] = EmitNext(d, h[k - 1])
  BY <1>8
<1>10. \A k \in 0..n : h[k] \in Seq(E)
  <2> DEFINE T == {k \in Nat : k <= n => h[k] \in Seq(E)}
  <2>1. 0 \in T
    <3>1. <<>> \in Seq(E)
      OBVIOUS
    <3> QED
      BY <1>9, <3>1
  <2>2. ASSUME NEW k \in Nat, k \in T PROVE k + 1 \in T
    <3>1. CASE k + 1 <= n
      <4>1. h[k + 1] = EmitNext(d, h[k]) /\ h[k] \in Seq(E)
        BY <1>9, <2>2, <3>1
      <4> QED
        BY <1>1, <4>1
    <3>2. CASE ~(k + 1 <= n)
      BY <3>2
    <3> QED
      BY <3>1, <3>2
  <2>3. Nat \subseteq T
    <3> HIDE DEF T
    <3> QED
      BY <2>1, <2>2, NatSetInduction
  <2> QED
    BY <2>3
<1>11. h \in [0..n -> Seq(E)]
  BY <1>8, <1>10
<1> QED
  BY <1>9, <1>11 DEF h

(* On a graph over 1..n they are lists of its entries.                     *)
LEMMA EmittedAfterDefined ==
    ASSUME NEW n \in Nat, NEW E, E = 1..n, NEW d \in [E -> SUBSET E]
    PROVE  /\ Len(d) = n
           /\ EmittedAfter(d) \in [0..n -> Seq(E)]
           /\ EmittedAfter(d)[0] = <<>>
           /\ \A k \in 1..n : EmittedAfter(d)[k] = EmitNext(d, EmittedAfter(d)[k - 1])
<1>1. DOMAIN d = E /\ E \subseteq Nat
  OBVIOUS
<1>2. Len(d) = n
  BY <1>1
<1>3. ASSUME NEW s \in Seq(E) PROVE EmitNext(d, s) \in Seq(E)
  <2> DEFINE ready == ReadyEntries(d, EntriesOf(s))
  <2>1. CASE ready = {}
    BY <2>1 DEF EmitNext
  <2>2. CASE ready # {}
    <3>1. ready \subseteq E /\ ready \subseteq Nat
      BY <1>1 DEF ReadyEntries
    <3>2. Smallest(ready) \in E
      <4> HIDE DEF ready
      <4> QED
        BY <2>2, <3>1, SmallestIsLeast
    <3>3. Append(s, Smallest(ready)) \in Seq(E)
      <4> HIDE DEF ready
      <4> QED
        BY <3>2, AppendProperties
    <3> QED
      BY <2>2, <3>3 DEF EmitNext
  <2> QED
    BY <2>1, <2>2
<1> QED
  BY <1>2, <1>3, EmittedAfterIterates

(* After k turns without an entry to take, nothing more is emitted.        *)
LEMMA EmittedIsStable ==
    ASSUME NEW n \in Nat, NEW E, E = 1..n, NEW d \in [E -> SUBSET E], NEW k \in 0..n,
           ReadyEntries(d, EntriesOf(EmittedAfter(d)[k])) = {}
    PROVE  Emitted(d) = EmittedAfter(d)[k]
<1> DEFINE h == EmittedAfter(d)
           T == {m \in Nat : k + m <= n => h[k + m] = h[k]}
<1>1. Len(d) = n /\ \A m \in 1..n : h[m] = EmitNext(d, h[m - 1])
  BY EmittedAfterDefined
<1> HIDE DEF h
<1>2. 0 \in T
  OBVIOUS
<1>3. ASSUME NEW m \in Nat, m \in T PROVE m + 1 \in T
  <2>1. CASE k + (m + 1) <= n
    <3>1. h[k + (m + 1)] = EmitNext(d, h[k + m]) /\ h[k + m] = h[k]
      BY <1>1, <1>3, <2>1
    <3>2. EmitNext(d, h[k]) = h[k]
      BY DEF EmitNext, h
    <3> QED
      BY <3>1, <3>2
  <2>2. CASE ~(k + (m + 1) <= n)
    BY <2>2
  <2> QED
    BY <2>1, <2>2
<1>4. Nat \subseteq T
  <2> HIDE DEF T
  <2> QED
    BY <1>2, <1>3, NatSetInduction
<1>5. n - k \in T /\ k + (n - k) = n
  BY <1>4
<1>6. h[n] = h[k]
  BY <1>5
<1> QED
  BY <1>1, <1>6 DEF Emitted, h

(* A list without repetition in which everything comes after what it       *)
(* depends on.                                                             *)
Sorted(d, s) ==
    /\ \A q, r \in DOMAIN s : s[q] = s[r] => q = r
    /\ \A q \in DOMAIN s : \A i \in d[s[q]] : \E r \in DOMAIN s : r < q /\ s[r] = i

(* A turn of the loop keeps the list sorted, and makes it longer unless    *)
(* there is nothing to take.                                               *)
LEMMA EmitNextKeepsSorted ==
    ASSUME NEW E, E \subseteq Nat, NEW d \in [E -> SUBSET E], NEW s \in Seq(E), Sorted(d, s)
    PROVE  /\ Sorted(d, EmitNext(d, s))
           /\ \/ EmitNext(d, s) = s /\ ReadyEntries(d, EntriesOf(s)) = {}
              \/ EmitNext(d, s) \in Seq(E) /\ Len(EmitNext(d, s)) = Len(s) + 1
<1> DEFINE ready == ReadyEntries(d, EntriesOf(s))
<1>1. CASE ready = {}
  BY <1>1 DEF EmitNext
<1>2. CASE ready # {}
  <2> DEFINE i == Smallest(ready)
             t == Append(s, i)
             m == Len(s)
  <2>1. i \in ready
    <3>1. ready \subseteq Nat
      BY DEF ReadyEntries
    <3> HIDE DEF ready
    <3> QED
      BY <1>2, <3>1, SmallestIsLeast
  <2>2. i \in E /\ i \notin EntriesOf(s) /\ d[i] \subseteq EntriesOf(s)
    BY <2>1 DEF ReadyEntries
  <2>3. EmitNext(d, s) = t
    BY <1>2 DEF EmitNext
  <2> HIDE DEF i
  <2>4. /\ m \in Nat /\ DOMAIN s = 1..m
        /\ t \in Seq(E) /\ DOMAIN t = 1..(m + 1) /\ Len(t) = m + 1
        /\ t[m + 1] = i /\ \A q \in 1..m : t[q] = s[q]
    BY <2>2
  <2> HIDE DEF t, m
  <2>5. \A q \in 1..m : s[q] # i
    BY <2>2, <2>4 DEF EntriesOf
  <2>6. ASSUME NEW q \in DOMAIN t, NEW r \in DOMAIN t, t[q] = t[r] PROVE q = r
    <3>1. CASE q \in 1..m /\ r \in 1..m
      BY <2>4, <2>6, <3>1 DEF Sorted
    <3>2. CASE q = m + 1 \/ r = m + 1
      BY <2>4, <2>5, <2>6, <3>2
    <3> QED
      BY <2>4, <3>1, <3>2
  <2>7. ASSUME NEW q \in DOMAIN t, NEW j \in d[t[q]]
        PROVE  \E r \in DOMAIN t : r < q /\ t[r] = j
    <3>1. CASE q \in 1..m
      <4>1. PICK r \in 1..m : r < q /\ s[r] = j
        BY <2>4, <2>7, <3>1 DEF Sorted
      <4> QED
        BY <2>4, <4>1
    <3>2. CASE q = m + 1
      <4>1. j \in EntriesOf(s)
        BY <2>2, <2>4, <2>7, <3>2
      <4>2. PICK r \in 1..m : s[r] = j
        BY <2>4, <4>1 DEF EntriesOf
      <4> QED
        BY <2>4, <3>2, <4>2
    <3> QED
      BY <2>4, <3>1, <3>2
  <2> QED
    BY <2>3, <2>4, <2>6, <2>7 DEF Sorted, m
<1> QED
  BY <1>1, <1>2

(* The loop ends with a sorted list that nothing more can be added to.     *)
LEMMA EmittedIsSorted ==
    ASSUME NEW n \in Nat, NEW E, E = 1..n, NEW d \in [E -> SUBSET E]
    PROVE  /\ Emitted(d) \in Seq(E) /\ Sorted(d, Emitted(d))
           /\ ReadyEntries(d, EntriesOf(Emitted(d))) = {}
<1> DEFINE h == EmittedAfter(d)
           Stuck(s) == ReadyEntries(d, EntriesOf(s)) = {}
           T == {k \in Nat : k <= n => /\ Sorted(d, h[k])
                                       /\ Len(h[k]) = k \/ Stuck(h[k])}
<1>1. /\ Len(d) = n /\ h \in [0..n -> Seq(E)] /\ h[0] = <<>>
      /\ \A k \in 1..n : h[k] = EmitNext(d, h[k - 1])
  BY EmittedAfterDefined
<1> HIDE DEF h
<1>2. 0 \in T
  <2>1. Sorted(d, <<>>) /\ Len(<<>>) = 0
    BY DEF Sorted
  <2> QED
    BY <1>1, <2>1
<1>3. ASSUME NEW k \in Nat, k \in T PROVE k + 1 \in T
  <2>1. CASE k + 1 <= n
    <3>0. k \in 0..n /\ k + 1 \in 1..n /\ (k + 1) - 1 = k /\ n \in Nat
      BY <1>1, <2>1
    <3>1. h[k] \in Seq(E) /\ h[k + 1] = EmitNext(d, h[k])
      BY <1>1, <3>0
    <3>2. Sorted(d, h[k]) /\ (Len(h[k]) = k \/ Stuck(h[k]))
      BY <1>3, <2>1
    <3>3. /\ Sorted(d, EmitNext(d, h[k]))
          /\ \/ EmitNext(d, h[k]) = h[k] /\ Stuck(h[k])
             \/ Len(EmitNext(d, h[k])) = Len(h[k]) + 1
      BY <3>1, <3>2, EmitNextKeepsSorted
    <3>4. Stuck(h[k]) => EmitNext(d, h[k]) = h[k]
      BY DEF EmitNext
    <3> HIDE DEF Stuck
    <3> QED
      BY <3>1, <3>2, <3>3, <3>4
  <2>2. CASE ~(k + 1 <= n)
    BY <2>2
  <2> QED
    BY <2>1, <2>2
<1>4. n \in T
  <2> HIDE DEF T
  <2> QED
    BY <1>2, <1>3, NatSetInduction
<1> DEFINE e == h[n]
<1>5. e \in Seq(E) /\ Sorted(d, e) /\ (Len(e) = n \/ Stuck(e)) /\ Emitted(d) = e
  BY <1>1, <1>4 DEF Emitted, h
<1> HIDE DEF e
<1>6. ASSUME Len(e) = n PROVE Stuck(e)
  <2>1. e \in [E -> E]
    BY <1>5, <1>6
  <2>2. e \in Injection(E, E)
    BY <1>5, <2>1 DEF Sorted, Injection, IsInjective
  <2>3. IsFiniteSet(E)
    BY FS_Interval
  <2>4. e \in Surjection(E, E)
    BY <2>2, <2>3, FS_Injection
  <2>5. E \subseteq EntriesOf(e)
    BY <2>1, <2>4 DEF Surjection, EntriesOf
  <2> QED
    BY <2>5 DEF ReadyEntries
<1> QED
  BY <1>5, <1>6

(* A set of entries that depend on nothing outside it and on each other    *)
(* without a cycle.                                                        *)
Grounded(d, A) ==
    /\ \A i \in A : d[i] \subseteq A
    /\ \A B \in SUBSET A : B # {} => \E i \in B : d[i] \cap B = {}

(* An order of the entries in E that respects what depends on what, as far *)
(* as there is no cycle.                                                   *)
Orders(t, d, E) ==
    /\ t \in [E -> E]
    /\ \A i \in E : \E q \in E : t[q] = i
    /\ \A q, r \in E : t[q] = t[r] => q = r
    /\ \A A \in SUBSET E : Grounded(d, A) =>
         \A q \in E : t[q] \in A => \A i \in d[t[q]] : \E r \in E : r < q /\ t[r] = i

(* TopologicalSort lists every entry once, and in a grounded set each      *)
(* entry after those it depends on, whatever the rest of the graph is.     *)
THEOREM TopologicalSortSorts ==
    ASSUME NEW n \in Nat, NEW E, E = 1..n, NEW d \in [E -> SUBSET E]
    PROVE  Orders(TopologicalSort(d), d, E)
<1> DEFINE e == Emitted(d)
           m == Len(e)
           out == EntriesOf(e)
           rest == E \ out
           l == InOrder(rest)
           s == TopologicalSort(d)
<1>1. /\ e \in Seq(E) /\ Sorted(d, e) /\ ReadyEntries(d, out) = {}
      /\ m \in Nat /\ e \in [1..m -> E] /\ DOMAIN e = 1..m
  BY EmittedIsSorted
<1> HIDE DEF e, m
<1>2. /\ out \subseteq E /\ \A i \in out : \E q \in 1..m : e[q] = i
      /\ \A q \in 1..m : e[q] \in out
  BY <1>1 DEF EntriesOf
<1>3. /\ IsFiniteSet(E) /\ Cardinality(E) = n
      /\ IsFiniteSet(1..m) /\ Cardinality(1..m) = m
  BY <1>1, FS_Interval
<1> HIDE DEF out
<1>4. IsFiniteSet(out) /\ Cardinality(out) = m
  <2>1. e \in [1..m -> out]
    BY <1>1, <1>2
  <2>2. e \in Surjection(1..m, out)
    BY <1>2, <2>1 DEF Surjection
  <2>3. e \in Injection(1..m, out)
    BY <1>1, <2>1 DEF Sorted, Injection, IsInjective
  <2> QED
    BY <1>3, <2>2, <2>3, FS_Surjection
<1>5. IsFiniteSet(rest) /\ Cardinality(rest) = n - m /\ Cardinality(rest) \in Nat
  <2>1. E \cap out = out
    BY <1>2
  <2>2. IsFiniteSet(rest) /\ Cardinality(rest) = Cardinality(E) - Cardinality(E \cap out)
    BY <1>3, FS_Difference
  <2>3. Cardinality(rest) \in Nat
    BY <2>2, FS_CardinalityType
  <2> HIDE DEF rest
  <2> QED
    BY <1>3, <1>4, <2>1, <2>2, <2>3
<1>6. /\ Len(l) = n - m /\ l \in [1..(n - m) -> rest]
      /\ \A i \in rest : \E r \in 1..(n - m) : l[r] = i
      /\ \A a, b \in 1..(n - m) : a < b => l[a] < l[b]
  <2>1. rest \subseteq Nat
    OBVIOUS
  <2> HIDE DEF rest
  <2> QED
    BY <1>5, <2>1, InOrderEnumerates
<1>7. \A a \in 1..(n - m) : l[a] \in Nat
  <2>1. rest \subseteq Nat
    OBVIOUS
  <2> QED
    BY <1>6, <2>1
<1>8. s = e \o l
  <2>1. DOMAIN d = E
    OBVIOUS
  <2> QED
    BY <2>1 DEF TopologicalSort, e, out
<1> HIDE DEF l, s, rest
<1>9. /\ n - m \in Nat /\ l \in Seq(E)
  <2>1. n - m \in Nat
    BY <1>5
  <2>2. l \in [1..(n - m) -> E]
    BY <1>6 DEF rest
  <2> QED
    BY <2>1, <2>2
<1>10. /\ DOMAIN s = E /\ \A q \in 1..m : s[q] = e[q]
       /\ \A a \in 1..(n - m) : s[m + a] = l[a]
  <2>1. Len(s) = Len(e) + Len(l) /\ s \in Seq(E)
    BY <1>1, <1>8, <1>9, ConcatProperties
  <2>2. DOMAIN s = 1..Len(s) /\ Len(s) = n
    BY <1>1, <1>6, <1>9, <2>1 DEF m
  <2>3. \A q \in 1..Len(e) + Len(l) :
          s[q] = IF q <= Len(e) THEN e[q] ELSE l[q - Len(e)]
    BY <1>1, <1>8, <1>9, ConcatProperties
  <2>4. \A q \in 1..n : s[q] = IF q <= m THEN e[q] ELSE l[q - m]
    BY <1>1, <1>6, <1>9, <2>3 DEF m
  <2>5. \A q \in 1..m : q \in 1..n /\ q <= m
    BY <1>1, <1>9
  <2>6. \A a \in 1..(n - m) : m + a \in 1..n /\ ~(m + a <= m) /\ (m + a) - m = a
    BY <1>1, <1>9
  <2>7. \A a \in 1..(n - m) : s[m + a] = l[a]
    BY <2>4, <2>6
  <2> QED
    BY <2>2, <2>4, <2>5, <2>7
<1>11. \A q \in E : q \in 1..m \/ (q - m \in 1..(n - m) /\ q = m + (q - m))
  BY <1>1, <1>9
<1>12. ASSUME NEW q \in E
       PROVE  \/ q \in 1..m /\ s[q] \in out
              \/ q \notin 1..m /\ q - m \in 1..(n - m) /\ s[q] = l[q - m] /\ s[q] \in rest
  <2>1. CASE q \in 1..m
    BY <1>2, <1>10, <2>1
  <2>2. CASE q \notin 1..m
    BY <1>6, <1>10, <1>11, <2>2
  <2> QED
    BY <2>1, <2>2
<1>13. \A q \in E : s[q] \in E
  BY <1>2, <1>12 DEF rest
<1>14. s \in [E -> E]
  <2>1. s \in Seq(E)
    BY <1>1, <1>8, <1>9
  <2> QED
    BY <1>10, <1>13, <2>1
<1>15. ASSUME NEW i \in E PROVE \E q \in E : s[q] = i
  <2>1. CASE i \in out
    <3>1. PICK q \in 1..m : e[q] = i
      BY <1>2, <2>1
    <3>2. q \in E
      BY <1>1, <1>9
    <3> QED
      BY <1>10, <3>1, <3>2
  <2>2. CASE i \in rest
    <3>1. PICK a \in 1..(n - m) : l[a] = i
      BY <1>6, <2>2
    <3>2. m + a \in E
      BY <1>1, <1>9
    <3> QED
      BY <1>10, <3>1, <3>2
  <2> QED
    BY <2>1, <2>2 DEF rest
<1>16. ASSUME NEW q \in E, NEW r \in E, s[q] = s[r] PROVE q = r
  <2>1. CASE q \in 1..m /\ r \in 1..m
    BY <1>1, <1>10, <1>16, <2>1 DEF Sorted
  <2>2. CASE q \notin 1..m /\ r \notin 1..m
    <3>1. /\ q - m \in 1..(n - m) /\ r - m \in 1..(n - m) /\ l[q - m] = l[r - m]
      BY <1>12, <1>16, <2>2
    <3>2. ~(q - m < r - m) /\ ~(r - m < q - m)
      BY <1>6, <1>7, <3>1
    <3> QED
      BY <1>1, <3>1, <3>2
  <2>3. ~(q \in 1..m /\ r \notin 1..m) /\ ~(q \notin 1..m /\ r \in 1..m)
    BY <1>12, <1>16 DEF rest
  <2> QED
    BY <2>1, <2>2, <2>3
<1>17. ASSUME NEW A \in SUBSET E, Grounded(d, A), NEW q \in E, s[q] \in A, NEW i \in d[s[q]]
       PROVE  \E r \in E : r < q /\ s[r] = i
  <2>1. A \subseteq out
    <3> DEFINE B == A \ out
    <3>1. ASSUME B # {} PROVE FALSE
      <4>1. PICK j \in B : d[j] \cap B = {}
        <5>1. B \in SUBSET A
          OBVIOUS
        <5> QED
          BY <1>17, <3>1, <5>1 DEF Grounded
      <4>2. d[j] \subseteq out
        BY <1>17, <4>1 DEF Grounded
      <4>3. j \in ReadyEntries(d, out)
        BY <4>1, <4>2 DEF ReadyEntries
      <4> QED
        BY <1>1, <4>3
    <3> QED
      BY <3>1
  <2>2. q \in 1..m
    BY <1>12, <1>17, <2>1 DEF rest
  <2>3. PICK r \in 1..m : r < q /\ e[r] = i
    BY <1>1, <1>10, <1>17, <2>2 DEF Sorted
  <2>4. r \in E
    BY <1>1, <1>9
  <2> QED
    BY <1>10, <2>3, <2>4
<1> QED
  BY <1>14, <1>15, <1>16, <1>17 DEF s, Orders

(***************************************************************************)
(* Lists without repetition                                                *)
(***************************************************************************)

(* The list holds each element of the set once.                            *)
Lists(s, S) ==
    /\ s \in Seq(S)
    /\ \A x \in S : \E q \in DOMAIN s : s[q] = x
    /\ \A q, r \in DOMAIN s : s[q] = s[r] => q = r

ComesBefore(s, x, y) == \E q, r \in DOMAIN s : q < r /\ s[q] = x /\ s[r] = y

(* A finite set of numbers, listed in increasing order.                    *)
LEMMA InOrderLists ==
    ASSUME NEW S, S \subseteq Nat, IsFiniteSet(S)
    PROVE  Lists(InOrder(S), S)
<1> DEFINE n == Cardinality(S)
           s == InOrder(S)
<1>1. /\ n \in Nat /\ s \in [1..n -> S]
      /\ \A i \in S : \E r \in 1..n : s[r] = i
      /\ \A a, b \in 1..n : a < b => s[a] < s[b]
  BY InOrderEnumerates
<1> HIDE DEF s, n
<1>2. s \in Seq(S) /\ DOMAIN s = 1..n
  BY <1>1
<1>3. ASSUME NEW q \in 1..n, NEW r \in 1..n, s[q] = s[r] PROVE q = r
  <2>1. s[q] \in Nat /\ s[r] \in Nat
    BY <1>1
  <2>2. ~(q < r) /\ ~(r < q)
    BY <1>1, <1>3, <2>1
  <2> QED
    BY <1>1, <2>2
<1> QED
  BY <1>1, <1>2, <1>3 DEF Lists, s

(* One list after another.                                                 *)
LEMMA ConcatenationLists ==
    ASSUME NEW S, NEW T, S \cap T = {}, NEW s, NEW t, Lists(s, S), Lists(t, T)
    PROVE  /\ Lists(s \o t, S \cup T)
           /\ \A x, y : ComesBefore(s, x, y) \/ ComesBefore(t, x, y) \/ (x \in S /\ y \in T)
                          => ComesBefore(s \o t, x, y)
<1> DEFINE U == S \cup T
           m == Len(s)
           n == Len(t)
           u == s \o t
<1>1. /\ s \in Seq(U) /\ t \in Seq(U) /\ m \in Nat /\ n \in Nat
      /\ DOMAIN s = 1..m /\ DOMAIN t = 1..n
      /\ \A q \in 1..m : s[q] \in S
      /\ \A q \in 1..n : t[q] \in T
  BY DEF Lists
<1>2. u \in Seq(U) /\ Len(u) = m + n /\ DOMAIN u = 1..(m + n)
  BY <1>1, ConcatProperties
<1>3. \A q \in 1..(m + n) : u[q] = IF q <= m THEN s[q] ELSE t[q - m]
  BY <1>1, ConcatProperties
<1> HIDE DEF U, m, n, u
<1>4. /\ \A q \in 1..m : q \in DOMAIN u /\ u[q] = s[q]
      /\ \A q \in 1..n : m + q \in DOMAIN u /\ u[m + q] = t[q]
  <2>1. \A q \in 1..m : q \in 1..(m + n) /\ q <= m
    BY <1>1
  <2>2. \A q \in 1..n : m + q \in 1..(m + n) /\ ~(m + q <= m) /\ (m + q) - m = q
    BY <1>1
  <2>3. \A q \in 1..n : u[m + q] = t[(m + q) - m]
    BY <1>3, <2>2
  <2> QED
    BY <1>2, <1>3, <2>1, <2>2, <2>3
<1>5. \A q \in DOMAIN u : \/ q \in 1..m /\ u[q] = s[q] /\ u[q] \in S
                          \/ q - m \in 1..n /\ u[q] = t[q - m] /\ u[q] \in T
  <2>1. \A q \in 1..(m + n) : \/ q \in 1..m /\ q <= m
                              \/ q - m \in 1..n /\ ~(q <= m)
    BY <1>1
  <2> QED
    BY <1>1, <1>2, <1>3, <2>1
<1>6. ASSUME NEW q \in DOMAIN u, NEW r \in DOMAIN u, u[q] = u[r] PROVE q = r
  <2>1. CASE q \in 1..m /\ r \in 1..m
    BY <1>1, <1>4, <1>6, <2>1 DEF Lists
  <2>2. CASE q - m \in 1..n /\ r - m \in 1..n /\ t[q - m] = t[r - m]
    <3>1. q - m = r - m
      BY <1>1, <2>2 DEF Lists
    <3> QED
      BY <1>1, <1>2, <3>1
  <2> QED
    BY <1>5, <1>6, <2>1, <2>2
<1>7. ASSUME NEW x \in U PROVE \E q \in DOMAIN u : u[q] = x
  <2>1. CASE x \in S
    <3>1. PICK q \in 1..m : s[q] = x
      BY <1>1, <2>1 DEF Lists
    <3> QED
      BY <1>4, <3>1
  <2>2. CASE x \in T
    <3>1. PICK q \in 1..n : t[q] = x
      BY <1>1, <2>2 DEF Lists
    <3> QED
      BY <1>4, <3>1
  <2> QED
    BY <2>1, <2>2 DEF U
<1>8. Lists(u, U)
  BY <1>2, <1>6, <1>7 DEF Lists
<1>9. ASSUME NEW x, NEW y, ComesBefore(s, x, y) PROVE ComesBefore(u, x, y)
  <2>1. PICK q \in 1..m, r \in 1..m : q < r /\ s[q] = x /\ s[r] = y
    BY <1>1, <1>9 DEF ComesBefore
  <2> QED
    BY <1>4, <2>1 DEF ComesBefore
<1>10. ASSUME NEW x, NEW y, ComesBefore(t, x, y) PROVE ComesBefore(u, x, y)
  <2>1. PICK q \in 1..n, r \in 1..n : q < r /\ t[q] = x /\ t[r] = y
    BY <1>1, <1>10 DEF ComesBefore
  <2>2. m + q < m + r
    BY <1>1, <2>1
  <2> QED
    BY <1>4, <2>1, <2>2 DEF ComesBefore
<1>11. ASSUME NEW x \in S, NEW y \in T PROVE ComesBefore(u, x, y)
  <2>1. PICK q \in 1..m : s[q] = x
    BY <1>1 DEF Lists
  <2>2. PICK r \in 1..n : t[r] = y
    BY <1>1 DEF Lists
  <2>3. q < m + r
    BY <1>1, <2>1, <2>2
  <2> QED
    BY <1>4, <2>1, <2>2, <2>3 DEF ComesBefore
<1> QED
  BY <1>8, <1>9, <1>10, <1>11 DEF U, u

(* Without its first element a list lists the rest in the same order.      *)
LEMMA TailLists ==
    ASSUME NEW S, NEW s, Lists(s, S), s # <<>>
    PROVE  /\ Head(s) \in S /\ Lists(Tail(s), S \ {Head(s)})
           /\ \A x, y : ComesBefore(s, x, y) =>
                y # Head(s) /\ (x # Head(s) => ComesBefore(Tail(s), x, y))
<1> DEFINE n == Len(s)
           t == Tail(s)
           R == S \ {Head(s)}
<1>1. /\ s \in Seq(S) /\ n \in Nat /\ DOMAIN s = 1..n
      /\ \A q \in 1..n : s[q] \in S
      /\ \A q, r \in 1..n : s[q] = s[r] => q = r
  BY DEF Lists
<1>2. n # 0 /\ Head(s) = s[1] /\ 1 \in 1..n
  BY <1>1
<1>3. /\ t \in Seq(S) /\ Len(t) = n - 1 /\ DOMAIN t = 1..(n - 1)
      /\ \A q \in 1..(n - 1) : t[q] = s[q + 1]
  BY <1>1, <1>2
<1> HIDE DEF t, n
<1>4. \A q \in 1..(n - 1) : q + 1 \in 1..n /\ q + 1 # 1
  BY <1>1
<1>5. \A q \in 1..(n - 1) : t[q] \in R
  <2>1. SUFFICES ASSUME NEW q \in 1..(n - 1) PROVE t[q] \in R
    OBVIOUS
  <2>2. t[q] = s[q + 1] /\ q + 1 \in 1..n /\ q + 1 # 1
    BY <1>3, <1>4
  <2>3. s[q + 1] \in S /\ s[q + 1] # s[1]
    BY <1>1, <1>2, <2>2
  <2> QED
    BY <1>2, <2>2, <2>3
<1>6. t \in Seq(R)
  <2>1. t \in [1..(n - 1) -> R] /\ n - 1 \in Nat
    BY <1>1, <1>2, <1>3, <1>5
  <2> QED
    BY <2>1
<1>7. ASSUME NEW q \in 1..n, q # 1 PROVE q - 1 \in 1..(n - 1) /\ t[q - 1] = s[q]
  <2>1. q - 1 \in 1..(n - 1) /\ (q - 1) + 1 = q
    BY <1>1, <1>7
  <2> QED
    BY <1>3, <2>1
<1>8. ASSUME NEW x \in R PROVE \E q \in DOMAIN t : t[q] = x
  <2>1. PICK q \in 1..n : s[q] = x
    BY <1>1 DEF Lists
  <2> QED
    BY <1>2, <1>3, <1>7, <2>1
<1>9. ASSUME NEW q \in DOMAIN t, NEW r \in DOMAIN t, t[q] = t[r] PROVE q = r
  <2>1. q \in 1..(n - 1) /\ r \in 1..(n - 1)
    BY <1>3
  <2>2. s[q + 1] = s[r + 1] /\ q + 1 \in 1..n /\ r + 1 \in 1..n
    BY <1>3, <1>4, <1>9, <2>1
  <2>3. q + 1 = r + 1
    BY <1>1, <2>2
  <2> QED
    BY <2>1, <2>3
<1>10. ASSUME NEW x, NEW y, ComesBefore(s, x, y)
       PROVE  y # Head(s) /\ (x # Head(s) => ComesBefore(t, x, y))
  <2>1. PICK q \in 1..n, r \in 1..n : q < r /\ s[q] = x /\ s[r] = y
    BY <1>1, <1>10 DEF ComesBefore
  <2>2. r # 1
    BY <2>1
  <2>3. y # Head(s)
    BY <1>1, <1>2, <2>1, <2>2 DEF Lists
  <2>4. ASSUME x # Head(s) PROVE ComesBefore(t, x, y)
    <3>1. q # 1 /\ q - 1 < r - 1
      BY <1>2, <2>1, <2>4
    <3> QED
      BY <1>3, <1>7, <2>1, <2>2, <3>1 DEF ComesBefore
  <2> QED
    BY <2>3, <2>4
<1> QED
  BY <1>1, <1>2, <1>6, <1>8, <1>9, <1>10 DEF Lists, t

(* Some elements of a list keep their order.                               *)
LEMMA PickedLists ==
    ASSUME NEW S, NEW s, Lists(s, S), NEW at, at \subseteq DOMAIN s
    PROVE  /\ Lists(Picked(s, at), {s[i] : i \in at})
           /\ \A i, j \in at : i < j => ComesBefore(Picked(s, at), s[i], s[j])
<1> DEFINE m == Len(s)
           n == Cardinality(at)
           o == InOrder(at)
           p == Picked(s, at)
           P == {s[i] : i \in at}
<1>1. /\ s \in Seq(S) /\ m \in Nat /\ DOMAIN s = 1..m
      /\ \A q, r \in 1..m : s[q] = s[r] => q = r
  BY DEF Lists
<1>2. at \subseteq Nat /\ IsFiniteSet(at) /\ at \subseteq 1..m
  <2>1. IsFiniteSet(1..m)
    BY <1>1, FS_Interval
  <2>2. at \subseteq 1..m
    BY <1>1
  <2> HIDE DEF m
  <2> QED
    BY <1>1, <2>1, <2>2, FS_Subset
<1>3. /\ n \in Nat /\ o \in [1..n -> at]
      /\ \A i \in at : \E r \in 1..n : o[r] = i
      /\ \A a, b \in 1..n : a < b => o[a] < o[b]
  BY <1>2, InOrderEnumerates
<1>4. p = [r \in 1..n |-> s[o[r]]]
  BY DEF Picked
<1> HIDE DEF m, n, o, p
<1>5. /\ p \in [1..n -> P] /\ DOMAIN p = 1..n
      /\ \A r \in 1..n : p[r] = s[o[r]] /\ o[r] \in at
  BY <1>3, <1>4
<1> HIDE DEF P
<1>6. p \in Seq(P)
  BY <1>3, <1>5
<1>7. ASSUME NEW x \in P PROVE \E r \in 1..n : p[r] = x
  <2>1. PICK i \in at : s[i] = x
    BY DEF P
  <2> QED
    BY <1>3, <1>5, <2>1
<1>8. \A a, b \in 1..n : a < b \/ b < a \/ a = b
  BY <1>3
<1>9. \A a \in 1..n : o[a] \in Nat
  BY <1>2, <1>3
<1>10. ASSUME NEW a \in 1..n, NEW b \in 1..n, p[a] = p[b] PROVE a = b
  <2>1. o[a] = o[b]
    BY <1>1, <1>2, <1>5, <1>10
  <2>2. ~(a < b) /\ ~(b < a)
    <3>1. ~(o[a] < o[b]) /\ ~(o[b] < o[a])
      BY <1>9, <2>1
    <3> QED
      BY <1>3, <3>1
  <2> QED
    BY <1>8, <2>2
<1>11. ASSUME NEW i \in at, NEW j \in at, i < j PROVE ComesBefore(p, s[i], s[j])
  <2>1. PICK a \in 1..n : o[a] = i
    BY <1>3
  <2>2. PICK b \in 1..n : o[b] = j
    BY <1>3
  <2>3. a # b /\ ~(b < a)
    <3>1. i \in Nat /\ j \in Nat
      BY <1>2
    <3>2. ~(j < i) /\ i # j
      BY <1>11, <3>1
    <3> QED
      BY <1>3, <2>1, <2>2, <3>2
  <2> QED
    BY <1>5, <1>8, <2>1, <2>2, <2>3 DEF ComesBefore
<1> QED
  BY <1>5, <1>6, <1>7, <1>10, <1>11 DEF Lists, P, p

(* Sorting by dependency keeps the elements; where nothing is on a cycle,  *)
(* everything comes after what it depends on.                              *)
LEMMA SortByDependencyLists ==
    ASSUME NEW S, NEW s, Lists(s, S), NEW d \in [DOMAIN s -> SUBSET DOMAIN s]
    PROVE  /\ Lists(SortByDependency(s, d), S)
           /\ Grounded(d, DOMAIN s) =>
                \A i \in DOMAIN s : \A j \in d[i] :
                  ComesBefore(SortByDependency(s, d), s[j], s[i])
<1> DEFINE n == Len(s)
           E == DOMAIN s
           t == TopologicalSort(d)
           p == SortByDependency(s, d)
<1>1. /\ s \in Seq(S) /\ n \in Nat /\ E = 1..n
      /\ \A q \in E : s[q] \in S
      /\ \A x \in S : \E q \in E : s[q] = x
      /\ \A q, r \in E : s[q] = s[r] => q = r
  BY DEF Lists
<1>2. p = [i \in E |-> s[t[i]]]
  BY DEF SortByDependency
<1> HIDE DEF n, E, t, p
<1>3. d \in [E -> SUBSET E]
  BY DEF E
<1>4. /\ t \in [E -> E]
      /\ \A i \in E : \E q \in E : t[q] = i
      /\ \A q, r \in E : t[q] = t[r] => q = r
      /\ \A A \in SUBSET E : Grounded(d, A) =>
           \A q \in E : t[q] \in A => \A i \in d[t[q]] : \E r \in E : r < q /\ t[r] = i
  <2>1. n \in Nat /\ E = 1..n
    BY <1>1
  <2>2. Orders(TopologicalSort(d), d, E)
    BY <1>3, <2>1, TopologicalSortSorts
  <2> QED
    BY <2>2 DEF t, Orders
<1>5. /\ p \in [E -> S] /\ DOMAIN p = E
      /\ \A i \in E : p[i] = s[t[i]] /\ t[i] \in E
  BY <1>1, <1>2, <1>4
<1>6. p \in Seq(S)
  BY <1>1, <1>5
<1>7. ASSUME NEW x \in S PROVE \E q \in E : p[q] = x
  <2>1. PICK i \in E : s[i] = x
    BY <1>1
  <2>2. PICK q \in E : t[q] = i
    BY <1>4
  <2> QED
    BY <1>5, <2>1, <2>2
<1>8. ASSUME NEW q \in E, NEW r \in E, p[q] = p[r] PROVE q = r
  <2>1. s[t[q]] = s[t[r]] /\ t[q] \in E /\ t[r] \in E
    BY <1>5, <1>8
  <2>3. \A x, y \in E : s[x] = s[y] => x = y
    BY <1>1
  <2>2. t[q] = t[r]
    BY ONLY <2>1, <2>3
  <2> QED
    BY <1>4, <2>2
<1>9. ASSUME Grounded(d, E), NEW i \in E, NEW j \in d[i] PROVE ComesBefore(p, s[j], s[i])
  <2>1. PICK q \in E : t[q] = i
    BY <1>4
  <2>2. PICK r \in E : r < q /\ t[r] = j
    BY <1>4, <1>9, <2>1
  <2> QED
    BY <1>5, <2>1, <2>2 DEF ComesBefore
<1> QED
  BY <1>5, <1>6, <1>7, <1>8, <1>9 DEF Lists, E, p

(* In a list nothing comes both before and after something else.           *)
LEMMA BeforeIsStrict ==
    ASSUME NEW S, NEW s, Lists(s, S), NEW x, NEW y, ComesBefore(s, x, y)
    PROVE  x \in S /\ y \in S /\ x # y /\ ~ComesBefore(s, y, x)
<1>1. /\ s \in Seq(S) /\ DOMAIN s \subseteq Nat
      /\ \A q \in DOMAIN s : s[q] \in S
      /\ \A q, r \in DOMAIN s : s[q] = s[r] => q = r
  BY DEF Lists
<1>2. PICK q \in DOMAIN s, r \in DOMAIN s : q < r /\ s[q] = x /\ s[r] = y
  BY DEF ComesBefore
<1>3. q \in Nat /\ r \in Nat /\ q # r
  BY <1>1, <1>2
<1>4. ASSUME ComesBefore(s, y, x) PROVE FALSE
  <2>1. PICK a \in DOMAIN s, b \in DOMAIN s : a < b /\ s[a] = y /\ s[b] = x
    BY <1>4 DEF ComesBefore
  <2>2. a = r /\ b = q
    BY <1>1, <1>2, <2>1
  <2> QED
    BY <1>2, <1>3, <2>1, <2>2
<1> QED
  BY <1>1, <1>2, <1>3, <1>4

(* The images of a list's elements under an injective function.            *)
LEMMA MappedLists ==
    ASSUME NEW S, NEW s, Lists(s, S), NEW f, DOMAIN f = S,
           \A x, y \in S : f[x] = f[y] => x = y
    PROVE  /\ Lists([i \in DOMAIN s |-> f[s[i]]], {f[x] : x \in S})
           /\ \A x, y : ComesBefore(s, x, y) => ComesBefore([i \in DOMAIN s |-> f[s[i]]], f[x], f[y])
<1> DEFINE n == Len(s)
           p == [i \in DOMAIN s |-> f[s[i]]]
           P == {f[x] : x \in S}
<1>1. /\ n \in Nat /\ DOMAIN s = 1..n
      /\ \A q \in 1..n : s[q] \in S
      /\ \A x \in S : \E q \in 1..n : s[q] = x
      /\ \A q, r \in 1..n : s[q] = s[r] => q = r
  BY DEF Lists
<1> HIDE DEF n
<1>2. DOMAIN p = 1..n /\ p \in [1..n -> P] /\ \A q \in 1..n : p[q] = f[s[q]]
  BY <1>1
<1>3. ASSUME NEW x \in P PROVE \E q \in 1..n : p[q] = x
  BY <1>1, <1>2
<1>4. ASSUME NEW q \in 1..n, NEW r \in 1..n, p[q] = p[r] PROVE q = r
  BY <1>1, <1>2, <1>4
<1>5. ASSUME NEW x, NEW y, ComesBefore(s, x, y) PROVE ComesBefore(p, f[x], f[y])
  BY <1>1, <1>2, <1>5 DEF ComesBefore
<1> HIDE DEF p, P
<1>6. p \in Seq(P)
  BY <1>1, <1>2
<1> QED
  BY <1>2, <1>3, <1>4, <1>5, <1>6 DEF Lists, p, P

(* A list read backwards.                                                  *)
LEMMA BackwardsLists ==
    ASSUME NEW S, NEW s, Lists(s, S),
           NEW t, t = [i \in 1..Len(s) |-> s[(Len(s) - i) + 1]]
    PROVE  Lists(t, S) /\ \A x, y : ComesBefore(s, x, y) => ComesBefore(t, y, x)
<1> DEFINE n == Len(s)
           E == 1..n
           at == [q \in E |-> (n - q) + 1]
<1>1. /\ n \in Nat /\ DOMAIN s = E
      /\ \A q \in E : s[q] \in S
      /\ \A x \in S : \E q \in E : s[q] = x
      /\ \A q, r \in E : s[q] = s[r] => q = r
  BY DEF Lists
<1> HIDE DEF n
<1>2. /\ at \in [E -> E] /\ \A q \in E : at[at[q]] = q
      /\ \A q, r \in E : q < r => at[r] < at[q]
  BY <1>1
<1>3. DOMAIN t = E /\ \A q \in E : t[q] = s[at[q]] /\ t[at[q]] = s[q]
  BY <1>1, <1>2 DEF n
<1> HIDE DEF at
<1>4. t \in [E -> S]
  <2>1. t = [i \in E |-> t[i]]
    <3>1. t = [i \in E |-> s[(n - i) + 1]]
      BY DEF n
    <3> QED
      BY <3>1
  <2>2. \A q \in E : t[q] \in S
    BY <1>1, <1>2, <1>3
  <2> QED
    BY <2>1, <2>2
<1>5. t \in Seq(S)
  BY <1>1, <1>4
<1> HIDE DEF E
<1>6. ASSUME NEW x \in S PROVE \E q \in E : t[q] = x
  <2>1. PICK q \in E : s[q] = x
    BY <1>1
  <2>2. at[q] \in E /\ t[at[q]] = s[q]
    BY <1>2, <1>3
  <2> QED
    BY <2>1, <2>2
<1>7. ASSUME NEW q \in E, NEW r \in E, t[q] = t[r] PROVE q = r
  <2>1. at[q] = at[r]
    BY <1>1, <1>2, <1>3, <1>7
  <2> QED
    BY <1>2, <2>1
<1>8. ASSUME NEW x, NEW y, ComesBefore(s, x, y) PROVE ComesBefore(t, y, x)
  <2>1. PICK q \in E, r \in E : q < r /\ s[q] = x /\ s[r] = y
    BY <1>1, <1>8 DEF ComesBefore
  <2>2. at[r] \in E /\ at[q] \in E /\ at[r] < at[q] /\ t[at[r]] = y /\ t[at[q]] = x
    BY <1>2, <1>3, <2>1
  <2> QED
    BY <1>3, <2>2 DEF ComesBefore
<1> QED
  BY <1>3, <1>5, <1>6, <1>7, <1>8 DEF Lists

(* Instead of its neighbours at i and i + 1 the list holds a new element,  *)
(* which stands where they stood.                                          *)
FusedAt(t, s, i, z, S) ==
    LET a == s[i]
        b == s[i + 1]
        K == S \ {a, b}
    IN /\ a \in S /\ b \in S /\ a # b /\ Lists(t, K \cup {z})
       /\ \A x, y \in K : ComesBefore(s, x, y) => ComesBefore(t, x, y)
       /\ \A x \in K : ComesBefore(s, x, a) \/ ComesBefore(s, x, b) => ComesBefore(t, x, z)
       /\ \A x \in K : ComesBefore(s, a, x) \/ ComesBefore(s, b, x) => ComesBefore(t, z, x)

(* Two neighbours of a list replaced by one new element.                   *)
LEMMA FusedLists ==
    ASSUME NEW S, NEW s, Lists(s, S), NEW i \in 1..(Len(s) - 1), NEW z, z \notin S,
           NEW t
    PROVE  t = SubSeq(s, 1, i - 1) \o <<z>> \o SubSeq(s, i + 2, Len(s)) =>
              FusedAt(t, s, i, z, S)
<1> DEFINE n == Len(s)
           a == s[i]
           b == s[i + 1]
           K == S \ {a, b}
           Z == K \cup {z}
           u == SubSeq(s, 1, i - 1)
           w == SubSeq(s, i + 2, n)
           Made == t = SubSeq(s, 1, i - 1) \o <<z>> \o SubSeq(s, i + 2, n)
           at == [q \in 1..n |-> IF q <= i THEN q ELSE q - 1]
<1>1. /\ n \in Nat /\ DOMAIN s = 1..n
      /\ \A q \in 1..n : s[q] \in S
      /\ \A x \in S : \E q \in 1..n : s[q] = x
      /\ \A q, r \in 1..n : s[q] = s[r] => q = r
  BY DEF Lists
<1> HIDE DEF n, Made
<1>2. i \in Nat /\ i >= 1 /\ i <= n - 1 /\ i \in 1..n /\ i + 1 \in 1..n
  BY <1>1 DEF n
<1>3. a \in S /\ b \in S /\ a # b
  BY <1>1, <1>2
<1>4. \A q \in 1..n : q # i /\ q # i + 1 => s[q] \in K
  BY <1>1, <1>2
<1> HIDE DEF a, b, K, Z
<1>5. u \in Seq(Z) /\ Len(u) = i - 1 /\ \A q \in 1..(i - 1) : u[q] = s[q]
  <2>1. 1 \in Int /\ i - 1 \in Int /\ \A q \in 1..(i - 1) : s[q] \in Z
    BY <1>1, <1>2, <1>4 DEF Z
  <2>2. /\ u \in Seq(Z) /\ Len(u) = IF 1 <= i - 1 THEN (i - 1) - 1 + 1 ELSE 0
        /\ \A q \in 1..((i - 1) - 1 + 1) : u[q] = s[1 + q - 1]
    BY <2>1, SubSeqProperties
  <2> HIDE DEF u
  <2> QED
    BY <1>2, <2>2
<1>6. w \in Seq(Z) /\ Len(w) = n - i - 1 /\ \A q \in 1..(n - i - 1) : w[q] = s[i + 1 + q]
  <2>1. i + 2 \in Int /\ n \in Int /\ \A q \in (i + 2)..n : s[q] \in Z
    BY <1>1, <1>2, <1>4 DEF Z
  <2>2. /\ w \in Seq(Z) /\ Len(w) = IF i + 2 <= n THEN n - (i + 2) + 1 ELSE 0
        /\ \A q \in 1..(n - (i + 2) + 1) : w[q] = s[(i + 2) + q - 1]
    BY <2>1, SubSeqProperties
  <2> HIDE DEF w
  <2>3. Len(w) = n - i - 1
    BY <1>1, <1>2, <2>2
  <2>4. ASSUME NEW q \in 1..(n - i - 1) PROVE w[q] = s[i + 1 + q]
    <3>1. q \in 1..(n - (i + 2) + 1) /\ (i + 2) + q - 1 = i + 1 + q
      BY <1>1, <1>2
    <3> QED
      BY <2>2, <3>1
  <2> QED
    BY <2>2, <2>3, <2>4
<1> HIDE DEF u, w
<1> DEFINE v == u \o <<z>>
<1>7. v \in Seq(Z) /\ Len(v) = i /\ v[i] = z /\ \A q \in 1..(i - 1) : v[q] = s[q]
  <2>1. <<z>> \in Seq(Z) /\ Len(<<z>>) = 1 /\ <<z>>[1] = z
    BY DEF Z
  <2>2. v \in Seq(Z) /\ Len(v) = Len(u) + 1
    BY <1>5, <2>1, ConcatProperties
  <2>3. \A q \in 1..(Len(u) + 1) : v[q] = IF q <= Len(u) THEN u[q] ELSE <<z>>[q - Len(u)]
    BY <1>5, <2>1, ConcatProperties
  <2> HIDE DEF v
  <2> QED
    BY <1>2, <1>5, <2>1, <2>2, <2>3
<1> HIDE DEF v
<1> SUFFICES ASSUME Made
             PROVE  /\ a \in S /\ b \in S /\ a # b /\ Lists(t, Z)
                    /\ \A x, y \in K : ComesBefore(s, x, y) => ComesBefore(t, x, y)
                    /\ \A x \in K : ComesBefore(s, x, a) \/ ComesBefore(s, x, b) => ComesBefore(t, x, z)
                    /\ \A x \in K : ComesBefore(s, a, x) \/ ComesBefore(s, b, x) => ComesBefore(t, z, x)
  BY DEF FusedAt, a, b, K, Z, Made, n
<1>0. Made
  OBVIOUS
<1>8. t \in Seq(Z) /\ Len(t) = n - 1 /\ DOMAIN t = 1..(n - 1)
  <2>1. t = v \o w
    BY <1>0 DEF u, v, w, Made
  <2>2. t \in Seq(Z) /\ Len(t) = Len(v) + Len(w) /\ DOMAIN t = 1..Len(t)
    <3>1. t \in Seq(Z) /\ Len(t) = Len(v) + Len(w)
      BY <1>6, <1>7, <2>1, ConcatProperties
    <3> QED
      BY <3>1
  <2>3. Len(v) = i /\ Len(w) = n - i - 1
    BY <1>6, <1>7
  <2>4. i \in Nat /\ n \in Nat
    BY <1>1, <1>2
  <2>5. Len(t) = n - 1
    BY <2>2, <2>3, <2>4
  <2> QED
    BY <2>2, <2>5
<1>9. \A q \in 1..(n - 1) : t[q] = IF q <= i THEN v[q] ELSE w[q - i]
  <2>1. t = v \o w /\ Len(v) + Len(w) = n - 1
    <3>1. Len(v) = i /\ Len(w) = n - i - 1
      BY <1>6, <1>7
    <3>2. i \in Nat /\ n \in Nat
      BY <1>1, <1>2
    <3>3. Len(v) + Len(w) = n - 1
      BY <3>1, <3>2
    <3> QED
      BY <1>0, <3>3 DEF u, v, w, Made
  <2>2. \A q \in 1..(Len(v) + Len(w)) : t[q] = IF q <= Len(v) THEN v[q] ELSE w[q - Len(v)]
    BY <1>6, <1>7, <2>1, ConcatProperties
  <2> QED
    BY <1>7, <2>1, <2>2
<1> HIDE DEF at
<1>10. /\ \A q \in 1..n : at[q] \in 1..(n - 1)
       /\ \A q \in 1..n : q < i => at[q] = q
       /\ \A q \in 1..n : q > i => at[q] = q - 1
       /\ at[i] = i /\ at[i + 1] = i
       /\ \A q, r \in 1..n : q < r /\ ~(q = i /\ r = i + 1) => at[q] < at[r]
  BY <1>1, <1>2 DEF at
<1>11. ASSUME NEW q \in 1..n PROVE t[at[q]] = IF q \in {i, i + 1} THEN z ELSE s[q]
  <2>1. CASE q < i
    <3>1. at[q] = q /\ q \in 1..(i - 1) /\ q \in 1..(n - 1) /\ q \notin {i, i + 1}
      BY <1>2, <1>10, <2>1
    <3> QED
      BY <1>7, <1>9, <3>1
  <2>2. CASE q \in {i, i + 1}
    <3>1. at[q] = i /\ i \in 1..(n - 1) /\ i <= i
      BY <1>2, <1>10, <2>2
    <3> QED
      BY <1>7, <1>9, <2>2, <3>1
  <2>3. CASE q > i + 1
    <3>0. n \in Nat /\ i \in Nat /\ q \in Nat /\ q <= n
      BY <1>1, <1>2
    <3>3. at[q] = q - 1
      BY <3>0, <1>10, <2>3
    <3>4. /\ q - 1 \in 1..(n - 1) /\ ~(q - 1 <= i) /\ q \notin {i, i + 1}
          /\ (q - 1) - i \in 1..(n - i - 1) /\ i + 1 + ((q - 1) - i) = q
      BY ONLY <3>0, <2>3
    <3>2. t[q - 1] = w[(q - 1) - i] /\ w[(q - 1) - i] = s[i + 1 + ((q - 1) - i)]
      BY <1>6, <1>9, <3>4
    <3> QED
      BY <3>2, <3>3, <3>4
  <2> QED
    BY <1>2, <2>1, <2>2, <2>3
<1>12. \A r \in 1..(n - 1) : \E q \in 1..n : q # i + 1 /\ at[q] = r
  <2>0. /\ n \in Nat /\ i \in Nat
        /\ \A q \in 1..n : q < i => at[q] = q
        /\ \A q \in 1..n : q > i => at[q] = q - 1
        /\ at[i] = i
    BY <1>1, <1>2, <1>10
  <2>1. SUFFICES ASSUME NEW r \in 1..(n - 1) PROVE \E q \in 1..n : q # i + 1 /\ at[q] = r
    OBVIOUS
  <2>2. CASE r <= i
    <3>1. r \in 1..n /\ r # i + 1 /\ at[r] = r
      BY <2>0, <2>2
    <3> QED
      BY <3>1
  <2>3. CASE r > i
    <3>1. r \in Nat /\ r + 1 \in 1..n /\ r + 1 > i /\ r + 1 # i + 1
      BY <2>0, <2>3
    <3>2. at[r + 1] = (r + 1) - 1
      BY <2>0, <3>1
    <3> QED
      BY <3>1, <3>2
  <2> QED
    BY <1>2, <2>2, <2>3
<1>13. ASSUME NEW q \in 1..(n - 1), NEW r \in 1..(n - 1), t[q] = t[r] PROVE q = r
  <2>1. PICK j \in 1..n : j # i + 1 /\ at[j] = q
    BY <1>12
  <2>2. PICK k \in 1..n : k # i + 1 /\ at[k] = r
    BY <1>12
  <2>3. t[q] = IF j = i THEN z ELSE s[j]
    BY <1>11, <2>1
  <2>4. t[r] = IF k = i THEN z ELSE s[k]
    BY <1>11, <2>2
  <2>5. s[j] # z /\ s[k] # z
    BY <1>1
  <2>6. j = k
    BY <1>1, <1>13, <2>3, <2>4, <2>5
  <2> QED
    BY <2>1, <2>2, <2>6
<1>14. ASSUME NEW x \in Z PROVE \E r \in 1..(n - 1) : t[r] = x
  <2>1. CASE x = z
    BY <1>2, <1>10, <1>11, <2>1
  <2>2. CASE x \in K
    <3>1. PICK q \in 1..n : s[q] = x
      BY <1>1, <2>2 DEF K
    <3>2. q \notin {i, i + 1}
      BY <2>2, <3>1 DEF K, a, b
    <3> QED
      BY <1>10, <1>11, <3>1, <3>2
  <2> QED
    BY <2>1, <2>2 DEF Z
<1>15. Lists(t, Z)
  BY <1>8, <1>13, <1>14 DEF Lists
<1> DEFINE Image(x) == IF x \in {a, b} THEN z ELSE x
<1>16. ASSUME NEW x, NEW y, ComesBefore(s, x, y), ~(x = a /\ y = b)
       PROVE  ComesBefore(t, Image(x), Image(y))
  <2>1. PICK q \in 1..n, r \in 1..n : q < r /\ s[q] = x /\ s[r] = y
    BY <1>1, <1>16 DEF ComesBefore
  <2>2. ~(q = i /\ r = i + 1)
    BY <1>16, <2>1 DEF a, b
  <2>3. at[q] < at[r] /\ at[q] \in 1..(n - 1) /\ at[r] \in 1..(n - 1)
    BY <1>10, <2>1, <2>2
  <2>4. t[at[q]] = Image(x)
    <3>1. q \in {i, i + 1} <=> x \in {a, b}
      BY <1>1, <1>2, <2>1 DEF a, b
    <3> QED
      BY <1>11, <2>1, <3>1
  <2>5. t[at[r]] = Image(y)
    <3>1. r \in {i, i + 1} <=> y \in {a, b}
      BY <1>1, <1>2, <2>1 DEF a, b
    <3> QED
      BY <1>11, <2>1, <3>1
  <2> QED
    BY <1>8, <2>3, <2>4, <2>5 DEF ComesBefore
<1>17. \A x \in K : x # a /\ x # b /\ Image(x) = x /\ Image(a) = z /\ Image(b) = z
  BY DEF K
<1> HIDE DEF Image
<1>18. /\ \A x, y \in K : ComesBefore(s, x, y) => ComesBefore(t, x, y)
       /\ \A x \in K : ComesBefore(s, x, a) \/ ComesBefore(s, x, b) => ComesBefore(t, x, z)
       /\ \A x \in K : ComesBefore(s, a, x) \/ ComesBefore(s, b, x) => ComesBefore(t, z, x)
  BY <1>16, <1>17
<1> QED
  BY <1>3, <1>15, <1>18

(* What is left of a list of elements of S, some of which had to come      *)
(* before others: first[1] before first[2] for every pair in R.            *)
Remains(s, S, R) ==
    /\ EntriesOf(s) \subseteq S
    /\ Lists(s, EntriesOf(s))
    /\ \A first \in R : first[1] \in EntriesOf(s) => ComesBefore(s, first[1], first[2])

(* What the first of what is left waits for is done already.               *)
LEMMA TailRemains ==
    ASSUME NEW S, NEW R, NEW s, Remains(s, S, R), s # <<>>
    PROVE  /\ Head(s) \in EntriesOf(s) /\ Head(s) \in S
           /\ EntriesOf(Tail(s)) = EntriesOf(s) \ {Head(s)}
           /\ Remains(Tail(s), S, R)
           /\ \A first \in R : first[2] = Head(s) => first[1] \notin EntriesOf(s)
<1> DEFINE E == EntriesOf(s)
           h == Head(s)
           t == Tail(s)
<1>1. Lists(s, E) /\ E \subseteq S
  BY DEF Remains
<1> HIDE DEF E
<1>2. /\ h \in E /\ Lists(t, E \ {h})
      /\ \A x, y : ComesBefore(s, x, y) => y # h /\ (x # h => ComesBefore(t, x, y))
  BY <1>1, TailLists
<1> HIDE DEF h, t
<1>3. EntriesOf(t) = E \ {h}
  <2>1. \A q \in DOMAIN t : t[q] \in E \ {h}
    BY <1>2 DEF Lists
  <2>2. \A x \in E \ {h} : \E q \in DOMAIN t : t[q] = x
    BY <1>2 DEF Lists
  <2> QED
    BY <2>1, <2>2 DEF EntriesOf
<1>4. \A first \in R : first[1] \in E => ComesBefore(s, first[1], first[2])
  BY DEF Remains, E
<1>5. \A first \in R : first[1] \in E \ {h} => ComesBefore(t, first[1], first[2])
  BY <1>2, <1>4
<1>6. Remains(t, S, R)
  BY <1>1, <1>2, <1>3, <1>5 DEF Remains
<1>7. \A first \in R : first[2] = h => first[1] \notin E
  BY <1>2, <1>4
<1> QED
  BY <1>1, <1>2, <1>3, <1>6, <1>7 DEF h, t, E

(***************************************************************************)
(* Closures                                                                *)
(***************************************************************************)

(* What is reached from the set a by adding F of what was reached so far.  *)
Closes(c, F, a, X) ==
    /\ c \in SUBSET X /\ a \subseteq c /\ F[c] = c
    /\ \A Y \in SUBSET X : a \subseteq Y /\ (\A Z \in SUBSET Y : F[Z] \subseteq Y) => c \subseteq Y

(* In a set of n elements nothing more is reached after n turns.           *)
THEOREM ClosureIsReached ==
    ASSUME NEW X, IsFiniteSet(X), NEW a \in SUBSET X, NEW F \in [SUBSET X -> SUBSET X],
           \A Y \in SUBSET X : Y \subseteq F[Y],
           NEW g, Iterates(g, F, a, Cardinality(X))
    PROVE  Closes(g[Cardinality(X)], F, a, X)
<1> DEFINE n == Cardinality(X)
           Least(c) == \A Y \in SUBSET X :
                         a \subseteq Y /\ (\A Z \in SUBSET Y : F[Z] \subseteq Y) => c \subseteq Y
           Grown(k) == /\ g[k] \in SUBSET X /\ a \subseteq g[k] /\ Least(g[k])
                       /\ F[g[k]] = g[k] \/ Cardinality(g[k]) >= k
           T == {k \in Nat : k <= n => Grown(k)}
<1>1. n \in Nat /\ \A Y \in SUBSET X : IsFiniteSet(Y) /\ Cardinality(Y) \in Nat
  <2>1. \A Y \in SUBSET X : IsFiniteSet(Y)
    BY FS_Subset
  <2> QED
    BY <2>1, FS_CardinalityType
<1>2. g[0] = a /\ \A k \in 1..n : g[k] = F[g[k - 1]]
  <2>1. g = [k \in 0..n |-> IF k = 0 THEN a ELSE F[g[k - 1]]]
    BY DEF Iterates
  <2> HIDE DEF n
  <2>2. 0 \in 0..n
    BY <1>1
  <2>3. g[0] = a
    BY <2>1, <2>2
  <2>4. ASSUME NEW k \in 1..n PROVE g[k] = F[g[k - 1]]
    <3>1. k \in 0..n /\ k # 0
      BY <1>1, <2>4
    <3> QED
      BY <2>1, <3>1
  <2> QED
    BY <2>3, <2>4
<1> HIDE DEF n
<1>3. Grown(0)
  BY <1>1, <1>2
<1>4. 0 \in T
  BY <1>3
<1>5. ASSUME NEW k \in Nat, k \in T, k + 1 <= n PROVE Grown(k + 1)
  <2>1. g[k + 1] = F[g[k]]
    BY <1>1, <1>2, <1>5
  <2>2. /\ g[k] \in SUBSET X /\ a \subseteq g[k] /\ Least(g[k])
        /\ F[g[k]] = g[k] \/ Cardinality(g[k]) >= k
    BY <1>1, <1>5
  <2>3. g[k + 1] \in SUBSET X /\ g[k] \subseteq g[k + 1] /\ a \subseteq g[k + 1]
    BY <2>1, <2>2
  <2>4. Least(g[k + 1])
    BY <2>1, <2>2
  <2>5. CASE F[g[k]] = g[k]
    BY <2>1, <2>2, <2>5
  <2>6. CASE F[g[k]] # g[k] /\ Cardinality(g[k]) >= k
    <3>1. /\ IsFiniteSet(g[k + 1]) /\ Cardinality(g[k]) \in Nat
          /\ Cardinality(g[k + 1]) \in Nat
      BY <1>1, <2>2, <2>3
    <3>2. /\ Cardinality(g[k]) <= Cardinality(g[k + 1])
          /\ Cardinality(g[k]) # Cardinality(g[k + 1])
      BY <2>1, <2>3, <2>6, <3>1, FS_Subset
    <3>3. Cardinality(g[k + 1]) >= k + 1
      BY <2>6, <3>1, <3>2
    <3> QED
      BY <2>3, <2>4, <3>3
  <2> QED
    BY <2>2, <2>5, <2>6
<1>6. Grown(n)
  <2>1. n \in T
    <3>1. \A k \in Nat : k \in T => k + 1 \in T
      BY <1>5
    <3> HIDE DEF T
    <3> QED
      BY <1>1, <1>4, <3>1, NatSetInduction
  <2> QED
    BY <1>1, <2>1
<1>7. ASSUME Cardinality(g[n]) >= n PROVE F[g[n]] = g[n]
  <2>1. g[n] \in SUBSET X /\ Cardinality(g[n]) \in Nat
    BY <1>1, <1>6
  <2>2. Cardinality(g[n]) <= n /\ (Cardinality(g[n]) = n => g[n] = X)
    BY <2>1, FS_Subset DEF n
  <2>3. g[n] = X
    BY <1>1, <1>7, <2>1, <2>2
  <2> QED
    BY <2>3
<1> QED
  BY <1>6, <1>7 DEF Closes, n

-------------------------------------------------------------------------------
(* Lists: flattening them, what they hold and how often.                   *)

(* What holds at 0 and is carried from each number to the next holds up to *)
(* any number.                                                             *)
LEMMA RecursionStays ==
    ASSUME NEW S, NEW n \in Nat, NEW h, h[0] \in S,
           \A k \in 1..n : h[k - 1] \in S => h[k] \in S
    PROVE  \A k \in 0..n : h[k] \in S
<1> DEFINE T == {k \in Nat : k <= n => h[k] \in S}
<1>1. 0 \in T
  OBVIOUS
<1>2. ASSUME NEW k \in Nat, k \in T PROVE k + 1 \in T
  <2>1. CASE k + 1 <= n
    <3>1. k + 1 \in 1..n /\ (k + 1) - 1 = k /\ h[k] \in S
      BY <1>2, <2>1
    <3> QED
      BY <3>1
  <2>2. CASE ~(k + 1 <= n)
    BY <2>2
  <2> QED
    BY <2>1, <2>2
<1>3. Nat \subseteq T
  <2> HIDE DEF T
  <2> QED
    BY <1>1, <1>2, NatSetInduction
<1> QED
  BY <1>3

(* The values of a recursion whose steps differ, up to the n-th.           *)
Recurs(g, a, n, G) == g[0] = a /\ \A k \in 1..n : g[k] = G[k][g[k - 1]]

(* A recursion whose steps stay in a set has a value for every number up   *)
(* to the n-th.                                                            *)
LEMMA RecursionSolved ==
    ASSUME NEW S, NEW a \in S, NEW n \in Nat, NEW G \in [1..n -> [S -> S]]
    PROVE  \E g \in [0..n -> S] : Recurs(g, a, n, G)
BY RecursionDefined DEF Recurs

(* FlattenSeq concatenates one list after the other: g has what it has     *)
(* after each.                                                             *)
FlattensBy(q, n, g) ==
    /\ g[0] = <<>> /\ \A k \in 1..n : g[k] = g[k - 1] \o q[k]
    /\ SE!FlattenSeq(q) = g[n]

(* Flattening a list of lists joins them one after another.                *)
LEMMA FlattenedInTurn ==
    ASSUME NEW Q, <<>> \in Q, \A s \in Q : <<>> \o s = s, \A s, t \in Q : s \o t \in Q,
           NEW n \in Nat, NEW q \in [1..n -> Q]
    PROVE  \E g \in [0..n -> Q] : FlattensBy(q, n, g)
<1>1. CASE n = 0
  <2> DEFINE g == [k \in 0..0 |-> <<>>]
  <2>1. Len(q) = 0 /\ q = <<>>
    BY <1>1
  <2>2. SE!FlattenSeq(q) = <<>>
    BY <2>1 DEF SE!FlattenSeq
  <2>3. g \in [0..n -> Q] /\ g[0] = <<>> /\ g[n] = <<>>
    BY <1>1
  <2>4. FlattensBy(q, n, g)
    BY <1>1, <2>2, <2>3 DEF FlattensBy
  <2> QED
    BY <2>3, <2>4
<1>2. CASE n # 0
  <2> DEFINE G == [k \in 1..n |-> [s \in Q |-> s \o q[k]]]
             Flat(f) == f = [i \in 1..n |-> IF i = 1 THEN q[i] ELSE f[i - 1] \o q[i]]
             flatten == CHOOSE f : Flat(f)
             one == {1}
             empty == <<>>
  <2>1. empty \in Q /\ G \in [1..n -> [Q -> Q]] /\ n \in Nat
    OBVIOUS
  <2>2. PICK g \in [0..n -> Q] : Recurs(g, empty, n, G)
    <3> HIDE DEF G, empty
    <3> QED
      BY <2>1, RecursionSolved
  <2>3. ASSUME NEW k \in 1..n PROVE g[k] = g[k - 1] \o q[k]
    <3>1. g[k - 1] \in Q
      OBVIOUS
    <3> QED
      BY <2>2, <3>1 DEF Recurs
  <2>4. g[1] = q[1]
    <3>1. 1 \in 1..n /\ 1 - 1 = 0
      BY <1>2
    <3>2. g[1] = <<>> \o q[1] /\ q[1] \in Q
      BY <2>2, <2>3, <3>1 DEF Recurs
    <3> QED
      BY <3>2
  <2> HIDE DEF G
  <2>5. Flat([i \in 1..n |-> g[i]])
    <3> DEFINE f == [i \in 1..n |-> g[i]]
    <3>1. ASSUME NEW i \in 1..n
          PROVE  f[i] = IF i = 1 THEN q[i] ELSE f[i - 1] \o q[i]
      <4>1. CASE i = 1
        BY <2>4, <4>1
      <4>2. CASE i # 1
        <5>1. i - 1 \in 1..n
          BY <4>2
        <5> QED
          BY <2>3, <4>2, <5>1
      <4> QED
        BY <4>1, <4>2
    <3> QED
      BY <3>1
  <2>6. Flat(flatten)
    <3> HIDE DEF Flat
    <3> QED
      BY <2>5
  <2>7. SE!FlattenSeq(q) = flatten[n]
    <3>1. Len(q) = n
      OBVIOUS
    <3> QED
      BY <1>2, <3>1 DEF SE!FlattenSeq
  <2> HIDE DEF flatten
  <2>8. flatten[1] = q[1] /\ \A k \in 2..n : flatten[k] = flatten[k - 1] \o q[k]
    <3>1. 1 \in 1..n /\ \A k \in 2..n : k \in 1..n /\ k # 1
      BY <1>2
    <3> QED
      BY <2>6, <3>1
  <2> HIDE DEF Flat
  <2> DEFINE h == [k \in 0..n |-> IF k # 0 => flatten[k] = g[k] THEN 1 ELSE 0]
  <2>9. h[0] \in one
    OBVIOUS
  <2>10. ASSUME NEW k \in 1..n, h[k - 1] \in one PROVE h[k] \in one
    <3>1. flatten[k] = g[k]
      <4>1. CASE k = 1
        BY <2>4, <2>8, <4>1
      <4>2. CASE k # 1
        <5>1. k - 1 # 0 /\ k - 1 \in 0..n /\ k \in 2..n
          BY <4>2
        <5>2. flatten[k - 1] = g[k - 1]
          BY <2>10, <5>1
        <5> QED
          BY <2>3, <2>8, <5>1, <5>2
      <4> QED
        BY <4>1, <4>2
    <3> QED
      BY <3>1
  <2>11. \A k \in 0..n : h[k] \in one
    <3> HIDE DEF h, one
    <3> QED
      BY <2>9, <2>10, RecursionStays
  <2>12. flatten[n] = g[n]
    BY <1>2, <2>11
  <2>13. FlattensBy(q, n, g)
    BY <2>2, <2>3, <2>7, <2>12 DEF FlattensBy, Recurs
  <2> QED
    BY <2>13
<1> QED
  BY <1>1, <1>2

(* Flattening lists of one kind gives a list of that kind.                 *)
LEMMA FlattenedStays ==
    ASSUME NEW S, NEW n \in Nat, NEW q \in [1..n -> Seq(S)]
    PROVE  SE!FlattenSeq(q) \in Seq(S)
<1> DEFINE Q == Seq(S)
<1>1. q \in [1..n -> Q]
  OBVIOUS
<1>2. PICK g \in [0..n -> Q] : FlattensBy(q, n, g)
  <2>1. <<>> \in Q /\ (\A s \in Q : <<>> \o s = s) /\ \A s, t \in Q : s \o t \in Q
    OBVIOUS
  <2> HIDE DEF Q
  <2> QED
    BY <1>1, <2>1, FlattenedInTurn
<1> QED
  BY <1>2 DEF FlattensBy

(* How often something stands in a list is a number, 0 where it does not.  *)
LEMMA CountsIsNumber ==
    ASSUME NEW S, NEW s \in Seq(S), NEW x
    PROVE  /\ Counts(s, x) \in Nat /\ IsFiniteSet({i \in DOMAIN s : s[i] = x})
           /\ (\A i \in DOMAIN s : s[i] # x) <=> Counts(s, x) = 0
<1> DEFINE at == {i \in DOMAIN s : s[i] = x}
<1>1. IsFiniteSet(DOMAIN s)
  <2>1. DOMAIN s = 1..Len(s) /\ Len(s) \in Nat
    OBVIOUS
  <2> QED
    BY <2>1, FS_Interval
<1>2. IsFiniteSet(at)
  BY <1>1, FS_Subset
<1>3. Cardinality(at) \in Nat /\ (Cardinality(at) = 0 <=> at = {})
  <2> HIDE DEF at
  <2> QED
    BY <1>2, FS_CardinalityType, FS_EmptySet
<1> QED
  BY <1>2, <1>3 DEF Counts

(* In two lists after another something stands as often as in both.        *)
LEMMA CountsConcatenated ==
    ASSUME NEW S, NEW s \in Seq(S), NEW t \in Seq(S), NEW x
    PROVE  Counts(s \o t, x) = Counts(s, x) + Counts(t, x)
<1> DEFINE m == Len(s)
           u == s \o t
           A1 == {i \in DOMAIN s : s[i] = x}
           B1 == {i \in DOMAIN t : t[i] = x}
           B2 == {i \in DOMAIN u : i > m /\ u[i] = x}
           f == [i \in B1 |-> i + m]
<1>1. /\ m \in Nat /\ Len(t) \in Nat /\ DOMAIN s = 1..m /\ DOMAIN t = 1..Len(t)
      /\ u \in Seq(S) /\ DOMAIN u = 1..(m + Len(t))
      /\ \A i \in 1..(m + Len(t)) : u[i] = IF i <= m THEN s[i] ELSE t[i - m]
  BY ConcatProperties
<1> HIDE DEF m, u
<1>2. {i \in DOMAIN u : u[i] = x} = A1 \cup B2 /\ A1 \cap B2 = {}
  BY <1>1
<1>3. IsFiniteSet(A1) /\ IsFiniteSet(B1)
  BY CountsIsNumber
<1>4. f \in Bijection(B1, B2)
  <2>1. ASSUME NEW i \in B1 PROVE i + m \in B2
    <3>1. i \in 1..Len(t) /\ t[i] = x
      BY <1>1
    <3>2. i + m \in 1..(m + Len(t)) /\ ~(i + m <= m) /\ (i + m) - m = i
      BY <1>1, <3>1
    <3>3. u[i + m] = t[i]
      BY <1>1, <3>2
    <3> QED
      BY <1>1, <3>1, <3>2, <3>3
  <2>2. \A j \in B2 : j - m \in B1 /\ (j - m) + m = j
    <3> SUFFICES ASSUME NEW j \in B2 PROVE j - m \in B1 /\ (j - m) + m = j
      OBVIOUS
    <3>1. j \in Nat /\ j - m \in 1..Len(t) /\ (j - m) + m = j
      BY <1>1
    <3>2. u[j] = t[j - m]
      BY <1>1
    <3> QED
      BY <1>1, <3>1, <3>2
  <2>3. \A i, j \in B1 : i + m = j + m => i = j
    BY <1>1
  <2> QED
    BY <2>1, <2>2, <2>3 DEF Bijection, Injection, Surjection, IsInjective
<1>5. IsFiniteSet(B2) /\ Cardinality(B2) = Cardinality(B1)
  BY <1>3, <1>4, FS_Bijection DEF ExistsBijection
<1>6. Cardinality(A1 \cup B2) = Cardinality(A1) + Cardinality(B1)
  <2>1. Cardinality(A1 \cap B2) = 0
    BY <1>2, FS_EmptySet
  <2>2. Cardinality(A1) \in Nat /\ Cardinality(B1) \in Nat
    BY <1>3, FS_CardinalityType
  <2> HIDE DEF A1, B1, B2
  <2>3. Cardinality(A1 \cup B2) = Cardinality(A1) + Cardinality(B2) - Cardinality(A1 \cap B2)
    BY <1>3, <1>5, FS_Union
  <2> QED
    BY <1>5, <2>1, <2>2, <2>3
<1> QED
  BY <1>2, <1>6 DEF Counts, u

(* What is picked from a list is its elements, each as often as one of the *)
(* places has it.                                                          *)
LEMMA PickedCounts ==
    ASSUME NEW S, NEW s \in Seq(S), NEW at, at \subseteq DOMAIN s
    PROVE  /\ Picked(s, at) \in Seq(S)
           /\ \A x : Counts(Picked(s, at), x) = Cardinality({i \in at : s[i] = x})
<1> DEFINE n == Cardinality(at)
           o == InOrder(at)
           p == Picked(s, at)
<1>1. DOMAIN s \subseteq Nat /\ IsFiniteSet(DOMAIN s)
  <2>1. DOMAIN s = 1..Len(s) /\ Len(s) \in Nat
    OBVIOUS
  <2> QED
    BY <2>1, FS_Interval
<1>2. at \subseteq Nat /\ IsFiniteSet(at)
  BY <1>1, FS_Subset
<1>3. /\ n \in Nat /\ o \in [1..n -> at]
      /\ \A i \in at : \E r \in 1..n : o[r] = i
      /\ \A a, b \in 1..n : a < b => o[a] < o[b]
  BY <1>2, InOrderEnumerates
<1>4. p = [r \in 1..n |-> s[o[r]]]
  BY DEF Picked
<1> HIDE DEF n, o, p
<1>5. p \in [1..n -> S] /\ p \in Seq(S) /\ DOMAIN p = 1..n
  BY <1>3, <1>4
<1>6. ASSUME NEW x PROVE Counts(p, x) = Cardinality({i \in at : s[i] = x})
  <2> DEFINE P1 == {r \in 1..n : p[r] = x}
             A1 == {i \in at : s[i] = x}
             f == [r \in P1 |-> o[r]]
  <2>1. f \in [P1 -> A1]
    BY <1>3, <1>4
  <2>2. ASSUME NEW i \in A1 PROVE \E r \in P1 : f[r] = i
    <3>1. PICK r \in 1..n : o[r] = i
      BY <1>3
    <3>2. r \in P1
      BY <1>4, <3>1
    <3> QED
      BY <3>1, <3>2
  <2>3. ASSUME NEW a \in P1, NEW b \in P1, f[a] = f[b] PROVE a = b
    <3>1. o[a] = o[b] /\ o[a] \in Nat /\ o[b] \in Nat
      BY <1>2, <1>3, <2>3
    <3>2. ~(o[a] < o[b]) /\ ~(o[b] < o[a])
      BY <3>1
    <3>3. ~(a < b) /\ ~(b < a) /\ a \in Nat /\ b \in Nat
      BY <1>3, <3>2
    <3> QED
      BY <3>3
  <2>4. f \in Bijection(P1, A1)
    <3> HIDE DEF f, P1, A1
    <3> QED
      BY <2>1, <2>2, <2>3 DEF Bijection, Injection, Surjection, IsInjective
  <2>5. IsFiniteSet(P1)
    BY <1>3, FS_Interval, FS_Subset
  <2>6. Cardinality(A1) = Cardinality(P1)
    BY <2>4, <2>5, FS_Bijection DEF ExistsBijection
  <2> QED
    BY <1>5, <2>6 DEF Counts
<1> QED
  BY <1>5, <1>6 DEF p

(* The operations of some kinds: those are there as often as before,       *)
(* others not.                                                             *)
LEMMA OfKindsCounts ==
    ASSUME NEW S, NEW s \in Seq(S), NEW kinds
    PROVE  /\ OfKinds(s, kinds) \in Seq(S)
           /\ \A x : Counts(OfKinds(s, kinds), x) = IF x.kind \in kinds THEN Counts(s, x) ELSE 0
<1> DEFINE at == {i \in DOMAIN s : s[i].kind \in kinds}
<1>1. /\ Picked(s, at) \in Seq(S)
      /\ \A x : Counts(Picked(s, at), x) = Cardinality({i \in at : s[i] = x})
  <2>1. at \subseteq DOMAIN s
    OBVIOUS
  <2> HIDE DEF at
  <2> QED
    BY <2>1, PickedCounts
<1>2. ASSUME NEW x
      PROVE  Cardinality({i \in at : s[i] = x}) = IF x.kind \in kinds THEN Counts(s, x) ELSE 0
  <2>1. {i \in at : s[i] = x} = IF x.kind \in kinds THEN {i \in DOMAIN s : s[i] = x} ELSE {}
    OBVIOUS
  <2> QED
    BY <2>1, FS_EmptySet DEF Counts
<1> QED
  BY <1>1, <1>2 DEF OfKinds

(* The operations on a table: those are there as often as before, others   *)
(* not.                                                                    *)
LEMMA OnTableCounts ==
    ASSUME NEW S, NEW s \in Seq(S), NEW t
    PROVE  /\ OnTable(s, t) \in Seq(S)
           /\ \A x : Counts(OnTable(s, t), x) = IF x.table = t THEN Counts(s, x) ELSE 0
<1> DEFINE at == {i \in DOMAIN s : s[i].table = t}
<1>1. /\ Picked(s, at) \in Seq(S)
      /\ \A x : Counts(Picked(s, at), x) = Cardinality({i \in at : s[i] = x})
  <2>1. at \subseteq DOMAIN s
    OBVIOUS
  <2> HIDE DEF at
  <2> QED
    BY <2>1, PickedCounts
<1>2. ASSUME NEW x
      PROVE  Cardinality({i \in at : s[i] = x}) = IF x.table = t THEN Counts(s, x) ELSE 0
  <2>1. {i \in at : s[i] = x} = IF x.table = t THEN {i \in DOMAIN s : s[i] = x} ELSE {}
    OBVIOUS
  <2> QED
    BY <2>1, FS_EmptySet DEF Counts
<1> QED
  BY <1>1, <1>2 DEF OnTable

(* Where only one of the lists has something, the j-th or with j = 0 none, *)
(* their concatenation has it as often.                                    *)
OnlyAt(j, q, n, x) == \A k \in 1..n : k # j => Counts(q[k], x) = 0

(* What only one of the lists has is as often in their concatenation.      *)
LEMMA FlattenedCounts ==
    ASSUME NEW S, NEW n \in Nat, NEW q \in [1..n -> Seq(S)], NEW x, NEW j \in 0..n,
           OnlyAt(j, q, n, x)
    PROVE  Counts(SE!FlattenSeq(q), x) = IF j = 0 THEN 0 ELSE Counts(q[j], x)
<1> DEFINE Q == Seq(S)
           c == IF j = 0 THEN 0 ELSE Counts(q[j], x)
           one == {1}
<1>1. q \in [1..n -> Q]
  OBVIOUS
<1>2. PICK g \in [0..n -> Q] : FlattensBy(q, n, g)
  <2>1. <<>> \in Q /\ (\A s \in Q : <<>> \o s = s) /\ \A s, t \in Q : s \o t \in Q
    OBVIOUS
  <2> HIDE DEF Q
  <2> QED
    BY <1>1, <2>1, FlattenedInTurn
<1> DEFINE h == [k \in 0..n |-> IF Counts(g[k], x) = (IF j <= k THEN c ELSE 0) THEN 1 ELSE 0]
<1>3. h[0] \in one
  <2>1. g[0] = <<>> /\ <<>> \in Seq(S)
    BY <1>2 DEF FlattensBy
  <2>2. Counts(<<>>, x) = 0
    <3>1. {i \in DOMAIN <<>> : <<>>[i] = x} = {}
      OBVIOUS
    <3> QED
      BY <3>1, FS_EmptySet DEF Counts
  <2>3. j <= 0 => c = 0
    OBVIOUS
  <2> HIDE DEF c
  <2> QED
    BY <2>1, <2>2, <2>3
<1>4. ASSUME NEW k \in 1..n, h[k - 1] \in one PROVE h[k] \in one
  <2>1. k - 1 \in 0..n /\ k \in 0..n
    OBVIOUS
  <2>2. Counts(g[k - 1], x) = IF j <= k - 1 THEN c ELSE 0
    BY <1>4, <2>1
  <2>3. Counts(g[k], x) = Counts(g[k - 1], x) + Counts(q[k], x)
    <3>1. g[k] = g[k - 1] \o q[k] /\ g[k - 1] \in Seq(S) /\ q[k] \in Seq(S)
      BY <1>2, <2>1 DEF FlattensBy
    <3> QED
      BY <3>1, CountsConcatenated
  <2>4. c \in Nat
    <3>1. j # 0 => q[j] \in Seq(S)
      OBVIOUS
    <3> QED
      BY <3>1, CountsIsNumber
  <2>5. Counts(g[k], x) = IF j <= k THEN c ELSE 0
    <3>1. CASE k = j
      <4>1. Counts(q[k], x) = c /\ j <= k /\ ~(j <= k - 1)
        BY <3>1
      <4> HIDE DEF c
      <4> QED
        BY <2>2, <2>3, <2>4, <4>1
    <3>2. CASE k # j
      <4>1. Counts(q[k], x) = 0 /\ (j <= k <=> j <= k - 1)
        BY <3>2 DEF OnlyAt
      <4> HIDE DEF c
      <4> QED
        BY <2>2, <2>3, <2>4, <4>1
    <3> QED
      BY <3>1, <3>2
  <2> HIDE DEF c
  <2> QED
    BY <2>1, <2>5
<1>5. \A k \in 0..n : h[k] \in one
  <2> HIDE DEF h, one
  <2> QED
    BY <1>3, <1>4, RecursionStays
<1>6. Counts(g[n], x) = c
  <2> HIDE DEF c
  <2> QED
    BY <1>5
<1> QED
  BY <1>2, <1>6 DEF FlattensBy

(* Every table an operation names is listed once.                          *)
LEMMA TablesOfLists ==
    ASSUME NEW S, NEW s \in Seq(S)
    PROVE  \E n \in Nat :
              /\ DOMAIN TablesOf(s) = 1..n
              /\ \A i \in DOMAIN s : \E k \in 1..n : TablesOf(s)[k] = s[i].table
              /\ \A k, l \in 1..n : TablesOf(s)[k] = TablesOf(s)[l] => k = l
<1> DEFINE first == {i \in DOMAIN s : \A j \in 1..(i - 1) : s[j].table # s[i].table}
           n == Cardinality(first)
           o == InOrder(first)
           t == TablesOf(s)
<1>1. DOMAIN s \subseteq Nat /\ IsFiniteSet(DOMAIN s) /\ DOMAIN s = 1..Len(s) /\ Len(s) \in Nat
  <2>1. DOMAIN s = 1..Len(s) /\ Len(s) \in Nat
    OBVIOUS
  <2> QED
    BY <2>1, FS_Interval
<1>2. first \subseteq Nat /\ IsFiniteSet(first)
  BY <1>1, FS_Subset
<1>3. /\ n \in Nat /\ o \in [1..n -> first]
      /\ \A i \in first : \E r \in 1..n : o[r] = i
      /\ \A a, b \in 1..n : a < b => o[a] < o[b]
  <2> HIDE DEF first
  <2> QED
    BY <1>2, InOrderEnumerates
<1>4. t = [k \in 1..n |-> s[o[k]].table]
  <2>1. Picked(s, first) = [k \in 1..n |-> s[o[k]]]
    BY DEF Picked
  <2>2. t = [k \in 1..n |-> Picked(s, first)[k].table]
    BY DEF TablesOf
  <2> HIDE DEF n, o, first
  <2> QED
    BY <2>1, <2>2
<1> HIDE DEF n, o, t
<1>5. ASSUME NEW i \in DOMAIN s PROVE \E k \in 1..n : t[k] = s[i].table
  <2> DEFINE same == {j \in DOMAIN s : s[j].table = s[i].table}
             l == Smallest(same)
  <2>1. l \in same /\ \A j \in same : l <= j
    <3>1. same \subseteq Nat /\ same # {}
      BY <1>1
    <3> HIDE DEF same
    <3> QED
      BY <3>1, SmallestIsLeast
  <2> HIDE DEF l
  <2>2. l \in first
    <3>1. ASSUME NEW j \in 1..(l - 1) PROVE s[j].table # s[l].table
      <4>1. j \in DOMAIN s /\ ~(l <= j)
        BY <1>1, <2>1
      <4> QED
        BY <2>1, <4>1
    <3> QED
      BY <2>1, <3>1
  <2>3. PICK k \in 1..n : o[k] = l
    BY <1>3, <2>2
  <2> QED
    BY <1>4, <2>1, <2>3
<1>6. ASSUME NEW k \in 1..n, NEW l \in 1..n, t[k] = t[l], k < l PROVE FALSE
  <2>1. o[k] < o[l] /\ o[k] \in first /\ o[l] \in first
    BY <1>3, <1>6
  <2>2. o[k] \in 1..(o[l] - 1)
    BY <1>1, <2>1
  <2>3. s[o[k]].table = s[o[l]].table
    BY <1>4, <1>6
  <2> QED
    BY <2>1, <2>2, <2>3
<1>7. \A k, l \in 1..n : t[k] = t[l] => k = l
  <2>1. \A k, l \in 1..n : k < l \/ l < k \/ k = l
    BY <1>3
  <2> QED
    BY <1>6, <2>1
<1> QED
  BY <1>3, <1>4, <1>5, <1>7 DEF t

-------------------------------------------------------------------------------
(* The order of a plan: OpOrder.                                           *)

(* Every kind has one place among the groups, and among those of a table.  *)
TableKinds == UNION {TableSubPriorities[g] : g \in DOMAIN TableSubPriorities}
AllKinds == UNION {PriorityGroups[g] : g \in DOMAIN PriorityGroups}

(* No kind is in two priority groups.                                      *)
LEMMA GroupsAreDisjoint ==
    /\ DOMAIN PriorityGroups = 1..30
    /\ \A g, h \in 1..30 : g # h => PriorityGroups[g] \cap PriorityGroups[h] = {}
BY DEF PriorityGroups

(* The kinds of the table group are those of the sub-priorities, each in   *)
(* one.                                                                    *)
LEMMA SubPrioritiesAreDisjoint ==
    /\ DOMAIN TableSubPriorities = 1..9
    /\ \A g, h \in 1..9 : g # h => TableSubPriorities[g] \cap TableSubPriorities[h] = {}
    /\ TableKinds = PriorityGroups[TableScoped]
<1>1. DOMAIN TableSubPriorities = 1..9
  BY DEF TableSubPriorities
<1>2. \A g, h \in 1..9 : g # h => TableSubPriorities[g] \cap TableSubPriorities[h] = {}
  BY DEF TableSubPriorities
<1>3. TableKinds = PriorityGroups[TableScoped]
  BY <1>1 DEF TableKinds, TableSubPriorities, PriorityGroups, TableScoped
<1> QED
  BY <1>1, <1>2, <1>3

(* Ordering the operations on one table by sub-priority rearranges them.   *)
LEMMA BySubPriorityCounts ==
    ASSUME NEW S, NEW s \in Seq(S)
    PROVE  /\ BySubPriority(s) \in Seq(S)
           /\ \A x : x.kind \in TableKinds => Counts(BySubPriority(s), x) = Counts(s, x)
           /\ \A x : Counts(s, x) = 0 => Counts(BySubPriority(s), x) = 0
<1> DEFINE q == [g \in 1..9 |-> OfKinds(s, TableSubPriorities[g])]
<1>1. q \in [1..9 -> Seq(S)]
  BY OfKindsCounts
<1>2. BySubPriority(s) = SE!FlattenSeq(q)
  BY SubPrioritiesAreDisjoint DEF BySubPriority
<1>3. BySubPriority(s) \in Seq(S)
  <2> HIDE DEF q
  <2> QED
    BY <1>1, <1>2, FlattenedStays
<1>4. \A g \in 1..9 : \A x :
         Counts(q[g], x) = IF x.kind \in TableSubPriorities[g] THEN Counts(s, x) ELSE 0
  <2> TAKE g \in 1..9
  <2> DEFINE K == TableSubPriorities[g]
  <2>1. q[g] = OfKinds(s, K)
    OBVIOUS
  <2> HIDE DEF q, K
  <2>2. \A x : Counts(OfKinds(s, K), x) = IF x.kind \in K THEN Counts(s, x) ELSE 0
    BY ONLY OfKindsCounts, s \in Seq(S)
  <2> QED
    BY <2>1, <2>2 DEF K
<1> HIDE DEF q
<1>5. ASSUME NEW x, NEW j \in 0..9, \A k \in 1..9 : k # j => Counts(q[k], x) = 0
      PROVE  Counts(BySubPriority(s), x) = IF j = 0 THEN 0 ELSE Counts(q[j], x)
  <2>1. OnlyAt(j, q, 9, x) /\ 9 \in Nat /\ j \in 0..9
    BY <1>5 DEF OnlyAt
  <2>2. Counts(SE!FlattenSeq(q), x) = IF j = 0 THEN 0 ELSE Counts(q[j], x)
    BY ONLY <1>1, <2>1, FlattenedCounts
  <2> QED
    BY <1>2, <2>2
<1>6. ASSUME NEW x, x.kind \in TableKinds PROVE Counts(BySubPriority(s), x) = Counts(s, x)
  <2>1. PICK g \in 1..9 : x.kind \in TableSubPriorities[g]
    BY <1>6, SubPrioritiesAreDisjoint DEF TableKinds
  <2>2. \A k \in 1..9 : k # g => x.kind \notin TableSubPriorities[k]
    BY <2>1, SubPrioritiesAreDisjoint
  <2>3. \A k \in 1..9 : k # g => Counts(q[k], x) = 0
    BY <1>4, <2>2
  <2>4. Counts(BySubPriority(s), x) = Counts(q[g], x)
    BY <1>5, <2>3
  <2> QED
    BY <1>4, <2>1, <2>4
<1>7. ASSUME NEW x, Counts(s, x) = 0 PROVE Counts(BySubPriority(s), x) = 0
  <2>1. \A k \in 1..9 : Counts(q[k], x) = 0
    BY <1>4, <1>7
  <2> QED
    BY <1>5, <2>1
<1> QED
  BY <1>3, <1>6, <1>7

(* Ordering the operations on tables table by table rearranges them.       *)
LEMMA SortTableScopedCounts ==
    ASSUME NEW S, NEW s \in Seq(S)
    PROVE  /\ SortTableScoped(s) \in Seq(S)
           /\ \A x : x.kind \in TableKinds => Counts(SortTableScoped(s), x) = Counts(s, x)
           /\ \A x : Counts(s, x) = 0 => Counts(SortTableScoped(s), x) = 0
<1>1. PICK n \in Nat :
          /\ DOMAIN TablesOf(s) = 1..n
          /\ \A i \in DOMAIN s : \E k \in 1..n : TablesOf(s)[k] = s[i].table
          /\ \A k, l \in 1..n : TablesOf(s)[k] = TablesOf(s)[l] => k = l
  BY TablesOfLists
<1> DEFINE t == TablesOf(s)
           q == [k \in 1..n |-> BySubPriority(OnTable(s, t[k]))]
<1> HIDE DEF t
<1>2. q \in [1..n -> Seq(S)]
  <2>1. ASSUME NEW k \in 1..n PROVE BySubPriority(OnTable(s, t[k])) \in Seq(S)
    <3>1. OnTable(s, t[k]) \in Seq(S)
      BY OnTableCounts
    <3> QED
      BY <3>1, BySubPriorityCounts
  <2> QED
    BY <2>1
<1>3. SortTableScoped(s) = SE!FlattenSeq(q)
  BY <1>1 DEF SortTableScoped, t
<1>4. SortTableScoped(s) \in Seq(S)
  <2> HIDE DEF q
  <2> QED
    BY <1>2, <1>3, FlattenedStays
<1>5. ASSUME NEW k \in 1..n, NEW x
      PROVE  /\ Counts(s, x) = 0 \/ x.table # t[k] => Counts(q[k], x) = 0
             /\ x.table = t[k] /\ x.kind \in TableKinds => Counts(q[k], x) = Counts(s, x)
  <2>1. /\ OnTable(s, t[k]) \in Seq(S)
        /\ Counts(OnTable(s, t[k]), x) = IF x.table = t[k] THEN Counts(s, x) ELSE 0
    BY OnTableCounts
  <2>2. /\ Counts(OnTable(s, t[k]), x) = 0 => Counts(q[k], x) = 0
        /\ x.kind \in TableKinds => Counts(q[k], x) = Counts(OnTable(s, t[k]), x)
    BY <2>1, BySubPriorityCounts
  <2> QED
    BY <2>1, <2>2
<1> HIDE DEF q
<1>6. ASSUME NEW x, NEW j \in 0..n, \A k \in 1..n : k # j => Counts(q[k], x) = 0
      PROVE  Counts(SortTableScoped(s), x) = IF j = 0 THEN 0 ELSE Counts(q[j], x)
  <2>1. OnlyAt(j, q, n, x) /\ n \in Nat /\ j \in 0..n
    BY <1>6 DEF OnlyAt
  <2>2. Counts(SE!FlattenSeq(q), x) = IF j = 0 THEN 0 ELSE Counts(q[j], x)
    BY ONLY <1>2, <2>1, FlattenedCounts
  <2> QED
    BY <1>3, <2>2
<1>7. ASSUME NEW x, Counts(s, x) = 0 PROVE Counts(SortTableScoped(s), x) = 0
  <2>1. \A k \in 1..n : Counts(q[k], x) = 0
    BY <1>5, <1>7
  <2>2. 0 \in 0..n
    BY <1>1
  <2> QED
    BY <1>6, <2>1, <2>2
<1>8. ASSUME NEW x, x.kind \in TableKinds, Counts(s, x) # 0
      PROVE  Counts(SortTableScoped(s), x) = Counts(s, x)
  <2>1. PICK i \in DOMAIN s : s[i] = x
    BY <1>8, CountsIsNumber
  <2>2. PICK j \in 1..n : t[j] = x.table
    BY <1>1, <2>1 DEF t
  <2>3. \A k \in 1..n : k # j => Counts(q[k], x) = 0
    <3>1. \A k \in 1..n : k # j => t[k] # x.table
      BY <1>1, <2>2 DEF t
    <3> QED
      BY <1>5, <3>1
  <2>4. Counts(SortTableScoped(s), x) = Counts(q[j], x)
    <3>1. j \in 0..n /\ j # 0
      OBVIOUS
    <3> QED
      BY <1>6, <2>3, <3>1
  <2> QED
    BY <1>5, <1>8, <2>2, <2>4
<1> QED
  BY <1>4, <1>7, <1>8

(* The order of a plan is a rearrangement: every operation is there as     *)
(* often as before.  An operation of no kind would be lost.                *)
THEOREM SortRearranges ==
    ASSUME NEW S, NEW s \in Seq(S)
    PROVE  /\ SortDiffOps(s) \in Seq(S)
           /\ \A x : Counts(SortDiffOps(s), x) = IF x.kind \in AllKinds THEN Counts(s, x) ELSE 0
<1> DEFINE K(g) == OfKinds(s, PriorityGroups[g])
           q == [g \in 1..30 |-> IF g = TableScoped THEN SortTableScoped(K(g)) ELSE K(g)]
<1>1. ASSUME NEW g \in 1..30
      PROVE  /\ K(g) \in Seq(S)
             /\ \A x : Counts(K(g), x) = IF x.kind \in PriorityGroups[g] THEN Counts(s, x) ELSE 0
  BY OfKindsCounts
<1> HIDE DEF K
<1>2. ASSUME NEW g \in 1..30
      PROVE  /\ q[g] \in Seq(S)
             /\ \A x : Counts(q[g], x) = IF x.kind \in PriorityGroups[g] THEN Counts(s, x) ELSE 0
  <2>1. CASE g = TableScoped
    <3>1. q[g] = SortTableScoped(K(g)) /\ TableKinds = PriorityGroups[g]
      BY <2>1, SubPrioritiesAreDisjoint
    <3> QED
      BY <1>1, <3>1, SortTableScopedCounts
  <2>2. CASE g # TableScoped
    <3>1. q[g] = K(g)
      BY <2>2
    <3> QED
      BY <1>1, <3>1
  <2> QED
    BY <2>1, <2>2
<1>3. SortDiffOps(s) = SE!FlattenSeq(q)
  BY GroupsAreDisjoint DEF SortDiffOps, K
<1>4. q \in [1..30 -> Seq(S)]
  <2>1. DOMAIN q = 1..30 /\ q = [g \in 1..30 |-> q[g]]
    OBVIOUS
  <2> HIDE DEF q
  <2> QED
    BY <1>2, <2>1
<1> HIDE DEF q
<1>5. ASSUME NEW x, x.kind \in AllKinds PROVE Counts(SortDiffOps(s), x) = Counts(s, x)
  <2>1. PICK g \in 1..30 : x.kind \in PriorityGroups[g]
    BY <1>5, GroupsAreDisjoint DEF AllKinds
  <2>2. \A k \in 1..30 : k # g => x.kind \notin PriorityGroups[k]
    BY <2>1, GroupsAreDisjoint
  <2>3. \A k \in 1..30 : k # g => Counts(q[k], x) = 0
    BY <1>2, <2>2
  <2>4. g \in 0..30 /\ g # 0 /\ 30 \in Nat /\ OnlyAt(g, q, 30, x)
    BY <2>3 DEF OnlyAt
  <2>5. Counts(SE!FlattenSeq(q), x) = Counts(q[g], x)
    BY <1>4, <2>4, FlattenedCounts
  <2> QED
    BY <1>2, <1>3, <2>1, <2>5
<1>6. ASSUME NEW x, x.kind \notin AllKinds PROVE Counts(SortDiffOps(s), x) = 0
  <2>1. \A k \in 1..30 : Counts(q[k], x) = 0
    BY <1>2, <1>6, GroupsAreDisjoint DEF AllKinds
  <2>2. 0 \in 0..30 /\ 30 \in Nat /\ OnlyAt(0, q, 30, x)
    BY <2>1 DEF OnlyAt
  <2>3. Counts(SE!FlattenSeq(q), x) = IF 0 = 0 THEN 0 ELSE Counts(q[0], x)
    BY ONLY <1>4, <2>2, FlattenedCounts
  <2> QED
    BY <1>3, <2>3
<1> QED
  BY <1>3, <1>4, <1>5, <1>6, FlattenedStays

(* A sequence is a list of its entries.                                    *)
LEMMA SeqIsList ==
    ASSUME NEW S, NEW s \in Seq(S)
    PROVE  IsList(s) /\ EntriesOf(s) \subseteq S
<1>1. EntriesOf(s) \subseteq S
  BY DEF EntriesOf
<1>2. s \in Seq(EntriesOf(s))
  <2>1. s \in [1..Len(s) -> EntriesOf(s)] /\ Len(s) \in Nat
    BY DEF EntriesOf
  <2> HIDE DEF EntriesOf
  <2> QED
    BY <2>1
<1> QED
  BY <1>1, <1>2 DEF IsList

(* A list is the sequence of its entries.                                  *)
LEMMA ListIsSeq ==
    ASSUME NEW s, IsList(s)
    PROVE  /\ s \in Seq(EntriesOf(s)) /\ Len(s) \in Nat /\ DOMAIN s = 1..Len(s)
           /\ \A i \in DOMAIN s : s[i] \in EntriesOf(s)
<1>1. s \in Seq(EntriesOf(s))
  BY DEF IsList
<1>2. Len(s) \in Nat /\ DOMAIN s = 1..Len(s)
  BY <1>1
<1> QED
  BY <1>1, <1>2 DEF EntriesOf

(* Lists of none, one and two entries.                                     *)
LEMMA ShortLists ==
    /\ IsList(<<>>) /\ EntriesOf(<<>>) = {}
    /\ \A x : IsList(<<x>>) /\ EntriesOf(<<x>>) = {x}
    /\ \A x, y : IsList(<<x, y>>) /\ EntriesOf(<<x, y>>) = {x, y}
<1>1. EntriesOf(<<>>) = {} /\ <<>> \in Seq({})
  BY DEF EntriesOf
<1>2. ASSUME NEW x PROVE EntriesOf(<<x>>) = {x} /\ <<x>> \in Seq({x})
  BY DEF EntriesOf
<1>3. ASSUME NEW x, NEW y PROVE EntriesOf(<<x, y>>) = {x, y} /\ <<x, y>> \in Seq({x, y})
  BY DEF EntriesOf
<1> QED
  BY <1>1, <1>2, <1>3 DEF IsList

(* Two lists after another are a list of their entries.                    *)
LEMMA ConcatenatedList ==
    ASSUME NEW s, NEW t, IsList(s), IsList(t)
    PROVE  IsList(s \o t) /\ EntriesOf(s \o t) \subseteq EntriesOf(s) \cup EntriesOf(t)
<1> DEFINE S == EntriesOf(s) \cup EntriesOf(t)
<1>1. s \in Seq(EntriesOf(s)) /\ t \in Seq(EntriesOf(t))
  BY ListIsSeq
<1>2. s \in Seq(S) /\ t \in Seq(S)
  BY <1>1
<1>3. s \o t \in Seq(S)
  <2> HIDE DEF S
  <2> QED
    BY <1>2
<1> QED
  <2> HIDE DEF S
  <2>1. IsList(s \o t) /\ EntriesOf(s \o t) \subseteq S
    BY <1>3, SeqIsList
  <2> QED
    BY <2>1 DEF S

(* Flattening lists gives a list of their entries.                         *)
LEMMA FlattenedList ==
    ASSUME NEW n \in Nat, NEW q, q = [k \in 1..n |-> q[k]], \A k \in 1..n : IsList(q[k])
    PROVE  /\ IsList(SE!FlattenSeq(q))
           /\ \A x \in EntriesOf(SE!FlattenSeq(q)) : \E k \in 1..n : x \in EntriesOf(q[k])
<1> DEFINE S == UNION {EntriesOf(q[k]) : k \in 1..n}
<1>1. ASSUME NEW k \in 1..n PROVE q[k] \in Seq(S)
  <2>1. q[k] \in Seq(EntriesOf(q[k])) /\ EntriesOf(q[k]) \subseteq S
    BY ListIsSeq
  <2> HIDE DEF S
  <2> QED
    BY <2>1
<1>2. SE!FlattenSeq(q) \in Seq(S)
  <2> HIDE DEF S
  <2>1. q \in [1..n -> Seq(S)]
    BY <1>1
  <2> QED
    BY <2>1, FlattenedStays
<1>3. IsList(SE!FlattenSeq(q)) /\ EntriesOf(SE!FlattenSeq(q)) \subseteq S
  <2> HIDE DEF S
  <2> QED
    BY <1>2, SeqIsList
<1> QED
  BY <1>3

(* The order of a plan gives a list of its operations.                     *)
LEMMA SortedList ==
    ASSUME NEW s, IsList(s)
    PROVE  IsList(SortDiffOps(s)) /\ EntriesOf(SortDiffOps(s)) \subseteq EntriesOf(s)
<1>1. SortDiffOps(s) \in Seq(EntriesOf(s))
  BY ListIsSeq, SortRearranges
<1> QED
  BY <1>1, SeqIsList

(* The first operation of a plan and the others.                           *)
LEMMA TailList ==
    ASSUME NEW S, NEW s \in Seq(S), s # <<>>
    PROVE  Head(s) \in S /\ Tail(s) \in Seq(S)
OBVIOUS

-------------------------------------------------------------------------------
(* Plans with operations of some kinds only.                               *)

(* A list of operations of some kinds.                                     *)
Only(kinds, s) == IsList(s) /\ \A x \in EntriesOf(s) : x.kind \in kinds

(* A sequence over operations of the kinds has only these kinds.           *)
LEMMA OnlyOfSeq ==
    ASSUME NEW kinds, NEW S, \A x \in S : x.kind \in kinds, NEW s \in Seq(S)
    PROVE  Only(kinds, s)
BY SeqIsList DEF Only

(* Two plans of the kinds after another have only these kinds.             *)
LEMMA OnlyConcatenated ==
    ASSUME NEW kinds, NEW s, NEW t, Only(kinds, s), Only(kinds, t)
    PROVE  Only(kinds, s \o t)
<1>1. IsList(s \o t) /\ EntriesOf(s \o t) \subseteq EntriesOf(s) \cup EntriesOf(t)
  BY ConcatenatedList DEF Only
<1> QED
  BY <1>1 DEF Only

(* So have many plans after another.                                       *)
LEMMA OnlyFlattened ==
    ASSUME NEW kinds, NEW n \in Nat, NEW q, q = [k \in 1..n |-> q[k]],
           \A k \in 1..n : Only(kinds, q[k])
    PROVE  Only(kinds, SE!FlattenSeq(q))
<1>1. \A k \in 1..n : IsList(q[k])
  BY DEF Only
<1>2. /\ IsList(SE!FlattenSeq(q))
      /\ \A x \in EntriesOf(SE!FlattenSeq(q)) : \E k \in 1..n : x \in EntriesOf(q[k])
  BY <1>1, FlattenedList
<1> QED
  BY <1>2 DEF Only

(* The order of a plan brings in no kind.                                  *)
LEMMA OnlySorted ==
    ASSUME NEW kinds, NEW s, Only(kinds, s)
    PROVE  Only(kinds, SortDiffOps(s))
BY SortedList DEF Only

(* The empty plan, and a plan of one operation of the kinds.               *)
LEMMA OnlyShort ==
    ASSUME NEW kinds
    PROVE  Only(kinds, <<>>) /\ \A x : x.kind \in kinds => Only(kinds, <<x>>)
BY ShortLists DEF Only

(* Applying the first operation leaves a plan of the kinds.                *)
LEMMA OnlyTail ==
    ASSUME NEW kinds, NEW s, Only(kinds, s), s # <<>>
    PROVE  Head(s).kind \in kinds /\ Only(kinds, Tail(s))
<1> DEFINE S == EntriesOf(s)
<1>1. s \in Seq(S) /\ \A x \in S : x.kind \in kinds
  BY ListIsSeq DEF Only
<1> HIDE DEF S
<1>2. Head(s) \in S /\ Tail(s) \in Seq(S)
  BY <1>1
<1> QED
  BY <1>1, <1>2, OnlyOfSeq

(* The values of a function of a finite set are a finite set; its elements *)
(* can be listed.                                                          *)
LEMMA ImageIsFinite ==
    ASSUME NEW S, IsFiniteSet(S), NEW f, DOMAIN f = S, f = [x \in S |-> f[x]]
    PROVE  IsFiniteSet({f[x] : x \in S})
<1> DEFINE R == {f[x] : x \in S}
<1>1. f \in [S -> R]
  OBVIOUS
<1>2. \A y \in R : \E x \in S : f[x] = y
  OBVIOUS
<1> HIDE DEF R
<1>3. f \in Surjection(S, R)
  BY <1>1, <1>2 DEF Surjection
<1>4. IsFiniteSet(R)
  BY <1>3, FS_Surjection
<1> QED
  BY <1>4 DEF R

(* A list has finitely many different entries.                             *)
LEMMA EntriesAreFinite ==
    ASSUME NEW s, NEW n \in Nat, s = [k \in 1..n |-> s[k]]
    PROVE  IsFiniteSet(EntriesOf(s))
<1>1. DOMAIN s = 1..n /\ IsFiniteSet(1..n)
  BY FS_Interval
<1>2. IsFiniteSet({s[k] : k \in 1..n})
  BY <1>1, ImageIsFinite
<1> QED
  BY <1>1, <1>2 DEF EntriesOf

(* A finite set listed is a list of its elements.                          *)
LEMMA SetListed ==
    ASSUME NEW S, IsFiniteSet(S)
    PROVE  /\ SE!SetToSeq(S) \in [1..Cardinality(S) -> S] /\ Cardinality(S) \in Nat
           /\ \A x \in S : \E k \in 1..Cardinality(S) : SE!SetToSeq(S)[k] = x
           /\ \A k, l \in 1..Cardinality(S) : SE!SetToSeq(S)[k] = SE!SetToSeq(S)[l] => k = l
<1> DEFINE n == Cardinality(S)
           f == SE!SetToSeq(S)
<1>1. n \in Nat /\ ExistsBijection(1..n, S)
  BY FS_CardinalityType
<1>2. \E g \in [1..n -> S] : SE!IsInjective(g)
  BY <1>1 DEF ExistsBijection, Bijection, Injection, Surjection, IsInjective, SE!IsInjective
<1>3. f = CHOOSE g \in [1..n -> S] : SE!IsInjective(g)
  BY DEF SE!SetToSeq, SE!Cardinality, Cardinality
<1> HIDE DEF f
<1>4. f \in [1..n -> S] /\ SE!IsInjective(f)
  BY <1>2, <1>3
<1>5. \A k, l \in 1..n : f[k] = f[l] => k = l
  BY <1>4 DEF SE!IsInjective
<1>6. ASSUME NEW x \in S PROVE \E k \in 1..n : f[k] = x
  <2>1. IsFiniteSet(1..n) /\ Cardinality(1..n) = n
    BY <1>1, FS_Interval
  <2> DEFINE R == {f[k] : k \in 1..n}
  <2>2. f \in Bijection(1..n, R)
    BY <1>4, <1>5 DEF Bijection, Injection, Surjection, IsInjective
  <2>3. IsFiniteSet(R) /\ Cardinality(R) = n
    <3> HIDE DEF R, n
    <3> QED
      BY <2>1, <2>2, FS_Bijection DEF ExistsBijection
  <2>4. R \subseteq S
    BY <1>4
  <2>5. R = S
    <3> HIDE DEF R
    <3> QED
      BY <2>3, <2>4, FS_Subset
  <2> QED
    BY <2>5
<1> QED
  BY <1>1, <1>4, <1>5, <1>6 DEF f

-------------------------------------------------------------------------------
(* A comparison that takes one desired thing after the other.              *)

(* A comparison takes one desired thing after the other: turn[k] maps what *)
(* is matched before the k-th to what the turn matches and plans.          *)
NothingMatched == [matched |-> {}, ops |-> <<>>]
AfterTurn(acc, turn) ==
    [matched |-> acc.matched \cup turn.matched, ops |-> acc.ops \o turn.ops]

TurnsKeep(turn, n, keys, kinds) ==
    \A k \in 1..n : \A m \in SUBSET keys :
        Only(kinds, turn[k][m].ops) /\ turn[k][m].matched \subseteq keys

TurnsBy(g, turn, n, keys) ==
    /\ g[0] = NothingMatched
    /\ \A k \in 1..n : g[k - 1].matched \in SUBSET keys =>
           g[k] = AfterTurn(g[k - 1], turn[k][g[k - 1].matched])

(* The recursion over the turns has a value.                               *)
LEMMA TurnsTaken ==
    ASSUME NEW keys, NEW kinds, NEW n \in Nat, NEW turn, TurnsKeep(turn, n, keys, kinds)
    PROVE  \E g : /\ g = [k \in 0..n |-> g[k]] /\ g[0] = NothingMatched
                  /\ \A k \in 1..n : /\ g[k] = AfterTurn(g[k - 1], turn[k][g[k - 1].matched])
                                     /\ g[k - 1].matched \in SUBSET keys
<1> DEFINE G == UNION {EntriesOf(turn[k][m].ops) : k \in 1..n, m \in SUBSET keys}
           S == [matched : SUBSET keys, ops : Seq(G)]
           H == [k \in 1..n |-> [acc \in S |-> AfterTurn(acc, turn[k][acc.matched])]]
           none == NothingMatched
<1>1. ASSUME NEW k \in 1..n, NEW acc \in S PROVE AfterTurn(acc, turn[k][acc.matched]) \in S
  <2> DEFINE t == turn[k][acc.matched]
  <2>1. acc.matched \in SUBSET keys /\ acc.ops \in Seq(G)
    <3> HIDE DEF G
    <3> QED
      OBVIOUS
  <2>2. t.ops \in Seq(EntriesOf(t.ops)) /\ t.matched \subseteq keys
    BY <2>1, ListIsSeq DEF TurnsKeep, Only
  <2>3. EntriesOf(t.ops) \subseteq G
    BY <2>1
  <2>4. t.ops \in Seq(G)
    <3> HIDE DEF G, t
    <3> QED
      BY <2>2, <2>3
  <2>5. acc.ops \o t.ops \in Seq(G)
    <3> HIDE DEF G, t
    <3> QED
      BY <2>1, <2>4
  <2> HIDE DEF t, G
  <2>6. \A u \in SUBSET keys : \A v \in Seq(G) : [matched |-> u, ops |-> v] \in S
    OBVIOUS
  <2>7. acc.matched \cup t.matched \in SUBSET keys
    BY <2>1, <2>2
  <2>8. AfterTurn(acc, t) = [matched |-> acc.matched \cup t.matched, ops |-> acc.ops \o t.ops]
    BY DEF AfterTurn
  <2>9. AfterTurn(acc, t) \in S
    <3> HIDE DEF S
    <3> QED
      BY <2>5, <2>6, <2>7, <2>8
  <2> QED
    BY <2>9 DEF t
<1>2. none \in S
  <2> HIDE DEF G
  <2> QED
    BY DEF NothingMatched
<1>3. \A s \in S : s.matched \in SUBSET keys
  <2> HIDE DEF G
  <2> QED
    OBVIOUS
<1> HIDE DEF S
<1>4. H \in [1..n -> [S -> S]]
  BY <1>1
<1>5. PICK g \in [0..n -> S] : Recurs(g, none, n, H)
  <2> HIDE DEF H, none
  <2> QED
    BY <1>2, <1>4, RecursionSolved
<1>6. ASSUME NEW k \in 1..n
      PROVE  /\ g[k] = AfterTurn(g[k - 1], turn[k][g[k - 1].matched])
             /\ g[k - 1].matched \in SUBSET keys
  <2>1. k - 1 \in 0..n /\ g[k - 1] \in S
    OBVIOUS
  <2>2. g[k] = H[k][g[k - 1]]
    BY <1>5 DEF Recurs
  <2> QED
    BY <1>3, <2>1, <2>2
<1>7. g = [k \in 0..n |-> g[k]] /\ g[0] = NothingMatched
  BY <1>5 DEF Recurs
<1> QED
  BY <1>6, <1>7

(* Turns that plan operations of some kinds plan together only these.      *)
LEMMA TurnsPlan ==
    ASSUME NEW keys, NEW kinds, NEW n \in Nat, NEW turn, TurnsKeep(turn, n, keys, kinds),
           NEW g, TurnsBy(g, turn, n, keys)
    PROVE  Only(kinds, g[n].ops) /\ g[n].matched \subseteq keys
<1> DEFINE Kept(a) == Only(kinds, a.ops) /\ a.matched \subseteq keys
           h == [k \in 0..n |-> IF Kept(g[k]) THEN 1 ELSE 0]
           one == {1}
<1>1. h[0] \in one
  BY OnlyShort DEF NothingMatched, TurnsBy
<1>2. ASSUME NEW k \in 1..n, h[k - 1] \in one PROVE h[k] \in one
  <2>1. k - 1 \in 0..n /\ k \in 0..n
    OBVIOUS
  <2>2. Kept(g[k - 1])
    BY <1>2, <2>1
  <2>3. Kept(turn[k][g[k - 1].matched])
    BY <2>2 DEF TurnsKeep
  <2>4. Kept(AfterTurn(g[k - 1], turn[k][g[k - 1].matched]))
    BY <2>2, <2>3, OnlyConcatenated DEF AfterTurn
  <2>5. g[k] = AfterTurn(g[k - 1], turn[k][g[k - 1].matched])
    BY <2>2 DEF TurnsBy
  <2> HIDE DEF Kept
  <2> QED
    BY <2>1, <2>4, <2>5
<1>3. \A k \in 0..n : h[k] \in one
  <2> HIDE DEF h, one
  <2> QED
    BY <1>1, <1>2, RecursionStays
<1>4. Kept(g[n])
  <2> HIDE DEF Kept
  <2> QED
    BY <1>3
<1> QED
  BY <1>4

(* A function on the first numbers is a list of its values.                *)
LEMMA FunctionList ==
    ASSUME NEW n \in Nat, NEW s, s = [k \in 1..n |-> s[k]]
    PROVE  IsList(s) /\ \A x \in EntriesOf(s) : \E k \in 1..n : x = s[k]
<1>1. DOMAIN s = 1..n
  OBVIOUS
<1>2. EntriesOf(s) = {s[k] : k \in 1..n}
  BY <1>1 DEF EntriesOf
<1>3. s \in [1..n -> EntriesOf(s)]
  BY <1>2
<1>4. s \in Seq(EntriesOf(s))
  <2> DEFINE S == EntriesOf(s)
  <2>1. s \in [1..n -> S]
    BY <1>3
  <2> HIDE DEF S
  <2>2. s \in Seq(S)
    BY <2>1
  <2> QED
    BY <2>2 DEF S
<1> QED
  BY <1>2, <1>4 DEF IsList

(* A part of a list is a list of some of its entries.                      *)
LEMMA PickedList ==
    ASSUME NEW s, IsList(s), NEW at, at \subseteq DOMAIN s
    PROVE  /\ IsList(Picked(s, at)) /\ EntriesOf(Picked(s, at)) \subseteq EntriesOf(s)
           /\ \E n \in Nat : DOMAIN Picked(s, at) = 1..n
<1>1. Picked(s, at) \in Seq(EntriesOf(s))
  BY ListIsSeq, PickedCounts
<1>2. IsList(Picked(s, at)) /\ EntriesOf(Picked(s, at)) \subseteq EntriesOf(s)
  BY <1>1, SeqIsList
<1> QED
  BY <1>2, ListIsSeq

-------------------------------------------------------------------------------
(* What is left out of a plan and how it is reported.                      *)

(* One plan is the other but for operations that are left out.             *)
Fewer(e, f) ==
    /\ IsList(e) /\ IsList(f)
    /\ \A x : /\ Counts(e, x) \in Nat /\ Counts(f, x) \in Nat /\ Counts(e, x) <= Counts(f, x)
              /\ x.kind \notin SuppressedKinds => Counts(e, x) = Counts(f, x)

(* How often something stands in a list, and in two lists after another.   *)
LEMMA CountsInList ==
    ASSUME NEW s, IsList(s), NEW x
    PROVE  Counts(s, x) \in Nat /\ (x \in EntriesOf(s) <=> Counts(s, x) # 0)
<1>1. s \in Seq(EntriesOf(s)) /\ DOMAIN s = 1..Len(s)
  BY ListIsSeq
<1>2. Counts(s, x) \in Nat /\ ((\A i \in DOMAIN s : s[i] # x) <=> Counts(s, x) = 0)
  BY <1>1, CountsIsNumber
<1>3. x \in EntriesOf(s) <=> \E i \in DOMAIN s : s[i] = x
  BY DEF EntriesOf
<1> QED
  BY <1>2, <1>3

(* Something stands in two lists after another as often as in both.        *)
LEMMA CountsAdd ==
    ASSUME NEW s, NEW t, IsList(s), IsList(t), NEW x
    PROVE  Counts(s \o t, x) = Counts(s, x) + Counts(t, x)
<1> DEFINE S == EntriesOf(s) \cup EntriesOf(t)
<1>1. s \in Seq(EntriesOf(s)) /\ t \in Seq(EntriesOf(t))
  BY ListIsSeq
<1>2. s \in Seq(S) /\ t \in Seq(S)
  BY <1>1
<1> HIDE DEF S
<1> QED
  BY <1>2, CountsConcatenated

(* How often something stands in a list of none and of one.                *)
LEMMA CountsOfShort ==
    ASSUME NEW x
    PROVE  Counts(<<>>, x) = 0 /\ \A y : Counts(<<y>>, x) = IF y = x THEN 1 ELSE 0
<1>1. Counts(<<>>, x) = 0
  BY FS_EmptySet DEF Counts
<1>2. ASSUME NEW y PROVE Counts(<<y>>, x) = IF y = x THEN 1 ELSE 0
  <2>1. DOMAIN <<y>> = {1} /\ <<y>>[1] = y
    OBVIOUS
  <2>2. {i \in DOMAIN <<y>> : <<y>>[i] = x} = IF y = x THEN {1} ELSE {}
    BY <2>1
  <2> QED
    BY <2>2, FS_EmptySet, FS_Singleton DEF Counts
<1> QED
  BY <1>1, <1>2

(* Plans of which one is fewer stay so together and in the order of a      *)
(* plan.                                                                   *)
LEMMA FewerItself ==
    ASSUME NEW s, IsList(s)
    PROVE  Fewer(s, s)
BY CountsInList DEF Fewer

(* Nothing is fewer than a plan of destructive operations.                 *)
LEMMA FewerNone ==
    ASSUME NEW s, Only(SuppressedKinds, s)
    PROVE  Fewer(<<>>, s)
<1>1. IsList(s) /\ IsList(<<>>)
  BY ShortLists DEF Only
<1>2. ASSUME NEW x
      PROVE  /\ Counts(<<>>, x) = 0 /\ Counts(s, x) \in Nat
             /\ x.kind \notin SuppressedKinds => Counts(s, x) = 0
  BY <1>1, CountsOfShort, CountsInList DEF Only
<1> QED
  BY <1>1, <1>2 DEF Fewer

(* Plans after another, pair by pair fewer, are fewer.                     *)
LEMMA FewerConcatenated ==
    ASSUME NEW a, NEW b, NEW c, NEW d, Fewer(a, b), Fewer(c, d)
    PROVE  Fewer(a \o c, b \o d)
<1>1. IsList(a) /\ IsList(b) /\ IsList(c) /\ IsList(d)
  BY DEF Fewer
<1>2. IsList(a \o c) /\ IsList(b \o d)
  BY <1>1, ConcatenatedList
<1>3. ASSUME NEW x
      PROVE  /\ Counts(a \o c, x) = Counts(a, x) + Counts(c, x)
             /\ Counts(b \o d, x) = Counts(b, x) + Counts(d, x)
  BY <1>1, CountsAdd
<1> HIDE DEF Fewer
<1>4. ASSUME NEW x
      PROVE  /\ Counts(a \o c, x) \in Nat /\ Counts(b \o d, x) \in Nat
             /\ Counts(a \o c, x) <= Counts(b \o d, x)
             /\ x.kind \notin SuppressedKinds => Counts(a \o c, x) = Counts(b \o d, x)
  <2>1. /\ Counts(a, x) \in Nat /\ Counts(b, x) \in Nat /\ Counts(a, x) <= Counts(b, x)
        /\ x.kind \notin SuppressedKinds => Counts(a, x) = Counts(b, x)
    BY DEF Fewer
  <2>2. /\ Counts(c, x) \in Nat /\ Counts(d, x) \in Nat /\ Counts(c, x) <= Counts(d, x)
        /\ x.kind \notin SuppressedKinds => Counts(c, x) = Counts(d, x)
    BY DEF Fewer
  <2> QED
    BY <1>3, <2>1, <2>2
<1> QED
  BY <1>2, <1>4 DEF Fewer

(* The order of a plan keeps that.                                         *)
LEMMA FewerSorted ==
    ASSUME NEW a, NEW b, Fewer(a, b)
    PROVE  Fewer(SortDiffOps(a), SortDiffOps(b))
<1>1. a \in Seq(EntriesOf(a)) /\ b \in Seq(EntriesOf(b)) /\ IsList(a) /\ IsList(b)
  BY ListIsSeq DEF Fewer
<1>2. IsList(SortDiffOps(a)) /\ IsList(SortDiffOps(b))
  BY <1>1, SortedList
<1>3. ASSUME NEW x
      PROVE  /\ Counts(SortDiffOps(a), x) = IF x.kind \in AllKinds THEN Counts(a, x) ELSE 0
             /\ Counts(SortDiffOps(b), x) = IF x.kind \in AllKinds THEN Counts(b, x) ELSE 0
  BY <1>1, SortRearranges
<1> QED
  BY <1>2, <1>3 DEF Fewer

(* So does flattening lists of plans.                                      *)
LEMMA FewerFlattened ==
    ASSUME NEW n \in Nat, NEW q, NEW r, q = [k \in 1..n |-> q[k]], r = [k \in 1..n |-> r[k]],
           \A k \in 1..n : Fewer(q[k], r[k])
    PROVE  Fewer(SE!FlattenSeq(q), SE!FlattenSeq(r))
<1> DEFINE Q == UNION {EntriesOf(q[k]) \cup EntriesOf(r[k]) : k \in 1..n}
           S == Seq(Q)
<1>1. ASSUME NEW k \in 1..n PROVE q[k] \in S /\ r[k] \in S
  <2>1. q[k] \in Seq(EntriesOf(q[k])) /\ EntriesOf(q[k]) \subseteq Q
    BY ListIsSeq DEF Fewer
  <2>2. r[k] \in Seq(EntriesOf(r[k])) /\ EntriesOf(r[k]) \subseteq Q
    BY ListIsSeq DEF Fewer
  <2> HIDE DEF Q
  <2> QED
    BY <2>1, <2>2
<1>2. <<>> \in S /\ (\A s \in S : <<>> \o s = s) /\ \A s, t \in S : s \o t \in S
  <2> HIDE DEF Q
  <2> QED
    OBVIOUS
<1> HIDE DEF S
<1>3. PICK g \in [0..n -> S] : FlattensBy(q, n, g)
  <2>1. q \in [1..n -> S]
    BY <1>1
  <2> QED
    BY <1>2, <2>1, FlattenedInTurn
<1>4. PICK h \in [0..n -> S] : FlattensBy(r, n, h)
  <2>1. r \in [1..n -> S]
    BY <1>1
  <2> QED
    BY <1>2, <2>1, FlattenedInTurn
<1> DEFINE T == {k \in Nat : k <= n => Fewer(g[k], h[k])}
<1>5. 0 \in T
  <2>1. g[0] = <<>> /\ h[0] = <<>>
    BY <1>3, <1>4 DEF FlattensBy
  <2> QED
    BY <2>1, ShortLists, FewerItself
<1>6. ASSUME NEW k \in Nat, k \in T PROVE k + 1 \in T
  <2>1. CASE k + 1 <= n
    <3>1. k + 1 \in 1..n /\ (k + 1) - 1 = k /\ Fewer(g[k], h[k])
      BY <1>6, <2>1
    <3>2. g[k + 1] = g[k] \o q[k + 1] /\ h[k + 1] = h[k] \o r[k + 1]
      BY <1>3, <1>4, <3>1 DEF FlattensBy
    <3>3. Fewer(g[k], h[k]) /\ Fewer(q[k + 1], r[k + 1])
      BY <3>1
    <3>4. Fewer(g[k + 1], h[k + 1])
      BY <3>2, <3>3, FewerConcatenated
    <3> QED
      BY <3>4
  <2>2. CASE ~(k + 1 <= n)
    BY <2>2
  <2> QED
    BY <2>1, <2>2
<1>7. n \in T
  <2> HIDE DEF T
  <2> QED
    BY <1>5, <1>6, NatSetInduction
<1> QED
  BY <1>3, <1>4, <1>7 DEF FlattensBy

(* A list without one of its entries.                                      *)
LEMMA CountsWithout ==
    ASSUME NEW s, IsList(s), NEW i \in DOMAIN s, NEW x
    PROVE  LET t == SubSeq(s, 1, i - 1) \o SubSeq(s, i + 1, Len(s))
           IN /\ IsList(t) /\ EntriesOf(t) \subseteq EntriesOf(s)
              /\ Counts(s, x) = Counts(t, x) + IF s[i] = x THEN 1 ELSE 0
<1> DEFINE S == EntriesOf(s)
           a == SubSeq(s, 1, i - 1)
           b == SubSeq(s, i + 1, Len(s))
<1>1. s \in Seq(S) /\ DOMAIN s = 1..Len(s) /\ Len(s) \in Nat /\ i \in 1..Len(s) /\ s[i] \in S
  BY ListIsSeq
<1>2. s = (a \o <<s[i]>>) \o b /\ a \in Seq(S) /\ b \in Seq(S)
  <2> DEFINE n == Len(s)
             c == <<s[i]>>
  <2>1. n \in Nat /\ i \in 1..n /\ i - 1 \in 0..n /\ n - i \in Nat
    BY <1>1
  <2> HIDE DEF S, n
  <2>2. /\ a \in Seq(S) /\ Len(a) = i - 1 /\ \A k \in 1..(i - 1) : a[k] = s[k]
        /\ b \in Seq(S) /\ Len(b) = n - i /\ \A k \in 1..(n - i) : b[k] = s[i + k]
    BY <1>1, <2>1 DEF n
  <2>3. c \in Seq(S) /\ Len(c) = 1 /\ c[1] = s[i]
    BY <1>1
  <2> HIDE DEF a, b, c
  <2>4. /\ a \o c \in Seq(S) /\ Len(a \o c) = i
        /\ \A k \in 1..i : (a \o c)[k] = s[k]
    <3>1. /\ a \o c \in Seq(S) /\ Len(a \o c) = (i - 1) + 1
          /\ \A k \in 1..((i - 1) + 1) : (a \o c)[k] = IF k <= i - 1 THEN a[k] ELSE c[k - (i - 1)]
      <4>1. /\ a \o c \in Seq(S) /\ Len(a \o c) = Len(a) + Len(c)
            /\ \A k \in 1..(Len(a) + Len(c)) :
                    (a \o c)[k] = IF k <= Len(a) THEN a[k] ELSE c[k - Len(a)]
        BY <2>2, <2>3, ConcatProperties
      <4>2. Len(a) = i - 1 /\ Len(c) = 1
        BY <2>2, <2>3
      <4> QED
        BY ONLY <4>1, <4>2
    <3>2. ASSUME NEW k \in 1..i PROVE k \in 1..(i - 1) \/ (k = i /\ k - (i - 1) = 1 /\ ~(k <= i - 1))
      BY <2>1
    <3>3. (i - 1) + 1 = i
      BY <2>1
    <3>4. ASSUME NEW k \in 1..i PROVE (a \o c)[k] = s[k]
      <4>1. (a \o c)[k] = IF k <= i - 1 THEN a[k] ELSE c[k - (i - 1)]
        BY <3>1, <3>3
      <4>2. k \in 1..(i - 1) => k <= i - 1
        BY <2>1
      <4> QED
        BY <2>2, <2>3, <3>2, <4>1, <4>2
    <3> QED
      BY <3>1, <3>3, <3>4
  <2>5. /\ (a \o c) \o b \in Seq(S) /\ Len((a \o c) \o b) = n
        /\ \A k \in 1..n : ((a \o c) \o b)[k] = s[k]
    <3> DEFINE d == a \o c
    <3> HIDE DEF d
    <3>1. d \in Seq(S) /\ Len(d) = i /\ \A k \in 1..i : d[k] = s[k]
      BY <2>4 DEF d
    <3>2. /\ d \o b \in Seq(S) /\ Len(d \o b) = i + (n - i)
          /\ \A k \in 1..(i + (n - i)) : (d \o b)[k] = IF k <= i THEN d[k] ELSE b[k - i]
      <4>1. /\ d \o b \in Seq(S) /\ Len(d \o b) = Len(d) + Len(b)
            /\ \A k \in 1..(Len(d) + Len(b)) :
                    (d \o b)[k] = IF k <= Len(d) THEN d[k] ELSE b[k - Len(d)]
        BY <2>2, <3>1, ConcatProperties
      <4>2. Len(d) = i /\ Len(b) = n - i
        BY <2>2, <3>1
      <4> QED
        BY ONLY <4>1, <4>2
    <3>3. i + (n - i) = n
      BY <2>1
    <3>4. ASSUME NEW k \in 1..n PROVE (d \o b)[k] = s[k]
      <4>1. CASE k <= i
        <5>1. k \in 1..i
          BY <2>1, <4>1
        <5> QED
          BY <3>1, <3>2, <3>3, <4>1, <5>1
      <4>2. CASE ~(k <= i)
        <5>1. k - i \in 1..(n - i) /\ i + (k - i) = k
          BY <2>1, <4>2
        <5> QED
          BY <2>2, <3>2, <3>3, <4>2, <5>1
      <4> QED
        BY <4>1, <4>2
    <3> QED
      BY <3>2, <3>3, <3>4 DEF d
  <2>6. Len(s) = n
    BY DEF n
  <2>7. (a \o c) \o b = s
    BY <1>1, <2>5, <2>6, SeqEqual
  <2> QED
    BY <2>2, <2>7 DEF c
<1>3. IsList(a) /\ IsList(b) /\ IsList(<<s[i]>>)
  BY <1>2, SeqIsList, ShortLists
<1>4. IsList(a \o b) /\ IsList(a \o <<s[i]>>)
  BY <1>3, ConcatenatedList
<1>5. EntriesOf(a \o b) \subseteq S
  <2>1. EntriesOf(a) \subseteq S /\ EntriesOf(b) \subseteq S
    BY <1>2, SeqIsList
  <2> QED
    BY <1>3, <2>1, ConcatenatedList
<1> HIDE DEF a, b, S
<1> DEFINE c == <<s[i]>>
<1> HIDE DEF c
<1>6. /\ Counts(s, x) = Counts(a \o c, x) + Counts(b, x)
      /\ Counts(a \o c, x) = Counts(a, x) + Counts(c, x)
      /\ Counts(a \o b, x) = Counts(a, x) + Counts(b, x)
  <2>1. IsList(c) /\ IsList(a \o c) /\ s = (a \o c) \o b
    BY <1>2, <1>3, <1>4 DEF c
  <2>2. Counts((a \o c) \o b, x) = Counts(a \o c, x) + Counts(b, x)
    BY <1>3, <2>1, CountsAdd
  <2>3. /\ Counts(a \o c, x) = Counts(a, x) + Counts(c, x)
        /\ Counts(a \o b, x) = Counts(a, x) + Counts(b, x)
    BY <1>3, <2>1, CountsAdd
  <2> QED
    BY ONLY <2>1, <2>2, <2>3
<1>7. Counts(c, x) = IF s[i] = x THEN 1 ELSE 0
  BY CountsOfShort DEF c
<1>8. Counts(a, x) \in Nat /\ Counts(b, x) \in Nat
  BY <1>3, CountsInList
<1> QED
  BY <1>4, <1>5, <1>6, <1>7, <1>8 DEF a, b, S

(* A list without the first entry equal to e.                              *)
LEMMA RemovedFirst ==
    ASSUME NEW s, IsList(s), NEW e \in EntriesOf(s), NEW x
    PROVE  /\ IsList(SE!RemoveFirst(s, e)) /\ EntriesOf(SE!RemoveFirst(s, e)) \subseteq EntriesOf(s)
           /\ Counts(s, x) = Counts(SE!RemoveFirst(s, e), x) + IF e = x THEN 1 ELSE 0
<1> DEFINE at == {i \in 1..Len(s) : s[i] = e}
           m == SE!Min(at)
<1>1. DOMAIN s = 1..Len(s) /\ Len(s) \in Nat
  BY ListIsSeq
<1>2. at # {} /\ \E i \in 1..Len(s) : s[i] = e
  BY <1>1 DEF EntriesOf
<1>3. m \in at
  <2>1. at \subseteq Nat
    BY <1>1
  <2>2. PICK k \in at : \A j \in at : k <= j
    <3> HIDE DEF at
    <3> QED
      BY <1>2, <2>1, SmallestIsLeast
  <2> HIDE DEF at
  <2> QED
    BY <2>2 DEF SE!Min
<1>4. SE!SelectInSeq(s, LAMBDA v : v = e) = m
  BY <1>2 DEF SE!SelectInSeq
<1>5. SE!RemoveFirst(s, e) = SubSeq(s, 1, m - 1) \o SubSeq(s, m + 1, Len(s))
  BY <1>2, <1>4 DEF SE!RemoveFirst, SE!RemoveAt
<1>6. m \in DOMAIN s /\ s[m] = e
  BY <1>1, <1>3
<1> HIDE DEF m
<1> QED
  BY <1>5, <1>6, CountsWithout

(* from_enable_drop, one operation of the plan with enable_drop at a time. *)
Visited(acc, op) ==
    IF op.kind \notin SuppressedKinds THEN acc
    ELSE IF SE!Contains(acc.emitted, op)
    THEN [acc EXCEPT !.emitted = SE!RemoveFirst(@, op)]
    ELSE [acc EXCEPT !.skipped = Append(@, op)]

(* What is left of the emitted operations and what is skipped account for  *)
(* the operations visited; what is skipped had no emitted one left.        *)
Accounted(acc, visited, emitted) ==
    /\ IsList(acc.emitted) /\ IsList(acc.skipped)
    /\ acc = [emitted |-> acc.emitted, skipped |-> acc.skipped]
    /\ \A x : x.kind \notin SuppressedKinds => Counts(acc.skipped, x) = 0
    /\ \A x : x.kind \in SuppressedKinds =>
            /\ Counts(acc.emitted, x) + Counts(visited, x) = Counts(emitted, x) + Counts(acc.skipped, x)
            /\ Counts(acc.skipped, x) = 0 \/ Counts(acc.emitted, x) = 0

(* A list with one more entry.                                             *)
LEMMA AppendedList ==
    ASSUME NEW s, IsList(s), NEW y
    PROVE  /\ IsList(Append(s, y)) /\ EntriesOf(Append(s, y)) \subseteq EntriesOf(s) \cup {y}
           /\ \A x : Counts(Append(s, y), x) = Counts(s, x) + IF y = x THEN 1 ELSE 0
<1> DEFINE c == <<y>>
<1>1. IsList(c) /\ EntriesOf(c) = {y} /\ \A x : Counts(c, x) = IF y = x THEN 1 ELSE 0
  BY ShortLists, CountsOfShort
<1>2. Append(s, y) = s \o c
  <2> DEFINE S == EntriesOf(s) \cup {y}
  <2>1. s \in Seq(EntriesOf(s))
    BY ListIsSeq
  <2>2. s \in Seq(S) /\ y \in S
    BY <2>1
  <2> HIDE DEF S
  <2> QED
    BY <2>2, AppendIsConcat
<1> HIDE DEF c
<1>3. IsList(s \o c) /\ EntriesOf(s \o c) \subseteq EntriesOf(s) \cup {y}
  BY <1>1, ConcatenatedList
<1>4. \A x : Counts(s \o c, x) = Counts(s, x) + Counts(c, x)
  BY <1>1, CountsAdd
<1> QED
  BY <1>1, <1>2, <1>3, <1>4

(* Visiting one more operation keeps the account.                          *)
LEMMA VisitAccounts ==
    ASSUME NEW acc, NEW visited, NEW emitted, IsList(visited), IsList(emitted),
           Accounted(acc, visited, emitted), NEW op
    PROVE  Accounted(Visited(acc, op), Append(visited, op), emitted)
<1> DEFINE e == acc.emitted
           s == acc.skipped
           w == Append(visited, op)
<1>1. /\ IsList(e) /\ IsList(s) /\ acc = [emitted |-> e, skipped |-> s]
      /\ \A x : x.kind \notin SuppressedKinds => Counts(s, x) = 0
      /\ \A x : x.kind \in SuppressedKinds =>
            /\ Counts(e, x) + Counts(visited, x) = Counts(emitted, x) + Counts(s, x)
            /\ Counts(s, x) = 0 \/ Counts(e, x) = 0
  BY DEF Accounted
<1>2. \A x : Counts(w, x) = Counts(visited, x) + IF op = x THEN 1 ELSE 0
  BY AppendedList
<1>3. \A x : /\ Counts(e, x) \in Nat /\ Counts(s, x) \in Nat
             /\ Counts(visited, x) \in Nat /\ Counts(emitted, x) \in Nat
  BY <1>1, CountsInList
<1> HIDE DEF w
<1>4. CASE op.kind \notin SuppressedKinds
  <2>1. \A x : x.kind \in SuppressedKinds => Counts(w, x) = Counts(visited, x)
    BY <1>2, <1>3, <1>4
  <2>2. Visited(acc, op) = acc
    BY <1>4 DEF Visited
  <2> QED
    BY <1>1, <2>1, <2>2 DEF Accounted, w
<1>5. CASE op.kind \in SuppressedKinds /\ SE!Contains(e, op)
  <2> DEFINE r == SE!RemoveFirst(e, op)
  <2>1. op \in EntriesOf(e)
    BY <1>1, <1>5, ListIsSeq DEF SE!Contains, EntriesOf
  <2>2. IsList(r) /\ \A x : Counts(e, x) = Counts(r, x) + IF op = x THEN 1 ELSE 0
    BY <1>1, <2>1, RemovedFirst
  <2>3. \A x : Counts(r, x) \in Nat
    BY <2>2, CountsInList
  <2>4. Visited(acc, op) = [emitted |-> r, skipped |-> s]
    BY <1>1, <1>5 DEF Visited
  <2> HIDE DEF r, e, s
  <2>5. ASSUME NEW x, x.kind \in SuppressedKinds
        PROVE  /\ Counts(r, x) + Counts(w, x) = Counts(emitted, x) + Counts(s, x)
               /\ Counts(s, x) = 0 \/ Counts(r, x) = 0
    <3>1. /\ Counts(e, x) + Counts(visited, x) = Counts(emitted, x) + Counts(s, x)
          /\ Counts(s, x) = 0 \/ Counts(e, x) = 0
      BY <1>1, <2>5
    <3> QED
      BY <1>2, <1>3, <2>2, <2>3, <3>1
  <2> DEFINE v == Visited(acc, op)
  <2>6. v.emitted = r /\ v.skipped = s
    BY <2>4
  <2> QED
    BY <1>1, <2>2, <2>4, <2>5, <2>6 DEF Accounted, w
<1>6. CASE op.kind \in SuppressedKinds /\ ~SE!Contains(e, op)
  <2> DEFINE t == Append(s, op)
  <2>1. IsList(t) /\ \A x : Counts(t, x) = Counts(s, x) + IF op = x THEN 1 ELSE 0
    BY <1>1, AppendedList
  <2>2. Counts(e, op) = 0
    <3>1. op \notin EntriesOf(e)
      BY <1>1, <1>6, ListIsSeq DEF SE!Contains, EntriesOf
    <3> QED
      BY <1>1, <3>1, CountsInList
  <2>3. Visited(acc, op) = [emitted |-> e, skipped |-> t]
    BY <1>1, <1>6 DEF Visited
  <2> HIDE DEF t, e, s
  <2>4. ASSUME NEW x, x.kind \in SuppressedKinds
        PROVE  /\ Counts(e, x) + Counts(w, x) = Counts(emitted, x) + Counts(t, x)
               /\ Counts(t, x) = 0 \/ Counts(e, x) = 0
    <3>1. /\ Counts(e, x) + Counts(visited, x) = Counts(emitted, x) + Counts(s, x)
          /\ Counts(s, x) = 0 \/ Counts(e, x) = 0
      BY <1>1, <2>4
    <3> QED
      BY <1>2, <1>3, <2>1, <2>2, <3>1
  <2>5. ASSUME NEW x, x.kind \notin SuppressedKinds PROVE Counts(t, x) = 0
    BY <1>1, <1>6, <2>1, <2>5
  <2> DEFINE v == Visited(acc, op)
  <2>6. v.emitted = e /\ v.skipped = t
    BY <2>3
  <2> QED
    BY <1>1, <2>1, <2>3, <2>4, <2>5, <2>6 DEF Accounted, w
<1> QED
  BY <1>4, <1>5, <1>6

(* The value of the recursion in Skipped.                                  *)
Visiting(f, full, emitted) ==
    f = [i \in 0..Len(full) |-> IF i = 0 THEN [emitted |-> emitted, skipped |-> <<>>]
                                ELSE Visited(f[i - 1], full[i])]

(* The recursion has a value, and Skipped reads its last one.              *)
LEMMA VisitsExist ==
    ASSUME NEW full, NEW emitted, IsList(full), IsList(emitted)
    PROVE  /\ Visiting(CHOOSE f : Visiting(f, full, emitted), full, emitted)
           /\ Skipped(full, emitted) = (CHOOSE f : Visiting(f, full, emitted))[Len(full)].skipped
<1> DEFINE n == Len(full)
           E == EntriesOf(full) \cup EntriesOf(emitted)
           Q == Seq(E)
           S == [emitted : Q, skipped : Q]
           none == [emitted |-> emitted, skipped |-> <<>>]
           G == [i \in 1..n |-> [acc \in S |-> Visited(acc, full[i])]]
<1>1. n \in Nat /\ DOMAIN full = 1..n /\ \A i \in 1..n : full[i] \in E
  BY ListIsSeq
<1>2. \A s : s \in Q <=> IsList(s) /\ EntriesOf(s) \subseteq E
  <2>1. ASSUME NEW s \in Q PROVE IsList(s) /\ EntriesOf(s) \subseteq E
    <3> HIDE DEF E
    <3> QED
      BY SeqIsList
  <2>2. ASSUME NEW s, IsList(s), EntriesOf(s) \subseteq E PROVE s \in Q
    <3>1. s \in Seq(EntriesOf(s))
      BY <2>2, ListIsSeq
    <3> HIDE DEF E
    <3> QED
      BY <2>2, <3>1
  <2> QED
    BY <2>1, <2>2
<1>3. \A u, v \in Q : [emitted |-> u, skipped |-> v] \in S
  <2> HIDE DEF Q
  <2> QED
    OBVIOUS
<1>4. none \in S
  <2>1. emitted \in Q /\ <<>> \in Q
    BY <1>2, ShortLists
  <2> HIDE DEF Q, S
  <2> QED
    BY <1>3, <2>1
<1>5. ASSUME NEW acc \in S, NEW op \in E PROVE Visited(acc, op) \in S
  <2>1. acc.emitted \in Q /\ acc.skipped \in Q
        /\ acc = [emitted |-> acc.emitted, skipped |-> acc.skipped]
    <3> HIDE DEF Q
    <3> QED
      OBVIOUS
  <2>2. SE!Contains(acc.emitted, op) => SE!RemoveFirst(acc.emitted, op) \in Q
    <3> HIDE DEF Q, E
    <3> SUFFICES ASSUME SE!Contains(acc.emitted, op) PROVE SE!RemoveFirst(acc.emitted, op) \in Q
      OBVIOUS
    <3>1. IsList(acc.emitted) /\ EntriesOf(acc.emitted) \subseteq E
      BY <1>2, <2>1
    <3>2. op \in EntriesOf(acc.emitted)
      BY <3>1, ListIsSeq DEF SE!Contains, EntriesOf
    <3>3. IsList(SE!RemoveFirst(acc.emitted, op))
          /\ EntriesOf(SE!RemoveFirst(acc.emitted, op)) \subseteq EntriesOf(acc.emitted)
      BY <3>1, <3>2, RemovedFirst
    <3> QED
      BY <1>2, <3>1, <3>3
  <2>3. Append(acc.skipped, op) \in Q
    <3> HIDE DEF E
    <3> QED
      BY <2>1
  <2> HIDE DEF Q, S
  <2>4. Visited(acc, op) \in {acc,
            [emitted |-> SE!RemoveFirst(acc.emitted, op), skipped |-> acc.skipped],
            [emitted |-> acc.emitted, skipped |-> Append(acc.skipped, op)]}
    BY <2>1 DEF Visited
  <2>5. CASE ~SE!Contains(acc.emitted, op)
    <3>1. Visited(acc, op) \in {acc,
            [emitted |-> acc.emitted, skipped |-> Append(acc.skipped, op)]}
      BY <2>1, <2>5 DEF Visited
    <3> QED
      BY <1>3, <2>1, <2>3, <3>1
  <2>6. CASE SE!Contains(acc.emitted, op)
    BY <1>3, <2>1, <2>2, <2>3, <2>4, <2>6
  <2> QED
    BY <2>5, <2>6
<1> HIDE DEF S, E
<1>6. PICK g \in [0..n -> S] : Recurs(g, none, n, G)
  <2>1. G \in [1..n -> [S -> S]]
    BY <1>1, <1>5
  <2> HIDE DEF G, none
  <2> QED
    BY <1>1, <1>4, <2>1, RecursionSolved
<1>7. Visiting(g, full, emitted)
  <2>1. ASSUME NEW i \in 0..n, i # 0 PROVE g[i] = Visited(g[i - 1], full[i])
    <3>1. i \in 1..n /\ g[i - 1] \in S
      BY <1>1, <2>1
    <3>2. g[i] = G[i][g[i - 1]]
      BY <1>6, <3>1 DEF Recurs
    <3> QED
      BY <3>1, <3>2
  <2>2. g[0] = none /\ g = [i \in 0..n |-> g[i]]
    BY <1>6 DEF Recurs
  <2> HIDE DEF G
  <2> QED
    BY <2>1, <2>2 DEF Visiting
<1>8. Visiting(CHOOSE f : Visiting(f, full, emitted), full, emitted)
  BY <1>7
<1>9. Skipped(full, emitted) = (CHOOSE f : Visiting(f, full, emitted))[Len(full)].skipped
  BY DEF Skipped, Visiting, Visited
<1> QED
  BY <1>8, <1>9

(* Whatever the shorter plan leaves out is skipped, as often as it is left *)
(* out, and nothing else is.                                               *)
THEOREM SkippedAccounts ==
    ASSUME NEW emitted, NEW full, Fewer(emitted, full)
    PROVE  AccountFor(full, emitted, Skipped(full, emitted))
<1> DEFINE n == Len(full)
           after == CHOOSE f : Visiting(f, full, emitted)
           Upto(k) == SubSeq(full, 1, k)
           T == {k \in Nat : k <= n => Accounted(after[k], Upto(k), emitted) /\ IsList(Upto(k))}
<1>1. IsList(full) /\ IsList(emitted)
  BY DEF Fewer
<1>2. n \in Nat /\ full \in Seq(EntriesOf(full)) /\ DOMAIN full = 1..n
  BY <1>1, ListIsSeq
<1>3. Visiting(after, full, emitted) /\ Skipped(full, emitted) = after[n].skipped
  BY <1>1, VisitsExist
<1> HIDE DEF after
<1>4. /\ after[0] = [emitted |-> emitted, skipped |-> <<>>]
      /\ \A k \in 1..n : after[k] = Visited(after[k - 1], full[k])
  BY <1>2, <1>3 DEF Visiting
<1>5. 0 \in T
  <2>1. Upto(0) = <<>>
    BY <1>2
  <2>2. \A x : Counts(<<>>, x) = 0 /\ Counts(emitted, x) \in Nat
    BY <1>1, CountsOfShort, CountsInList
  <2>3. Accounted([emitted |-> emitted, skipped |-> <<>>], <<>>, emitted)
    BY <1>1, <2>2, ShortLists DEF Accounted
  <2> QED
    BY <1>4, <2>1, <2>3, ShortLists
<1>6. ASSUME NEW k \in Nat, k \in T PROVE k + 1 \in T
  <2>1. CASE k + 1 <= n
    <3>1. k + 1 \in 1..n /\ (k + 1) - 1 = k /\ k <= n
      BY <2>1
    <3>2. Accounted(after[k], Upto(k), emitted) /\ IsList(Upto(k))
      BY <1>6, <3>1
    <3>3. Upto(k + 1) = Append(Upto(k), full[k + 1])
      <4> DEFINE E == EntriesOf(full)
      <4>1. full \in Seq(E)
        BY <1>2
      <4> HIDE DEF E
      <4> QED
        BY <1>2, <3>1, <4>1
    <3> HIDE DEF Upto
    <3>4. after[k + 1] = Visited(after[k], full[k + 1])
      BY <1>4, <3>1
    <3>5. Accounted(after[k + 1], Upto(k + 1), emitted)
      BY <1>1, <3>2, <3>3, <3>4, VisitAccounts
    <3>6. IsList(Upto(k + 1))
      <4>1. IsList(Append(Upto(k), full[k + 1]))
        BY <3>2, AppendedList
      <4> QED
        BY <3>3, <4>1
    <3> QED
      BY <3>5, <3>6
  <2>2. CASE ~(k + 1 <= n)
    BY <2>2
  <2> QED
    BY <2>1, <2>2
<1>7. Accounted(after[n], full, emitted)
  <2>1. n \in T
    <3> HIDE DEF T
    <3> QED
      BY <1>2, <1>5, <1>6, NatSetInduction
  <2>2. Upto(n) = full
    <3> DEFINE E == EntriesOf(full)
    <3>1. full \in Seq(E)
      BY <1>2
    <3> HIDE DEF E
    <3> QED
      BY <3>1
  <2>3. Accounted(after[n], Upto(n), emitted)
    BY <1>2, <2>1
  <2> HIDE DEF Upto
  <2> QED
    BY ONLY <2>2, <2>3
<1> DEFINE e == after[n].emitted
           s == after[n].skipped
<1>8. ASSUME NEW x PROVE Counts(full, x) = Counts(emitted, x) + Counts(s, x)
  <2>1. /\ Counts(e, x) \in Nat /\ Counts(s, x) \in Nat
        /\ Counts(full, x) \in Nat /\ Counts(emitted, x) \in Nat
    <3>1. IsList(e) /\ IsList(s)
      BY <1>7 DEF Accounted
    <3> QED
      BY <1>1, <3>1, CountsInList
  <2>2. /\ x.kind \notin SuppressedKinds => Counts(s, x) = 0
        /\ x.kind \in SuppressedKinds =>
              /\ Counts(e, x) + Counts(full, x) = Counts(emitted, x) + Counts(s, x)
              /\ Counts(s, x) = 0 \/ Counts(e, x) = 0
    BY <1>7 DEF Accounted
  <2>3. /\ Counts(emitted, x) <= Counts(full, x)
        /\ x.kind \notin SuppressedKinds => Counts(emitted, x) = Counts(full, x)
    BY DEF Fewer
  <2> HIDE DEF e, s
  <2> QED
    BY <2>1, <2>2, <2>3
<1> QED
  BY <1>3, <1>8 DEF AccountFor

(* A plan with or without what enable_drop adds at its end.                *)
LEMMA FewerWithoutEnd ==
    ASSUME NEW s, IsList(s), NEW t, Only(SuppressedKinds, t)
    PROVE  Fewer(s \o <<>>, s \o t)
BY FewerItself, FewerNone, FewerConcatenated

(* The entries of a part of a list.                                        *)
LEMMA PickedEntries ==
    ASSUME NEW s, IsList(s), NEW at, at \subseteq DOMAIN s
    PROVE  EntriesOf(Picked(s, at)) = {s[i] : i \in at}
<1>1. s \in Seq(EntriesOf(s)) /\ DOMAIN s = 1..Len(s) /\ Len(s) \in Nat
  BY ListIsSeq
<1>2. \A x : Counts(Picked(s, at), x) = Cardinality({i \in at : s[i] = x})
  BY <1>1, PickedCounts
<1>3. IsFiniteSet(at)
  <2>1. IsFiniteSet(DOMAIN s)
    BY <1>1, FS_Interval
  <2> QED
    BY <2>1, FS_Subset
<1>4. ASSUME NEW x PROVE x \in EntriesOf(Picked(s, at)) <=> \E i \in at : s[i] = x
  <2> DEFINE X == {i \in at : s[i] = x}
  <2>1. IsFiniteSet(X)
    BY <1>3, FS_Subset
  <2>2. Counts(Picked(s, at), x) = Cardinality(X)
    BY <1>2
  <2>3. X # {} <=> \E i \in at : s[i] = x
    OBVIOUS
  <2> HIDE DEF X
  <2>4. Cardinality(X) # 0 <=> X # {}
    BY <2>1, FS_EmptySet
  <2>5. x \in EntriesOf(Picked(s, at)) <=> Counts(Picked(s, at), x) # 0
    BY PickedList, CountsInList
  <2> QED
    BY <2>2, <2>3, <2>4, <2>5
<1> QED
  BY <1>4
===============================================================================
