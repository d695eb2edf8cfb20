---------------------------- MODULE KahnSortProofs ----------------------------
(***************************************************************************)
(* Theorems about KahnSort, for any number of entries and any family of    *)
(* dependency graphs.  The counters are tied to the sets they count by     *)
(* IInv; everything else follows from it.                                  *)
(***************************************************************************)
EXTENDS KahnSort, DataLemmas

(* What a counter counts is finite, and zero exactly when nothing is left. *)
LEMMA Counters ==
    ASSUME NEW d \in Graph, NEW i \in Entry, NEW S
    PROVE  /\ IsFiniteSet(d[i] \ S)
           /\ Cardinality(d[i] \ S) \in Nat
           /\ Cardinality(d[i] \ S) = 0 <=> d[i] \subseteq S
<1>1. IsFiniteSet(Entry)
  BY NAssumption, FS_Interval DEF Entry
<1>2. d[i] \ S \in SUBSET Entry
  BY DEF Graph
<1>3. IsFiniteSet(d[i] \ S)
  BY <1>1, <1>2, FS_Subset
<1>4. Cardinality(d[i] \ S) = 0 <=> d[i] \ S = {}
  BY <1>3, FS_EmptySet
<1> QED
  BY <1>3, <1>4, FS_CardinalityType

(* What a concatenation holds, position by position.                       *)
LEMMA Concatenation ==
    ASSUME NEW S, NEW s \in Seq(S), NEW t \in Seq(S)
    PROVE  /\ s \o t \in Seq(S)
           /\ Len(s \o t) = Len(s) + Len(t)
           /\ \A q \in 1..Len(s) : (s \o t)[q] = s[q]
           /\ \A q \in 1..Len(t) : (s \o t)[Len(s) + q] = t[q]
OBVIOUS

(* No entry is emitted at first.                                           *)
LEMMA InitIInv == Init => IInv
<1> SUFFICES ASSUME Init PROVE IInv
  OBVIOUS
<1> USE DEF Init
<1>1. deps \in Graph /\ deps \in Inputs
  BY InputsAssumption
<1>2. \A i \in Entry : deps[i] \ {} = deps[i]
  OBVIOUS
<1>3. \A i \in Entry : /\ Cardinality(deps[i]) \in Nat
                       /\ Cardinality(deps[i]) = 0 <=> deps[i] \subseteq {}
  <2> SUFFICES ASSUME NEW i \in Entry
               PROVE  /\ Cardinality(deps[i]) \in Nat
                      /\ Cardinality(deps[i]) = 0 <=> deps[i] \subseteq {}
    OBVIOUS
  <2>1. /\ Cardinality(deps[i] \ {}) \in Nat
        /\ Cardinality(deps[i] \ {}) = 0 <=> deps[i] \subseteq {}
    BY <1>1, Counters
  <2> QED
    BY <1>2, <2>1
<1>4. TypeOK
  BY <1>1, <1>3 DEF TypeOK
<1>5. ready = {i \in Entry \ visited : deps[i] \subseteq visited}
  BY <1>3
<1>6. \A i \in Entry : remaining[i] = Cardinality(deps[i] \ visited)
  BY <1>2
<1>7. Len(ordered) = 0 /\ \A q : q \notin 1..placed
  OBVIOUS
<1>8. visited = {ordered[q] : q \in 1..placed}
  BY <1>7
<1>9. DependenciesFirst /\ EveryEntryOnce
  BY <1>7 DEF DependenciesFirst, EveryEntryOnce
<1>10. /\ \A i \in visited : deps[i] \subseteq visited
       /\ placed <= Len(ordered) /\ placed = Len(ordered) /\ pc = "loop"
       /\ \A q, r \in 1..placed : ordered[q] = ordered[r] => q = r
  BY <1>7
<1> QED
  BY ONLY <1>4, <1>5, <1>6, <1>8, <1>9, <1>10 DEF IInv

(* The heart of the sort: emitting entry i keeps counters and sets in step.*)
LEMMA EmitKeepsCounters ==
    ASSUME IInv, NEW i \in Entry, IsFirst(i), Emit(i), deps' = deps
    PROVE  /\ \A j \in Entry : remaining'[j] = Cardinality(deps[j] \ visited')
           /\ ready' = {j \in Entry \ visited' : deps[j] \subseteq visited'}
<1>1. deps \in Graph /\ remaining \in [Entry -> Nat]
  BY InputsAssumption DEF IInv, TypeOK
<1>2. i \in ready /\ i \notin visited /\ deps[i] \subseteq visited
  BY DEF IInv, IsFirst
<1>3. visited' = visited \cup {i}
  BY DEF Emit
<1>4. ASSUME NEW j \in Entry, j \in Dependents(i)
      PROVE  /\ remaining[j] # 0
             /\ Cardinality(deps[j] \ visited') = remaining[j] - 1
  <2>1. i \in deps[j] \ visited
    BY <1>2, <1>4 DEF Dependents
  <2>2. deps[j] \ visited' = (deps[j] \ visited) \ {i}
    BY <1>3
  <2>3. Cardinality(deps[j] \ visited') = Cardinality(deps[j] \ visited) - 1
    <3>1. IsFiniteSet(deps[j] \ visited)
      BY <1>1, Counters
    <3> QED
      BY <2>1, <2>2, <3>1, FS_RemoveElement
  <2>4. Cardinality(deps[j] \ visited) # 0
    BY <1>1, <2>1, Counters
  <2> QED
    BY <2>3, <2>4 DEF IInv
<1>5. ASSUME NEW j \in Entry, j \notin Dependents(i)
      PROVE  deps[j] \ visited' = deps[j] \ visited
  BY <1>3, <1>5 DEF Dependents
<1>6. \A j \in Entry : remaining'[j] = Cardinality(deps[j] \ visited')
  <2> SUFFICES ASSUME NEW j \in Entry
               PROVE  remaining'[j] = Cardinality(deps[j] \ visited')
    OBVIOUS
  <2>1. CASE j \in Dependents(i)
    BY <1>4, <2>1 DEF Emit, Decremented
  <2>2. CASE j \notin Dependents(i)
    <3>1. remaining'[j] = remaining[j]
      BY <2>2 DEF Emit, Decremented
    <3>2. remaining[j] = Cardinality(deps[j] \ visited)
      BY DEF IInv
    <3> QED
      BY <1>5, <2>2, <3>1, <3>2
  <2> QED
    BY <2>1, <2>2
<1>7. \A j \in Entry : remaining'[j] = 0 <=> deps[j] \subseteq visited'
  BY <1>1, <1>6, Counters
<1>8. ready' = (ready \ {i}) \cup {j \in Dependents(i) : remaining[j] = 1}
  BY DEF Emit, ReadyAfterPop, Released
<1>9. ASSUME NEW j \in Entry
      PROVE  j \in ready' <=> j \notin visited' /\ deps[j] \subseteq visited'
  <2>1. CASE j \in Dependents(i)
    <3>1. i \in deps[j] /\ j # i
      BY <1>1, <2>1 DEF Dependents, Graph
    <3>2. j \notin visited /\ j \notin ready /\ j \notin visited'
      BY <1>2, <1>3, <3>1 DEF IInv
    <3>3. remaining'[j] = remaining[j] - 1
      BY <1>4, <1>6, <2>1
    <3>4. j \in ready' <=> remaining[j] = 1
      BY <1>8, <2>1, <3>2
    <3> QED
      BY <1>1, <1>7, <3>2, <3>3, <3>4
  <2>2. CASE j \notin Dependents(i)
    <3>1. j \in ready' <=> j \in ready /\ j # i
      BY <1>8, <2>2
    <3>2. deps[j] \subseteq visited' <=> deps[j] \subseteq visited
      BY <1>5, <2>2
    <3> QED
      BY <1>3, <3>1, <3>2 DEF IInv
  <2> QED
    BY <2>1, <2>2
<1>10. ready' \subseteq Entry
  BY <1>8 DEF IInv, TypeOK, Dependents
<1> QED
  BY <1>6, <1>9, <1>10

(* Emitting an entry that waits for nothing keeps the counters right.      *)
LEMMA EmitKeepsIInv ==
    ASSUME IInv, pc = "loop", NEW i \in Entry, IsFirst(i), Emit(i),
           UNCHANGED <<deps, pc>>
    PROVE  IInv'
<1> USE DEF Emit
<1>1. /\ placed = Len(ordered) /\ placed \in Nat /\ ordered \in Seq(Entry)
      /\ ordered' = Append(ordered, i) /\ placed' = placed + 1
  BY DEF IInv, TypeOK
<1>2. i \notin visited /\ deps[i] \subseteq visited
  BY DEF IInv, IsFirst
<1>3. /\ ordered' \in Seq(Entry) /\ Len(ordered') = placed'
      /\ \A q \in 1..placed : ordered'[q] = ordered[q]
      /\ ordered'[placed'] = i
  BY <1>1
<1>4. 1..placed' = (1..placed) \cup {placed'} /\ placed' \notin 1..placed
  BY <1>1
<1>5. visited = {ordered[q] : q \in 1..placed}
  BY DEF IInv
<1>6. visited' = {ordered'[q] : q \in 1..placed'}
  BY <1>3, <1>4, <1>5
<1>7. \A q, r \in 1..placed' : ordered'[q] = ordered'[r] => q = r
  <2>1. \A q \in 1..placed : ordered'[q] \in visited /\ ordered'[q] # i
    BY <1>2, <1>3, <1>5
  <2>2. \A q, r \in 1..placed : ordered[q] = ordered[r] => q = r
    BY DEF IInv
  <2> QED
    BY <1>3, <1>4, <2>1, <2>2
<1>8. DependenciesFirst'
  <2> SUFFICES ASSUME NEW q \in 1..placed'
               PROVE  deps[ordered'[q]] \subseteq {ordered'[r] : r \in 1..(q - 1)}
    BY DEF DependenciesFirst, Before
  <2>1. \A r \in 1..(q - 1) : r \in 1..placed /\ ordered'[r] = ordered[r]
    BY <1>1, <1>3
  <2>2. CASE q \in 1..placed
    <3>1. deps[ordered[q]] \subseteq {ordered[r] : r \in 1..(q - 1)}
      BY <2>2 DEF IInv, DependenciesFirst, Before
    <3>2. {ordered'[r] : r \in 1..(q - 1)} = {ordered[r] : r \in 1..(q - 1)}
      BY <2>1
    <3> QED
      BY <1>3, <2>2, <3>1, <3>2
  <2>3. CASE q = placed'
    <3>1. 1..(q - 1) = 1..placed
      BY <1>1, <2>3
    <3>2. {ordered'[r] : r \in 1..placed} = visited
      BY <1>3, <1>5
    <3>3. deps[ordered'[q]] \subseteq visited
      BY <1>2, <1>3, <2>3
    <3> QED
      BY <3>1, <3>2, <3>3
  <2> QED
    BY <1>4, <2>2, <2>3
<1>9. /\ \A j \in Entry : remaining'[j] = Cardinality(deps[j] \ visited')
      /\ ready' = {j \in Entry \ visited' : deps[j] \subseteq visited'}
  BY EmitKeepsCounters
<1>10. remaining' \in [Entry -> Nat]
  <2>1. remaining \in [Entry -> Nat]
    BY DEF IInv, TypeOK
  <2> QED
    BY <2>1 DEF Decremented
<1>11. TypeOK'
  BY <1>1, <1>3, <1>9, <1>10 DEF IInv, TypeOK
<1>12. \A j \in visited' : deps[j] \subseteq visited'
  BY <1>2 DEF IInv
<1>13. pc' = "loop" /\ placed' <= Len(ordered')
  BY <1>1, <1>3
<1> QED
  BY <1>3, <1>6, <1>7, <1>8, <1>9, <1>11, <1>12, <1>13 DEF IInv, EveryEntryOnce
(* Returning: what is appended enumerates the entries never visited.       *)
(* The increasing enumeration of a set of entries lists it without gaps or *)
(* repetitions.                                                            *)
LEMMA IncreasingEnumerates ==
    ASSUME NEW S, S \subseteq Entry, NEW s \in Increasing(S)
    PROVE  /\ IsFiniteSet(S) /\ Cardinality(S) \in Nat
           /\ s \in [1..Cardinality(S) -> S]
           /\ s \in Injection(1..Cardinality(S), S)
           /\ s \in Surjection(1..Cardinality(S), S)
           /\ \A a, b \in 1..Cardinality(S) : a < b => s[a] < s[b]
<1>1. IsFiniteSet(Entry) /\ S \subseteq Nat
  BY NAssumption, FS_Interval DEF Entry
<1> DEFINE n == Cardinality(S)
<1>2. IsFiniteSet(S) /\ n \in Nat
  BY <1>1, FS_Subset, FS_CardinalityType
<1>3. s \in [1..n -> S]
  BY DEF Increasing
<1>4. \A a, b \in 1..n : a < b => s[a] < s[b]
  BY <1>3 DEF Increasing
<1>5. \A a \in 1..n : s[a] \in Nat
  BY <1>1, <1>3
<1>6. \A a, b \in 1..n : s[a] = s[b] => a = b
  <2> HIDE DEF n
  <2> QED
    BY <1>2, <1>4, <1>5
<1>7. s \in Injection(1..n, S)
  BY <1>3, <1>6 DEF Injection, IsInjective
<1>8. Cardinality(1..n) = n
  BY <1>2, FS_Interval
<1> QED
  BY <1>2, <1>3, <1>4, <1>7, <1>8, FS_Injection

(* The loop emits as many entries as it visits.                            *)
LEMMA VisitedCount ==
    ASSUME IInv
    PROVE  IsFiniteSet(visited) /\ Cardinality(visited) = placed
<1> DEFINE emitted == [q \in 1..placed |-> ordered[q]]
<1>1. emitted \in Surjection(1..placed, visited)
  BY DEF IInv, Surjection
<1>2. emitted \in Injection(1..placed, visited)
  BY <1>1 DEF IInv, Injection, IsInjective, Surjection
<1>3. IsFiniteSet(1..placed) /\ Cardinality(1..placed) = placed
  <2>1. placed \in Nat
    BY DEF IInv, TypeOK
  <2> QED
    BY <2>1, FS_Interval
<1> QED
  BY <1>1, <1>2, <1>3, FS_Surjection

(* So does returning the order.                                            *)
LEMMA ReturnKeepsIInv == IInv /\ Return => IInv'
<1> SUFFICES ASSUME IInv, Return PROVE IInv'
  OBVIOUS
<1> DEFINE Left == Entry \ visited
<1>1. PICK rest \in Increasing(Left) : ordered' = ordered \o rest
  BY DEF Return
<1>2. /\ placed = Len(ordered) /\ placed \in Nat /\ ordered \in Seq(Entry)
      /\ UNCHANGED <<deps, remaining, ready, visited, placed>>
      /\ ready = {} /\ pc' = "done"
  BY DEF Return, IInv, TypeOK
<1>3. IsFiniteSet(Entry) /\ Cardinality(Entry) = N
  BY NAssumption, FS_Interval DEF Entry
<1> DEFINE n == Cardinality(Left)
<1>4. IsFiniteSet(Left) /\ n \in Nat /\ Left \subseteq Entry
  BY <1>3, FS_Subset, FS_CardinalityType
<1>5. rest \in [1..n -> Left]
  BY DEF Increasing
<1>7. rest \in Surjection(1..n, Left)
  BY <1>4, IncreasingEnumerates
<1> HIDE DEF n
<1>10. rest \in Seq(Entry) /\ Len(rest) = n
  <2>1. rest \in [1..n -> Entry]
    BY <1>4, <1>5
  <2> QED
    BY <1>4, <2>1
<1>11. /\ ordered' \in Seq(Entry) /\ Len(ordered') = placed + n
       /\ \A q \in 1..placed : ordered'[q] = ordered[q]
       /\ \A q \in 1..n : ordered'[placed + q] = rest[q]
  <2>1. placed = Len(ordered) /\ ordered \in Seq(Entry) /\ placed \in Nat
    BY <1>2
  <2>2. /\ ordered \o rest \in Seq(Entry)
        /\ Len(ordered \o rest) = Len(ordered) + Len(rest)
        /\ \A q \in 1..Len(ordered) : (ordered \o rest)[q] = ordered[q]
        /\ \A q \in 1..Len(rest) : (ordered \o rest)[Len(ordered) + q] = rest[q]
    BY <1>10, <2>1, Concatenation
  <2> QED
    BY <1>1, <1>10, <2>1, <2>2
<1>12. visited = {ordered'[q] : q \in 1..placed}
  <2>1. visited = {ordered[q] : q \in 1..placed}
    BY DEF IInv
  <2> QED
    BY <1>11, <2>1
<1>13. Left = {ordered'[q] : q \in (placed + 1)..Len(ordered')}
  <2>1. ASSUME NEW i \in Left
        PROVE  \E q \in (placed + 1)..Len(ordered') : ordered'[q] = i
    <3>1. PICK a \in 1..n : rest[a] = i
      BY <1>7 DEF Surjection
    <3>2. placed + a \in (placed + 1)..Len(ordered')
      BY <1>2, <1>4, <1>11
    <3> QED
      BY <1>11, <3>1, <3>2
  <2>2. ASSUME NEW q \in (placed + 1)..Len(ordered')
        PROVE  ordered'[q] \in Left
    <3>1. q - placed \in 1..n /\ placed + (q - placed) = q
      BY <1>2, <1>4, <1>11
    <3> QED
      BY <1>5, <1>11, <3>1
  <2> QED
    BY <2>1, <2>2
<1>14. Cardinality(visited) = placed
  BY VisitedCount
<1>15. Len(ordered') = N
  <2>1. visited \subseteq Entry
    BY DEF IInv, TypeOK
  <2>2. Cardinality(Entry \ visited) = N - Cardinality(Entry \cap visited)
    BY <1>3, FS_Difference
  <2>3. Entry \cap visited = visited
    BY <2>1
  <2>4. n = N - placed
    BY <1>14, <2>2, <2>3 DEF n
  <2> QED
    BY <1>2, <1>11, <2>4, NAssumption
<1>16. EveryEntryOnce'
  <2>1. ASSUME NEW i \in Entry PROVE \E q \in 1..N : ordered'[q] = i
    <3>1. CASE i \in visited
      BY <1>2, <1>4, <1>11, <1>12, <1>15, <3>1
    <3>2. CASE i \in Left
      BY <1>2, <1>13, <1>15, <3>2
    <3> QED
      BY <3>1, <3>2
  <2> QED
    BY <1>15, <2>1 DEF EveryEntryOnce
<1>17. DependenciesFirst'
  <2>1. ASSUME NEW q \in 1..placed
        PROVE  deps[ordered'[q]] \subseteq {ordered'[r] : r \in 1..(q - 1)}
    <3>1. deps[ordered[q]] \subseteq {ordered[r] : r \in 1..(q - 1)}
      BY DEF IInv, DependenciesFirst, Before
    <3>2. \A r \in 1..(q - 1) : r \in 1..placed
      BY <1>2
    <3>3. {ordered'[r] : r \in 1..(q - 1)} = {ordered[r] : r \in 1..(q - 1)}
      BY <1>11, <3>2
    <3> QED
      BY <1>11, <3>1, <3>3
  <2> QED
    BY <1>2, <2>1 DEF DependenciesFirst, Before
<1>18. \A q, r \in 1..placed : ordered'[q] = ordered'[r] => q = r
  BY <1>11 DEF IInv
<1>19. TypeOK'
  BY <1>2, <1>11 DEF IInv, TypeOK
<1> QED
  BY <1>2, <1>4, <1>11, <1>12, <1>13, <1>16, <1>17, <1>18, <1>19 DEF IInv

(* The invariant that ties counters to sets.                               *)
THEOREM InductiveInvariant == Spec => []IInv
<1>1. IInv /\ [Next]_vars => IInv'
  <2> SUFFICES ASSUME IInv, [Next]_vars PROVE IInv'
    OBVIOUS
  <2>1. CASE Turn
    <3>1. PICK i \in Entry : IsFirst(i) /\ IF i \in visited THEN Skip(i) ELSE Emit(i)
      BY <2>1 DEF Turn
    <3>2. i \notin visited
      BY <3>1 DEF IsFirst, IInv
    <3>3. Emit(i)
      BY <3>1, <3>2
    <3>4. pc = "loop" /\ UNCHANGED <<deps, pc>>
      BY <2>1 DEF Turn
    <3> QED
      BY <3>1, <3>3, <3>4, EmitKeepsIInv
  <2>2. CASE Return
    BY <2>2, ReturnKeepsIInv
  <2>3. CASE UNCHANGED vars
    <3> USE <2>3 DEF vars
    <3>1. TypeOK'
      BY DEF IInv, TypeOK
    <3>2. DependenciesFirst'
      BY DEF IInv, DependenciesFirst, Before
    <3>3. EveryEntryOnce'
      BY DEF IInv, EveryEntryOnce
    <3> QED
      BY <3>1, <3>2, <3>3 DEF IInv
  <2> QED
    BY <2>1, <2>2, <2>3 DEF Next, Terminated
<1> QED
  BY InitIInv, <1>1, PTL DEF Spec

(* The loop emits nothing before what it depends on, on any graph.         *)
THEOREM EmitsDependenciesFirst == Spec => []DependenciesFirst
<1>1. IInv => DependenciesFirst
  BY DEF IInv
<1> QED
  BY <1>1, InductiveInvariant, PTL

(* The result is a permutation of the entries, on any graph.               *)
THEOREM LosesNothing == Spec => []EveryEntryOnce
<1>1. IInv => EveryEntryOnce
  BY DEF IInv
<1> QED
  BY <1>1, InductiveInvariant, PTL

(* Whatever was left to the original order waits for an entry that was     *)
(* left too, so only a cycle makes the sort give up on the order.          *)
THEOREM GivesUpOnCyclesOnly == Spec => []OnlyCyclesAreLeft
<1>1. IInv => OnlyCyclesAreLeft
  <2> SUFFICES ASSUME IInv, pc = "done", NEW q \in (placed + 1)..Len(ordered)
               PROVE  \E r \in (placed + 1)..Len(ordered) : ordered[r] \in deps[ordered[q]]
    BY DEF OnlyCyclesAreLeft
  <2>1. Entry \ visited = {ordered[r] : r \in (placed + 1)..Len(ordered)}
    BY DEF IInv
  <2>2. ordered[q] \in Entry \ visited
    BY <2>1
  <2>3. deps[ordered[q]] \subseteq Entry
    BY <2>2, InputsAssumption DEF IInv, TypeOK, Graph
  <2>4. ~(deps[ordered[q]] \subseteq visited)
    BY <2>2 DEF IInv
  <2>5. PICK i \in Entry \ visited : i \in deps[ordered[q]]
    BY <2>3, <2>4
  <2> QED
    BY <2>1, <2>5
<1> QED
  BY <1>1, InductiveInvariant, PTL

(***************************************************************************)
(* Agreement with the functional definition                                *)
(***************************************************************************)

(* The one increasing enumeration of a set is the one by rank.             *)
LEMMA IncreasingIsInOrder ==
    ASSUME NEW S, S \subseteq Entry, NEW s \in Increasing(S)
    PROVE  s = InOrder(S)
<1> DEFINE n == Cardinality(S)
<1>1. /\ n \in Nat /\ s \in [1..n -> S]
      /\ s \in Injection(1..n, S) /\ s \in Surjection(1..n, S)
      /\ \A a, b \in 1..n : a < b => s[a] < s[b]
  BY IncreasingEnumerates
<1> HIDE DEF n
<1>2. \A a \in 1..n : s[a] \in Nat
  <2>1. S \subseteq Nat
    BY NAssumption DEF Entry
  <2> QED
    BY <1>1, <2>1
<1>3. ASSUME NEW r \in 1..n PROVE Cardinality({j \in S : j <= s[r]}) = r
  <2> DEFINE T == {j \in S : j <= s[r]}
             f == [q \in 1..r |-> s[q]]
  <2>1. \A q \in 1..n : s[q] <= s[r] <=> q <= r
    BY <1>1, <1>2
  <2>2. f \in [1..r -> T]
    BY <1>1, <2>1
  <2>3. f \in Injection(1..r, T)
    BY <1>1, <2>2 DEF Injection, IsInjective
  <2>4. \A j \in T : \E q \in 1..r : f[q] = j
    <3> SUFFICES ASSUME NEW j \in T PROVE \E q \in 1..r : f[q] = j
      OBVIOUS
    <3>1. PICK q \in 1..n : s[q] = j
      BY <1>1 DEF Surjection
    <3>2. q \in 1..r
      BY <1>1, <2>1, <3>1
    <3> QED
      BY <3>1, <3>2
  <2>5. f \in Surjection(1..r, T)
    BY <2>2, <2>4 DEF Surjection
  <2>6. IsFiniteSet(1..r) /\ Cardinality(1..r) = r
    BY <1>1, FS_Interval
  <2> QED
    BY <2>3, <2>5, <2>6, FS_Surjection
<1>4. ASSUME NEW r \in 1..n
      PROVE  s[r] = CHOOSE i \in S : Cardinality({j \in S : j <= i}) = r
  <2>1. s[r] \in S /\ Cardinality({j \in S : j <= s[r]}) = r
    BY <1>1, <1>3
  <2>2. ASSUME NEW i \in S, Cardinality({j \in S : j <= i}) = r PROVE i = s[r]
    <3>1. PICK q \in 1..n : s[q] = i
      BY <1>1 DEF Surjection
    <3> QED
      BY <1>3, <2>2, <3>1
  <2> QED
    BY <2>1, <2>2
<1> QED
  BY <1>1, <1>4 DEF InOrder, n

(* A graph as the lemmas on dependency order have it.                      *)
LEMMA GraphOverEntries == Entry = 1..N /\ N \in Nat /\ Graph \subseteq [Entry -> SUBSET Entry]
BY NAssumption DEF Entry, Graph

(* While the loop runs it is as far as the functional definition after as  *)
(* many turns; what it returns is TopologicalSort.                         *)
LoopAgrees ==
    /\ pc = "loop" => placed \in 0..N /\ ordered = EmittedAfter(deps)[placed]
    /\ ComputesTopologicalSort

(* In the loop, what waits for nothing in the model of the loop is ready   *)
(* in the functional definition too.                                       *)
LEMMA SameReady ==
    ASSUME IInv, pc = "loop"
    PROVE  /\ EntriesOf(ordered) = visited
           /\ ReadyEntries(deps, EntriesOf(ordered)) = ready
<1>1. /\ deps \in Graph /\ placed = Len(ordered) /\ ordered \in Seq(Entry)
      /\ visited = {ordered[q] : q \in 1..placed}
      /\ ready = {i \in Entry \ visited : deps[i] \subseteq visited}
  BY InputsAssumption DEF IInv, TypeOK
<1>2. DOMAIN ordered = 1..placed /\ DOMAIN deps = Entry
  BY <1>1 DEF Graph
<1>3. EntriesOf(ordered) = visited
  BY <1>1, <1>2 DEF EntriesOf
<1> QED
  BY <1>1, <1>2, <1>3 DEF ReadyEntries

(* Every turn of the loop emits what the definition emits.                 *)
LEMMA NextLoopAgrees == IInv /\ LoopAgrees /\ [Next]_vars => LoopAgrees'
<1> SUFFICES ASSUME IInv, LoopAgrees, [Next]_vars PROVE LoopAgrees'
  OBVIOUS
<1>a. /\ deps \in Graph /\ placed \in Nat /\ visited \subseteq Entry /\ ready \subseteq Entry
      /\ \A i \in ready : i \notin visited
  BY InputsAssumption DEF IInv, TypeOK
<1>1. CASE Turn
  <2>1. /\ pc = "loop" /\ pc' = "loop" /\ deps' = deps
        /\ placed \in 0..N /\ ordered = EmittedAfter(deps)[placed]
    BY <1>1 DEF Turn, LoopAgrees
  <2>2. PICK i \in Entry : IsFirst(i) /\ IF i \in visited THEN Skip(i) ELSE Emit(i)
    BY <1>1 DEF Turn
  <2>3. i \in ready /\ i \notin visited /\ Emit(i)
    BY <1>a, <2>2 DEF IsFirst
  <2>4. placed + 1 <= N
    <3>1. IsFiniteSet(Entry) /\ Cardinality(Entry) = N
      BY NAssumption, FS_Interval DEF Entry
    <3>2. Cardinality(visited) = placed /\ visited # Entry
      BY <1>a, <2>3, VisitedCount
    <3>3. Cardinality(visited) <= N /\ Cardinality(visited) # N
      BY <1>a, <3>1, <3>2, FS_Subset
    <3> QED
      BY <1>a, <3>2, <3>3, NAssumption
  <2>5. i = Smallest(ready)
    <3>1. Smallest(ready) \in ready /\ \A j \in ready : Smallest(ready) <= j
      <4>1. ready \subseteq Nat
        BY <1>a, NAssumption DEF Entry
      <4> QED
        BY <2>3, <4>1, SmallestIsLeast
    <3>2. i <= Smallest(ready) /\ Smallest(ready) <= i
      BY <2>2, <2>3, <3>1 DEF IsFirst
    <3>3. i \in Nat /\ Smallest(ready) \in Nat
      <4>1. Entry \subseteq Nat
        BY NAssumption DEF Entry
      <4> QED
        BY <1>a, <2>3, <3>1, <4>1
    <3> QED
      BY <3>2, <3>3
  <2>6. EmitNext(deps, ordered) = Append(ordered, i)
    BY <2>1, <2>3, <2>5, SameReady DEF EmitNext
  <2>7. EmittedAfter(deps)[placed + 1] = EmitNext(deps, EmittedAfter(deps)[placed])
    <3>1. deps \in [Entry -> SUBSET Entry]
      BY <1>a, GraphOverEntries
    <3>2. \A k \in 1..N : EmittedAfter(deps)[k] = EmitNext(deps, EmittedAfter(deps)[k - 1])
      BY <3>1, EmittedAfterDefined, GraphOverEntries
    <3>3. placed + 1 \in 1..N /\ (placed + 1) - 1 = placed
      BY <1>a, <2>4, GraphOverEntries
    <3> QED
      BY <3>2, <3>3
  <2>8. ordered' = Append(ordered, i) /\ placed' = placed + 1
    BY <2>3 DEF Emit
  <2>9. placed' \in 0..N /\ ordered' = EmittedAfter(deps')[placed']
    BY <1>a, <2>1, <2>4, <2>6, <2>7, <2>8
  <2> QED
    BY <2>1, <2>9 DEF LoopAgrees, ComputesTopologicalSort
<1>2. CASE Return
  <2>1. /\ pc = "loop" /\ pc' = "done" /\ deps' = deps /\ ready = {}
        /\ placed \in 0..N /\ ordered = EmittedAfter(deps)[placed]
    BY <1>2 DEF Return, LoopAgrees
  <2>2. PICK rest \in Increasing(Entry \ visited) : ordered' = ordered \o rest
    BY <1>2 DEF Return
  <2>3. ordered = Emitted(deps)
    <3>1. ReadyEntries(deps, EntriesOf(EmittedAfter(deps)[placed])) = {}
      BY <2>1, SameReady
    <3> QED
      BY <1>a, <2>1, <3>1, EmittedIsStable, GraphOverEntries
  <2>4. rest = InOrder(Entry \ visited)
    BY IncreasingIsInOrder
  <2>5. EntriesOf(Emitted(deps)) = visited /\ DOMAIN deps = Entry
    BY <1>a, <2>1, <2>3, SameReady DEF Graph
  <2>6. ordered' = TopologicalSort(deps)
    BY <2>2, <2>3, <2>4, <2>5 DEF TopologicalSort
  <2> QED
    BY <2>1, <2>6 DEF LoopAgrees, ComputesTopologicalSort
<1>3. CASE UNCHANGED vars
  BY <1>3 DEF vars, LoopAgrees, ComputesTopologicalSort
<1> QED
  BY <1>1, <1>2, <1>3 DEF Next, Terminated

(* The counters compute the set definition, ties included: what comes out  *)
(* is TopologicalSort of the graph, for every graph.                       *)
THEOREM ComputesTheFunction == Spec => []ComputesTopologicalSort
<1>1. Init => LoopAgrees
  <2> SUFFICES ASSUME Init PROVE LoopAgrees
    OBVIOUS
  <2>1. deps \in Graph /\ ordered = <<>> /\ placed = 0 /\ pc = "loop"
    BY InputsAssumption DEF Init
  <2> QED
    BY <2>1, EmittedAfterDefined, GraphOverEntries DEF LoopAgrees, ComputesTopologicalSort
<1>2. LoopAgrees => ComputesTopologicalSort
  BY DEF LoopAgrees
<1> QED
  BY <1>1, <1>2, NextLoopAgrees, InductiveInvariant, PTL DEF Spec

===============================================================================
