---------------------------- MODULE FkPlanningProofs ----------------------------
(***************************************************************************)
(* Theorems about the tables that reference each other, for any number of  *)
(* tables and any schemas.                                                 *)
(***************************************************************************)
EXTENDS FkPlanning, DataLemmas

(* The tables to be created and those to be dropped, with their keys; the  *)
(* keys that are added afterwards, and those that are dropped before.      *)
Fresh(cur, des) == Without(des, DOMAIN cur)
Gone(cur, des) == Without(cur, DOMAIN des)
Moved(fresh, t) == CyclicKeys(fresh, t)
Named(gone, t) == {k \in CyclicKeys(gone, t) : k.named}

CreatesOf(fresh) == {CreateTable(t, fresh[t] \ Moved(fresh, t)) : t \in DOMAIN fresh}
AddsOf(fresh) ==
    UNION {{AddForeignKey(t, k) : k \in Moved(fresh, t)} : t \in DOMAIN fresh}
DropKeysOf(gone) ==
    UNION {{DropForeignKey(t, k) : k \in Named(gone, t)} : t \in DOMAIN gone}
DropsOf(gone) == {DropTable(t) : t \in DOMAIN gone}

(* The operations of the plan.                                             *)
PlanOf(cur, des, ed) ==
    (IF ed THEN DropKeysOf(Gone(cur, des)) \cup DropsOf(Gone(cur, des)) ELSE {})
        \cup CreatesOf(Fresh(cur, des)) \cup AddsOf(Fresh(cur, des))

(* One operation has to be applied before another: the kinds have an       *)
(* order, and a table is created after those its own keys reference.       *)
Precedes(x, y) ==
    \/ x.kind = "DropForeignKey" /\ y.kind # "DropForeignKey"
    \/ x.kind = "DropTable" /\ y.kind \in {"CreateTable", "AddForeignKey"}
    \/ x.kind = "CreateTable" /\ y.kind = "AddForeignKey"
    \/ /\ x.kind = "CreateTable" /\ y.kind = "CreateTable"
       /\ x.table # y.table /\ x.table \in Targets(y.keys)

Respects(s, all) ==
    /\ Lists(s, all)
    /\ \A x, y \in all : Precedes(x, y) => ComesBefore(s, x, y)

(* Tables are numbers, and there are finitely many; a table has finitely   *)
(* many keys.                                                              *)
LEMMA TablesAreNumbers ==
    ASSUME NEW S \in SUBSET Table
    PROVE  S \subseteq Nat /\ IsFiniteSet(S)
<1>1. IsFiniteSet(Table) /\ Table \subseteq Nat
  BY NumTablesAssumption, FS_Interval DEF Table
<1> QED
  BY <1>1, FS_Subset

(* There are two keys at most for every table they can reference.          *)
LEMMA KeysAreFinite ==
    ASSUME NEW keys \in SUBSET ForeignKey
    PROVE  IsFiniteSet(keys)
<1> DEFINE N == 2 * NumTables
           code == [k \in ForeignKey |-> 2 * k.to - (IF k.named THEN 1 ELSE 0)]
<1>1. \A k \in ForeignKey : k.to \in 1..NumTables /\ k.named \in BOOLEAN
                            /\ k = [to |-> k.to, named |-> k.named]
  BY DEF ForeignKey, Table
<1>2. N \in Nat /\ code \in [ForeignKey -> 1..N]
  BY <1>1, NumTablesAssumption
<1>3. ASSUME NEW k \in ForeignKey, NEW l \in ForeignKey, code[k] = code[l] PROVE k = l
  <2>1. k.to \in Nat /\ l.to \in Nat /\ k.named \in BOOLEAN /\ l.named \in BOOLEAN
    BY <1>1, NumTablesAssumption
  <2>2. 2 * k.to - (IF k.named THEN 1 ELSE 0) = 2 * l.to - (IF l.named THEN 1 ELSE 0)
    BY <1>3
  <2>3. k.to = l.to /\ k.named = l.named
    BY <2>1, <2>2
  <2> QED
    BY <1>1, <2>3
<1> HIDE DEF code, N
<1>4. code \in Injection(ForeignKey, 1..N)
  BY <1>2, <1>3 DEF Injection, IsInjective
<1>5. IsFiniteSet(ForeignKey)
  BY <1>2, <1>4, FS_Interval, FS_Injection
<1> QED
  BY <1>5, FS_Subset

(* The keys of a table in some order.                                      *)
LEMMA DeclaredLists ==
    ASSUME NEW S, IsFiniteSet(S)
    PROVE  Lists(Declared(S), S)
<1> DEFINE n == Cardinality(S)
           f == Declared(S)
<1>1. n \in Nat /\ ExistsBijection(1..n, S)
  BY FS_CardinalityType
<1>2. PICK g \in [1..n -> S] : \A a, b \in 1..n : g[a] = g[b] => a = b
  BY <1>1 DEF ExistsBijection, Bijection, Injection, IsInjective
<1> DEFINE OneToOne(o) == \A i, j \in DOMAIN o : o[i] = o[j] => i = j
<1>3. f \in [1..n -> S] /\ OneToOne(f)
  <2>1. g \in [1..n -> S] /\ OneToOne(g)
    BY <1>2
  <2>2. f = CHOOSE o \in [1..n -> S] : OneToOne(o)
    BY DEF Declared
  <2> HIDE DEF f, n, OneToOne
  <2> QED
    BY <2>1, <2>2
<1> HIDE DEF f, n
<1>4. \A a, b \in 1..n : f[a] = f[b] => a = b
  BY <1>3
<1>5. \A x \in S : \E q \in 1..n : f[q] = x
  <2>1. f \in Injection(1..n, S)
    BY <1>3, <1>4 DEF Injection, IsInjective
  <2>2. IsFiniteSet(1..n) /\ Cardinality(1..n) = n
    BY <1>1, FS_Interval
  <2>3. f \in Surjection(1..n, S)
    BY <2>1, <2>2, FS_Injection DEF n
  <2> QED
    BY <2>3 DEF Surjection
<1>6. f \in Seq(S) /\ DOMAIN f = 1..n
  BY <1>1, <1>3
<1> QED
  BY <1>4, <1>5, <1>6 DEF Lists, f

(* The lists of the tables, one after another, list what each lists.       *)
LEMMA OnEachTableLists ==
    ASSUME NEW tables \in SUBSET Table, NEW lists, NEW sets,
           \A t \in tables : Lists(lists[t], sets[t]),
           \A t, u \in tables : t # u => sets[t] \cap sets[u] = {}
    PROVE  Lists(OnEachTable(tables, lists), UNION {sets[t] : t \in tables})
<1> DEFINE order == InOrder(tables)
           n == Len(order)
           U == UNION {sets[t] : t \in tables}
           G == [k \in 1..n |-> [s \in Seq(U) |-> s \o lists[order[k]]]]
           Eq(g) == g = [k \in 0..n |-> IF k = 0 THEN <<>> ELSE g[k - 1] \o lists[order[k]]]
<1>1. Lists(order, tables)
  BY TablesAreNumbers, InOrderLists
<1>2. /\ n \in Nat /\ DOMAIN order = 1..n
      /\ \A k \in 1..n : order[k] \in tables
      /\ \A t \in tables : \E k \in 1..n : order[k] = t
      /\ \A k, m \in 1..n : order[k] = order[m] => k = m
  BY <1>1 DEF Lists
<1>3. \A k \in 1..n : lists[order[k]] \in Seq(U)
  <2>1. SUFFICES ASSUME NEW t \in tables PROVE lists[t] \in Seq(U)
    BY <1>2
  <2>2. lists[t] \in Seq(sets[t]) /\ sets[t] \subseteq U
    BY DEF Lists
  <2> HIDE DEF U
  <2> QED
    BY <2>2
<1>4. OnEachTable(tables, lists) = (CHOOSE g : Eq(g))[n]
  BY DEF OnEachTable
<1> HIDE DEF order, n, U
<1>5. \E g : Eq(g)
  <2> DEFINE S == Seq(U)
             a == <<>>
  <2>1. a \in S /\ \A k \in 1..n : \A s \in S : s \o lists[order[k]] \in S
    BY <1>3, ConcatProperties
  <2>2. G \in [1..n -> [S -> S]]
    BY <2>1
  <2> HIDE DEF G, S, a
  <2>3. PICK g \in [0..n -> S] : g[0] = a /\ \A k \in 1..n : g[k] = G[k][g[k - 1]]
    <3>1. n \in Nat /\ a \in S /\ G \in [1..n -> [S -> S]]
      BY <1>2, <2>1, <2>2
    <3> QED
      BY <3>1, RecursionDefined
  <2>4. \A k \in 1..n : g[k] = g[k - 1] \o lists[order[k]]
    <3>1. SUFFICES ASSUME NEW k \in 1..n PROVE g[k] = g[k - 1] \o lists[order[k]]
      OBVIOUS
    <3>2. k - 1 \in 0..n /\ g[k - 1] \in S
      BY <1>2, <2>3
    <3>3. G[k][g[k - 1]] = g[k - 1] \o lists[order[k]]
      BY <3>2 DEF G, S
    <3> QED
      BY <2>3, <3>3
  <2>5. Eq(g)
    <3>1. g = [k \in 0..n |-> g[k]]
      BY <2>3
    <3>2. \A k \in 0..n : k = 0 \/ k \in 1..n
      BY <1>2
    <3>3. \A k \in 0..n : g[k] = IF k = 0 THEN a ELSE g[k - 1] \o lists[order[k]]
      BY <2>3, <2>4, <3>2
    <3> QED
      BY <3>1, <3>3 DEF a
  <2> QED
    BY <2>5
<1> DEFINE h == CHOOSE g : Eq(g)
<1>6. Eq(h)
  <2> HIDE DEF Eq
  <2> QED
    BY <1>5
<1> HIDE DEF h
<1>7. h[0] = <<>> /\ \A k \in 1..n : h[k] = h[k - 1] \o lists[order[k]]
  BY <1>2, <1>6
<1> DEFINE Upto(k) == UNION {sets[order[m]] : m \in 1..k}
           T == {k \in Nat : k <= n => Lists(h[k], Upto(k))}
<1>8. 0 \in T
  <2>1. Lists(<<>>, {})
    BY DEF Lists
  <2>2. Upto(0) = {}
    OBVIOUS
  <2> QED
    BY <1>7, <2>1, <2>2
<1>9. ASSUME NEW k \in Nat, k \in T PROVE k + 1 \in T
  <2>1. SUFFICES ASSUME k + 1 <= n PROVE Lists(h[k + 1], Upto(k + 1))
    OBVIOUS
  <2>2. k + 1 \in 1..n /\ \A m \in 1..k : m \in 1..n /\ m # k + 1
    BY <1>2, <2>1
  <2>3. Lists(h[k], Upto(k)) /\ h[k + 1] = h[k] \o lists[order[k + 1]]
    <3>1. Lists(h[k], Upto(k))
      <4> HIDE DEF Upto
      <4>1. k <= n
        BY <1>2, <2>1
      <4> QED
        BY <1>9, <4>1
    <3>2. h[k + 1] = h[(k + 1) - 1] \o lists[order[k + 1]]
      BY <1>7, <2>2
    <3>3. (k + 1) - 1 = k
      OBVIOUS
    <3> QED
      BY <3>1, <3>2, <3>3
  <2> DEFINE V == sets[order[k + 1]]
  <2>4. Lists(lists[order[k + 1]], V)
    BY <1>2, <2>2
  <2>5. Upto(k) \cap V = {}
    <3>1. \A m \in 1..k : sets[order[m]] \cap V = {}
      BY <1>2, <2>2
    <3> HIDE DEF V
    <3> QED
      BY <3>1
  <2>6. Upto(k + 1) = Upto(k) \cup V
    <3>1. 1..(k + 1) = (1..k) \cup {k + 1}
      BY <2>1
    <3> QED
      BY <3>1
  <2> HIDE DEF Upto, V
  <2>7. Lists(h[k] \o lists[order[k + 1]], Upto(k) \cup V)
    BY <2>3, <2>4, <2>5, ConcatenationLists
  <2> QED
    BY <2>3, <2>6, <2>7
<1>10. n \in T
  <2> HIDE DEF T
  <2> QED
    BY <1>2, <1>8, <1>9, NatSetInduction
<1>11. Upto(n) = UNION {sets[t] : t \in tables}
  BY <1>2
<1>12. OnEachTable(tables, lists) = h[n]
  BY <1>4 DEF h
<1>13. Lists(h[n], Upto(n))
  <2> HIDE DEF Upto
  <2> QED
    BY <1>2, <1>10
<1> QED
  BY <1>11, <1>12, <1>13

-------------------------------------------------------------------------------
(* Cycles                                                                  *)

Reachable(graph, s) == {t \in DOMAIN graph : CanReach(graph, s, t)}

(* The node itself, and whatever the edges lead to from there.             *)
ReachedFrom(R, graph, s) ==
    /\ s \in R
    /\ \A u \in R : graph[u] \subseteq R
    /\ \A Y \in SUBSET DOMAIN graph :
         s \in Y /\ (\A u \in Y : graph[u] \subseteq Y) => R \subseteq Y

(* can_reach finds the nodes a walk leads to.                              *)
LEMMA CanReachIsReachability ==
    ASSUME NEW X, IsFiniteSet(X), NEW graph \in [X -> SUBSET X], NEW s \in X
    PROVE  ReachedFrom(Reachable(graph, s), graph, s)
<1> DEFINE n == Cardinality(X)
           a == {s}
           Next1(S) == S \cup UNION {graph[u] : u \in S}
           F == [S \in SUBSET X |-> Next1(S)]
           Eq(g) == g = [k \in 0..n |-> IF k = 0 THEN a ELSE Next1(g[k - 1])]
<1>1. n \in Nat /\ DOMAIN graph = X /\ a \in SUBSET X
  BY FS_CardinalityType
<1>2. /\ F \in [SUBSET X -> SUBSET X] /\ \A S \in SUBSET X : F[S] = Next1(S)
      /\ \A S \in SUBSET X : S \subseteq F[S]
  OBVIOUS
<1>3. \A t : CanReach(graph, s, t) <=> t \in (CHOOSE g : Eq(g))[n]
  BY <1>1 DEF CanReach
<1> HIDE DEF n, F, a
<1>4. PICK g \in [0..n -> SUBSET X] : Iterates(g, F, a, n)
  <2> DEFINE Sets == SUBSET X
  <2>1. F \in [Sets -> Sets] /\ a \in Sets
    BY <1>1, <1>2
  <2> HIDE DEF Sets
  <2>2. \E g \in [0..n -> Sets] : Iterates(g, F, a, n)
    BY <1>1, <2>1, IterationDefined
  <2> QED
    BY <2>2 DEF Sets
<1>5. Eq(g)
  <2>1. ASSUME NEW k \in 0..n, k # 0 PROVE F[g[k - 1]] = Next1(g[k - 1])
    <3>1. g[k - 1] \in SUBSET X
      BY <1>1, <1>4, <2>1
    <3> QED
      BY <1>2, <3>1
  <2> HIDE DEF Next1
  <2> QED
    BY <1>4, <2>1 DEF Iterates
<1> DEFINE h == CHOOSE h : Eq(h)
<1>6. Eq(h)
  <2> HIDE DEF Eq
  <2> QED
    BY <1>5
<1>7. \A k \in 0..n : h[k] \in SUBSET X
  <2> HIDE DEF h
  <2> DEFINE T == {k \in Nat : k <= n => h[k] \in SUBSET X}
  <2>1. h[0] = a /\ \A k \in 1..n : h[k] = Next1(h[k - 1])
    <3> HIDE DEF Next1
    <3> QED
      BY <1>1, <1>6
  <2>2. 0 \in T
    BY <1>1, <2>1
  <2>3. ASSUME NEW k \in Nat, k \in T PROVE k + 1 \in T
    <3>1. CASE k + 1 <= n
      <4>1. h[k + 1] = Next1(h[k]) /\ h[k] \in SUBSET X
        BY <1>1, <2>1, <2>3, <3>1
      <4>2. Next1(h[k]) \in SUBSET X
        BY <4>1
      <4> QED
        BY <4>1, <4>2
    <3>2. CASE ~(k + 1 <= n)
      BY <3>2
    <3> QED
      BY <3>1, <3>2
  <2>4. Nat \subseteq T
    <3> HIDE DEF T
    <3> QED
      BY <2>2, <2>3, NatSetInduction
  <2> QED
    BY <1>1, <2>4
<1>8. Iterates(h, F, a, n)
  <2> HIDE DEF h
  <2>1. ASSUME NEW k \in 0..n, k # 0 PROVE F[h[k - 1]] = Next1(h[k - 1])
    <3>1. h[k - 1] \in SUBSET X
      BY <1>1, <1>7, <2>1
    <3> QED
      BY <1>2, <3>1
  <2> HIDE DEF Next1
  <2> QED
    BY <1>6, <2>1 DEF Iterates
<1>9. Closes(h[n], F, a, X)
  <2> HIDE DEF h
  <2>1. Iterates(h, F, a, Cardinality(X))
    BY <1>8 DEF n
  <2>2. Closes(h[Cardinality(X)], F, a, X)
    BY <1>1, <1>2, <2>1, ClosureIsReached
  <2> QED
    BY <2>2 DEF n
<1> DEFINE R == Reachable(graph, s)
<1>10. R = h[n]
  <2>1. h[n] \subseteq X
    BY <1>9 DEF Closes
  <2> HIDE DEF h
  <2>2. \A t : CanReach(graph, s, t) <=> t \in h[n]
    BY <1>3 DEF h
  <2> QED
    BY <1>1, <2>1, <2>2 DEF Reachable
<1> HIDE DEF h, R
<1>11. R \in SUBSET X /\ a \subseteq R /\ Next1(R) = R
  BY <1>2, <1>9, <1>10 DEF Closes
<1>12. \A u \in R : graph[u] \subseteq R
  BY <1>11
<1>13. ASSUME NEW Y \in SUBSET X, s \in Y, \A u \in Y : graph[u] \subseteq Y
       PROVE  R \subseteq Y
  <2>1. \A Z \in SUBSET Y : F[Z] \subseteq Y
    BY <1>2, <1>13
  <2>2. a \subseteq Y
    BY <1>13 DEF a
  <2> QED
    BY <1>9, <1>10, <1>13, <2>1, <2>2 DEF Closes
<1> QED
  BY <1>1, <1>11, <1>12, <1>13 DEF ReachedFrom, R, a

(* Without the edges that are on a cycle there are no cycles: in any set   *)
(* of nodes one has no other edge into it.                                 *)
LEMMA OthersHaveNoCycle ==
    ASSUME NEW X, IsFiniteSet(X), NEW graph \in [X -> SUBSET X],
           NEW B \in SUBSET X, B # {}
    PROVE  \E t \in B : \A u \in graph[t] \cap B : CanReach(graph, u, t)
<1> DEFINE R(t) == Reachable(graph, t)
           size == [t \in X |-> Cardinality(R(t))]
<1>1. \A t \in X : ReachedFrom(R(t), graph, t)
  BY CanReachIsReachability
<1>2. \A t \in X : R(t) \in SUBSET X
  BY DEF Reachable
<1>3. \A t \in X : IsFiniteSet(R(t)) /\ Cardinality(R(t)) \in Nat
  <2>1. \A S \in SUBSET X : IsFiniteSet(S)
    BY FS_Subset
  <2> HIDE DEF R
  <2> QED
    BY <1>2, <2>1, FS_CardinalityType
<1>4. size \in [X -> Nat]
  BY <1>3
<1> DEFINE sizes == {size[t] : t \in B}
<1>5. sizes \subseteq Nat /\ sizes # {}
  BY <1>4
<1>6. PICK m \in sizes : \A l \in sizes : m <= l
  <2> HIDE DEF sizes
  <2> QED
    BY <1>5, LeastNatural
<1>7. PICK t \in B : size[t] = m
  OBVIOUS
<1>8. ASSUME NEW u \in graph[t] \cap B, ~CanReach(graph, u, t) PROVE FALSE
  <2>1. t \in X /\ u \in X /\ t \notin R(u)
    BY <1>8 DEF Reachable
  <2>2. t \in R(t) /\ u \in R(t)
    BY <1>1, <2>1 DEF ReachedFrom
  <2>3. R(u) \subseteq R(t)
    <3>1. \A Y \in SUBSET X : u \in Y /\ (\A v \in Y : graph[v] \subseteq Y) => R(u) \subseteq Y
      BY <1>1, <2>1 DEF ReachedFrom
    <3>2. R(t) \in SUBSET X /\ \A v \in R(t) : graph[v] \subseteq R(t)
      BY <1>1, <1>2, <2>1 DEF ReachedFrom
    <3> HIDE DEF R
    <3> QED
      BY <2>2, <3>1, <3>2
  <2>4. /\ Cardinality(R(u)) <= Cardinality(R(t))
        /\ Cardinality(R(u)) # Cardinality(R(t))
    <3>1. IsFiniteSet(R(t)) /\ R(u) \in SUBSET R(t) /\ R(u) # R(t)
      BY <1>3, <2>1, <2>2, <2>3
    <3> HIDE DEF R
    <3> QED
      BY <3>1, FS_Subset
  <2>5. size[u] \in sizes /\ size[u] = Cardinality(R(u)) /\ size[t] = Cardinality(R(t))
    BY <1>8, <2>1
  <2>6. size[u] \in Nat /\ size[t] \in Nat
    BY <1>4, <2>1
  <2>7. size[t] <= size[u]
    BY <1>6, <1>7, <2>5
  <2> HIDE DEF size, sizes, R
  <2> QED
    BY <2>4, <2>5, <2>6, <2>7
<1> QED
  BY <1>8

(* A walk in a part of a graph is one in the whole.                        *)
LEMMA PartsReachLess ==
    ASSUME NEW X, IsFiniteSet(X), NEW graph \in [X -> SUBSET X],
           NEW Y \in SUBSET X, NEW part \in [Y -> SUBSET Y],
           \A u \in Y : part[u] \subseteq graph[u],
           NEW s \in Y, NEW t \in Y, CanReach(part, s, t)
    PROVE  CanReach(graph, s, t)
<1>1. IsFiniteSet(Y)
  BY FS_Subset
<1>2. ReachedFrom(Reachable(part, s), part, s) /\ ReachedFrom(Reachable(graph, s), graph, s)
  BY <1>1, CanReachIsReachability
<1> DEFINE Z == Reachable(graph, s) \cap Y
<1>3. Z \in SUBSET DOMAIN part /\ s \in Z /\ \A u \in Z : part[u] \subseteq Z
  BY <1>2 DEF ReachedFrom
<1>4. Reachable(part, s) \subseteq Z
  BY <1>2, <1>3 DEF ReachedFrom
<1>5. t \in Reachable(part, s)
  BY DEF Reachable
<1> QED
  BY <1>4, <1>5 DEF Reachable

-------------------------------------------------------------------------------
(* The plan                                                                *)

(* What is left of a schema is one.                                        *)
LEMMA WithoutIsSchema ==
    ASSUME NEW schema, IsSchema(schema), NEW tables
    PROVE  /\ DOMAIN Without(schema, tables) = DOMAIN schema \ tables
           /\ \A t \in DOMAIN schema \ tables : Without(schema, tables)[t] = schema[t]
           /\ IsSchema(Without(schema, tables))
<1>1. PICK ts \in SUBSET Table : schema \in [ts -> SUBSET ForeignKey]
  BY DEF IsSchema
<1>2. ts \ tables \in SUBSET Table
  OBVIOUS
<1>3. Without(schema, tables) \in [ts \ tables -> SUBSET ForeignKey]
  BY <1>1 DEF Without
<1>4. IsSchema(Without(schema, tables))
  BY <1>2, <1>3 DEF IsSchema
<1> QED
  BY <1>4 DEF Without

(* A schema is a function from finitely many tables to sets of keys, and   *)
(* its graph stays within its tables.                                      *)
LEMMA SchemaFacts ==
    ASSUME NEW schema, IsSchema(schema)
    PROVE  /\ DOMAIN schema \in SUBSET Table /\ IsFiniteSet(DOMAIN schema)
           /\ schema = [t \in DOMAIN schema |-> schema[t]]
           /\ \A t \in DOMAIN schema : schema[t] \in SUBSET ForeignKey
           /\ FkGraph(schema) \in [DOMAIN schema -> SUBSET DOMAIN schema]
           /\ \A t \in DOMAIN schema : CyclicKeys(schema, t) \subseteq schema[t]
<1>1. /\ DOMAIN schema \in SUBSET Table
      /\ schema = [t \in DOMAIN schema |-> schema[t]]
      /\ \A t \in DOMAIN schema : schema[t] \in SUBSET ForeignKey
  BY DEF IsSchema
<1> QED
  BY <1>1, TablesAreNumbers DEF FkGraph, CyclicKeys

(* The operations on some keys of a table.                                 *)
LEMMA KeyOperationsLists ==
    ASSUME NEW t, NEW keys \in SUBSET ForeignKey
    PROVE  /\ Lists(OnEachKey(t, keys, AddForeignKey), {AddForeignKey(t, k) : k \in keys})
           /\ Lists(OnEachKey(t, keys, DropForeignKey), {DropForeignKey(t, k) : k \in keys})
<1> DEFINE s == Declared(keys)
           f == [k \in keys |-> AddForeignKey(t, k)]
           g == [k \in keys |-> DropForeignKey(t, k)]
<1>1. Lists(s, keys)
  BY KeysAreFinite, DeclaredLists
<1> HIDE DEF s
<1>2. \A i \in DOMAIN s : s[i] \in keys
  BY <1>1 DEF Lists
<1>3. \A k \in keys : f[k] = AddForeignKey(t, k) /\ g[k] = DropForeignKey(t, k)
  OBVIOUS
<1>4. \A k, l \in keys : (f[k] = f[l] \/ g[k] = g[l]) => k = l
  <2>1. \A k : AddForeignKey(t, k).keys = {k} /\ DropForeignKey(t, k).keys = {k}
    BY DEF AddForeignKey, DropForeignKey
  <2>2. \A k, l \in keys : (f[k] = f[l] \/ g[k] = g[l]) => {k} = {l}
    BY <1>3, <2>1
  <2> QED
    BY <2>2
<1>5. DOMAIN f = keys /\ DOMAIN g = keys
  OBVIOUS
<1>6. OnEachKey(t, keys, AddForeignKey) = [i \in DOMAIN s |-> f[s[i]]]
  <2>1. OnEachKey(t, keys, AddForeignKey) = [i \in DOMAIN s |-> AddForeignKey(t, s[i])]
    BY DEF OnEachKey, s
  <2> QED
    BY <1>2, <1>3, <2>1
<1>7. OnEachKey(t, keys, DropForeignKey) = [i \in DOMAIN s |-> g[s[i]]]
  <2>1. OnEachKey(t, keys, DropForeignKey) = [i \in DOMAIN s |-> DropForeignKey(t, s[i])]
    BY DEF OnEachKey, s
  <2> QED
    BY <1>2, <1>3, <2>1
<1>8. {f[k] : k \in keys} = {AddForeignKey(t, k) : k \in keys}
  BY <1>3
<1>9. {g[k] : k \in keys} = {DropForeignKey(t, k) : k \in keys}
  BY <1>3
<1> HIDE DEF f, g
<1>10. Lists([i \in DOMAIN s |-> f[s[i]]], {f[k] : k \in keys})
  BY <1>1, <1>4, <1>5, MappedLists
<1>11. Lists([i \in DOMAIN s |-> g[s[i]]], {g[k] : k \in keys})
  BY <1>1, <1>4, <1>5, MappedLists
<1> QED
  BY <1>6, <1>7, <1>8, <1>9, <1>10, <1>11

(* The named keys on cycles of tables to be dropped.                       *)
LEMMA DropForeignKeysLists ==
    ASSUME NEW gone, IsSchema(gone)
    PROVE  Lists(DropForeignKeys(gone), DropKeysOf(gone))
<1> DEFINE X == DOMAIN gone
           lists == [t \in X |-> OnEachKey(t, Named(gone, t), DropForeignKey)]
           sets == [t \in X |-> {DropForeignKey(t, k) : k \in Named(gone, t)}]
<1>1. DropForeignKeys(gone) = OnEachTable(X, lists)
  BY DEF DropForeignKeys, Named
<1>2. DropKeysOf(gone) = UNION {sets[t] : t \in X}
  BY DEF DropKeysOf
<1>3. X \in SUBSET Table
  BY SchemaFacts
<1>4. \A t \in X : Lists(lists[t], sets[t])
  <2>1. \A t \in X : Named(gone, t) \in SUBSET ForeignKey
    BY SchemaFacts DEF Named
  <2> QED
    BY <2>1, KeyOperationsLists
<1>5. \A t, u \in X : t # u => sets[t] \cap sets[u] = {}
  <2>1. \A t \in X : \A op \in sets[t] : op.table = t
    BY DEF DropForeignKey
  <2> HIDE DEF sets
  <2> QED
    BY <2>1
<1> HIDE DEF lists, sets, X
<1>6. Lists(OnEachTable(X, lists), UNION {sets[t] : t \in X})
  BY <1>3, <1>4, <1>5, OnEachTableLists
<1> QED
  BY <1>1, <1>2, <1>6

(* The keys on cycles of tables to be created.                             *)
LEMMA AddForeignKeysLists ==
    ASSUME NEW fresh, IsSchema(fresh)
    PROVE  Lists(OnEachTable(DOMAIN fresh, [t \in DOMAIN fresh |->
                    OnEachKey(t, CyclicKeys(fresh, t), AddForeignKey)]),
                 AddsOf(fresh))
<1> DEFINE X == DOMAIN fresh
           lists == [t \in X |-> OnEachKey(t, CyclicKeys(fresh, t), AddForeignKey)]
           sets == [t \in X |-> {AddForeignKey(t, k) : k \in CyclicKeys(fresh, t)}]
<1>2. AddsOf(fresh) = UNION {sets[t] : t \in X}
  BY DEF AddsOf, Moved
<1>3. X \in SUBSET Table
  BY SchemaFacts
<1>4. \A t \in X : Lists(lists[t], sets[t])
  <2>1. \A t \in X : CyclicKeys(fresh, t) \in SUBSET ForeignKey
    BY SchemaFacts
  <2> QED
    BY <2>1, KeyOperationsLists
<1>5. \A t, u \in X : t # u => sets[t] \cap sets[u] = {}
  <2>1. \A t \in X : \A op \in sets[t] : op.table = t
    BY DEF AddForeignKey
  <2> HIDE DEF sets
  <2> QED
    BY <2>1
<1> HIDE DEF lists, sets, X
<1>6. Lists(OnEachTable(X, lists), UNION {sets[t] : t \in X})
  BY <1>3, <1>4, <1>5, OnEachTableLists
<1> QED
  BY <1>2, <1>6 DEF lists, X

(* What compare_tables asks for: tables as the desired schema has them,    *)
(* and drops with enable_drop.                                             *)
ComparedOf(cur, des, ed) ==
    {CreateTable(t, Fresh(cur, des)[t]) : t \in DOMAIN Fresh(cur, des)}
        \cup (IF ed THEN DropKeysOf(Gone(cur, des)) \cup DropsOf(Gone(cur, des)) ELSE {})

(* compare_tables plans every such operation once.                         *)
LEMMA CompareTablesLists ==
    ASSUME NEW cur, NEW des, IsSchema(cur), IsSchema(des), NEW ed \in BOOLEAN
    PROVE  Lists(CompareTables(cur, des, ed), ComparedOf(cur, des, ed))
<1> DEFINE fresh == Fresh(cur, des)
           gone == Gone(cur, des)
           X == DOMAIN des \ DOMAIN cur
           Y == DOMAIN gone
           created == InOrder(X)
           dropped == InOrder(Y)
           f == [t \in X |-> CreateTable(t, des[t])]
           g == [t \in Y |-> DropTable(t)]
           a == [i \in DOMAIN created |-> CreateTable(created[i], des[created[i]])]
           b == DropForeignKeys(gone)
           c == [i \in DOMAIN dropped |-> DropTable(dropped[i])]
           A == {CreateTable(t, fresh[t]) : t \in X}
           B == DropKeysOf(gone)
           C == DropsOf(gone)
<1>1. /\ DOMAIN fresh = X /\ \A t \in X : fresh[t] = des[t]
      /\ IsSchema(fresh) /\ IsSchema(gone)
  BY WithoutIsSchema DEF Fresh, Gone
<1>2. X \in SUBSET Table /\ Y \in SUBSET Table
  BY <1>1, SchemaFacts
<1>3. CompareTables(cur, des, ed) = a \o (IF ed THEN b \o c ELSE <<>>)
  BY DEF CompareTables, Gone
<1>4. Lists(a, A)
  <2>1. Lists(created, X)
    BY <1>2, TablesAreNumbers, InOrderLists
  <2> HIDE DEF created
  <2>2. \A i \in DOMAIN created : created[i] \in X
    BY <2>1 DEF Lists
  <2>3. a = [i \in DOMAIN created |-> f[created[i]]]
    BY <2>2
  <2>4. \A t, u \in X : f[t] = f[u] => t = u
    <3>1. \A t \in X : f[t].table = t
      BY DEF CreateTable
    <3> HIDE DEF f
    <3> QED
      BY <3>1
  <2>5. A = {f[t] : t \in X}
    BY <1>1
  <2>6. DOMAIN f = X
    OBVIOUS
  <2> HIDE DEF f, a, A, X
  <2>7. Lists([i \in DOMAIN created |-> f[created[i]]], {f[t] : t \in X})
    BY <2>1, <2>4, <2>6, MappedLists
  <2> QED
    BY <2>3, <2>5, <2>7
<1>5. Lists(b, B)
  BY <1>1, DropForeignKeysLists
<1>6. Lists(c, C)
  <2>1. Lists(dropped, Y)
    BY <1>2, TablesAreNumbers, InOrderLists
  <2> HIDE DEF dropped
  <2>2. \A i \in DOMAIN dropped : dropped[i] \in Y
    BY <2>1 DEF Lists
  <2>3. c = [i \in DOMAIN dropped |-> g[dropped[i]]]
    BY <2>2
  <2>4. \A t, u \in Y : g[t] = g[u] => t = u
    <3>1. \A t \in Y : g[t].table = t
      BY DEF DropTable
    <3> HIDE DEF g
    <3> QED
      BY <3>1
  <2>5. C = {g[t] : t \in Y}
    BY DEF DropsOf
  <2>6. DOMAIN g = Y
    OBVIOUS
  <2> HIDE DEF g, c, C, Y
  <2>7. Lists([i \in DOMAIN dropped |-> g[dropped[i]]], {g[t] : t \in Y})
    BY <2>1, <2>4, <2>6, MappedLists
  <2> QED
    BY <2>3, <2>5, <2>7
<1>7. /\ \A x \in A : x.kind = "CreateTable"
      /\ \A x \in B : x.kind = "DropForeignKey"
      /\ \A x \in C : x.kind = "DropTable"
  BY DEF DropKeysOf, DropsOf, CreateTable, DropForeignKey, DropTable
<1>8. ComparedOf(cur, des, ed) = A \cup (IF ed THEN B \cup C ELSE {})
  BY <1>1 DEF ComparedOf
<1> HIDE DEF a, b, c, A, B, C, fresh, gone, X, Y
<1>9. A \cap B = {} /\ A \cap C = {} /\ B \cap C = {} /\ A \cap (B \cup C) = {}
  BY <1>7
<1>10. Lists(b \o c, B \cup C)
  BY <1>5, <1>6, <1>9, ConcatenationLists
<1>11. Lists(a \o (b \o c), A \cup (B \cup C))
  BY <1>4, <1>9, <1>10, ConcatenationLists
<1>12. Lists(a \o <<>>, A \cup {})
  <2>1. Lists(<<>>, {})
    BY DEF Lists
  <2>2. A \cap {} = {}
    OBVIOUS
  <2> QED
    BY <1>4, <2>1, <2>2, ConcatenationLists
<1> QED
  BY <1>3, <1>8, <1>11, <1>12

(* The operations of a kind are picked out of a list.                      *)
LEMMA OfKindLists ==
    ASSUME NEW S, NEW s, Lists(s, S), NEW kind
    PROVE  Lists(OfKind(s, kind), {x \in S : x.kind = kind})
<1> DEFINE at == {i \in DOMAIN s : s[i].kind = kind}
<1>1. Lists(Picked(s, at), {s[i] : i \in at})
  BY PickedLists
<1>2. {s[i] : i \in at} = {x \in S : x.kind = kind}
  BY DEF Lists
<1> QED
  BY <1>1, <1>2 DEF OfKind

(* The tables of the plan that are created.                                *)
LEMMA CreatingIsFresh ==
    ASSUME NEW cur, NEW des, IsSchema(cur), IsSchema(des), NEW ed \in BOOLEAN
    PROVE  Creating(CompareTables(cur, des, ed)) = Fresh(cur, des)
<1> DEFINE s == CompareTables(cur, des, ed)
           all == ComparedOf(cur, des, ed)
           fresh == Fresh(cur, des)
           X == DOMAIN fresh
           p == OfKind(s, "CreateTable")
           At(t, i) == p[i].table = t
           position(t) == CHOOSE i \in DOMAIN p : At(t, i)
<1>1. IsSchema(fresh)
  BY WithoutIsSchema DEF Fresh
<1>2. Lists(p, {x \in all : x.kind = "CreateTable"})
  <2>1. Lists(s, all)
    BY CompareTablesLists
  <2> HIDE DEF s, all
  <2> QED
    BY <2>1, OfKindLists
<1>3. {x \in all : x.kind = "CreateTable"} = {CreateTable(t, fresh[t]) : t \in X}
  BY DEF ComparedOf, DropKeysOf, DropsOf, CreateTable, DropForeignKey, DropTable
<1>4. Creating(s) = [t \in {p[i].table : i \in DOMAIN p} |-> p[position(t)].keys]
  BY DEF Creating
<1> HIDE DEF s, all, fresh, p
<1>5. /\ \A i \in DOMAIN p : p[i].table \in X /\ p[i].keys = fresh[p[i].table]
      /\ \A t \in X : \E i \in DOMAIN p : p[i].table = t
  <2>1. /\ \A i \in DOMAIN p : p[i] \in {CreateTable(t, fresh[t]) : t \in X}
        /\ \A t \in X : \E i \in DOMAIN p : p[i] = CreateTable(t, fresh[t])
    <3> DEFINE made == {CreateTable(t, fresh[t]) : t \in X}
    <3>1. Lists(p, made)
      BY <1>2, <1>3
    <3>2. \A t \in X : CreateTable(t, fresh[t]) \in made
      OBVIOUS
    <3> HIDE DEF made
    <3>3. /\ \A i \in DOMAIN p : p[i] \in made
          /\ \A x \in made : \E i \in DOMAIN p : p[i] = x
      BY <3>1 DEF Lists
    <3> QED
      BY <3>2, <3>3 DEF made
  <2> QED
    BY <2>1 DEF CreateTable
<1>6. {p[i].table : i \in DOMAIN p} = X
  BY <1>5
<1>7. \A t \in X : position(t) \in DOMAIN p /\ p[position(t)].table = t
  <2>1. SUFFICES ASSUME NEW t \in X
                 PROVE  position(t) \in DOMAIN p /\ At(t, position(t))
    OBVIOUS
  <2>2. \E i \in DOMAIN p : At(t, i)
    BY <1>5
  <2> HIDE DEF At
  <2> QED
    BY <2>2
<1> HIDE DEF position
<1>8. \A t \in X : p[position(t)].keys = fresh[t]
  BY <1>5, <1>7
<1>9. fresh = [t \in X |-> fresh[t]]
  BY <1>1, SchemaFacts
<1> QED
  BY <1>4, <1>6, <1>8, <1>9 DEF s, fresh, p, position

(* apply_create_cycle_fallback leaves every other operation as it is.      *)
LEMMA FallbackLists ==
    ASSUME NEW cur, NEW des, IsSchema(cur), IsSchema(des), NEW ed \in BOOLEAN
    PROVE  Lists(ApplyCreateCycleFallback(CompareTables(cur, des, ed)), PlanOf(cur, des, ed))
<1> DEFINE s == CompareTables(cur, des, ed)
           all == ComparedOf(cur, des, ed)
           fresh == Fresh(cur, des)
           X == DOMAIN fresh
           Kept(op) == IF op.kind = "CreateTable"
                       THEN [op EXCEPT !.keys = @ \ CyclicKeys(fresh, op.table)]
                       ELSE op
           f == [op \in all |-> Kept(op)]
           a == Retained(s)
           b == MovedKeys(s)
           others == IF ed THEN DropKeysOf(Gone(cur, des)) \cup DropsOf(Gone(cur, des)) ELSE {}
           A == others \cup CreatesOf(fresh)
           B == AddsOf(fresh)
<1>1. Lists(s, all) /\ Creating(s) = fresh /\ IsSchema(fresh)
  BY CompareTablesLists, CreatingIsFresh, WithoutIsSchema DEF Fresh
<1>2. a = [i \in DOMAIN s |-> Kept(s[i])]
  BY <1>1 DEF Retained
<1>3. b = OnEachTable(X, [t \in X |-> OnEachKey(t, CyclicKeys(fresh, t), AddForeignKey)])
  BY <1>1 DEF MovedKeys
<1>4. Lists(b, B)
  BY <1>1, <1>3, AddForeignKeysLists
<1>5. all = {CreateTable(t, fresh[t]) : t \in X} \cup others
  BY DEF ComparedOf
<1>6. /\ \A t \in X : Kept(CreateTable(t, fresh[t])) = CreateTable(t, fresh[t] \ Moved(fresh, t))
      /\ \A op \in others : op.kind # "CreateTable" /\ Kept(op) = op
  <2>1. \A op \in others : op.kind # "CreateTable"
    BY DEF DropKeysOf, DropsOf, DropForeignKey, DropTable
  <2>2. \A op \in others : Kept(op) = op
    <3> HIDE DEF others
    <3> QED
      BY <2>1
  <2>3. \A t \in X : Kept(CreateTable(t, fresh[t])) = CreateTable(t, fresh[t] \ Moved(fresh, t))
    BY DEF CreateTable, Moved
  <2> QED
    BY <2>1, <2>2, <2>3
<1>7. \A op \in all : f[op].kind = op.kind /\ f[op].table = op.table
  <2>1. \A t \in X : f[CreateTable(t, fresh[t])] = CreateTable(t, fresh[t] \ Moved(fresh, t))
    BY <1>5, <1>6
  <2> QED
    BY <1>5, <1>6, <2>1 DEF CreateTable
<1> HIDE DEF s, all, others, a, b, Kept
<1>8. \A x, y \in all : f[x] = f[y] => x = y
  <2>1. SUFFICES ASSUME NEW x \in all, NEW y \in all, f[x] = f[y] PROVE x = y
    OBVIOUS
  <2>2. x.kind = y.kind /\ x.table = y.table
    BY <1>7, <2>1
  <2>3. CASE x.kind = "CreateTable"
    <3>1. PICK t \in X : x = CreateTable(t, fresh[t])
      BY <1>5, <1>6, <2>3
    <3>2. PICK u \in X : y = CreateTable(u, fresh[u])
      BY <1>5, <1>6, <2>2, <2>3
    <3>3. t = u
      BY <2>2, <3>1, <3>2 DEF CreateTable
    <3> QED
      BY <3>1, <3>2, <3>3
  <2>4. CASE x.kind # "CreateTable"
    <3>1. x \in others /\ y \in others
      BY <1>5, <2>2, <2>4 DEF CreateTable
    <3> QED
      BY <1>5, <1>6, <2>1, <3>1
  <2> QED
    BY <2>3, <2>4
<1>9. {f[x] : x \in all} = A
  <2>1. \A t \in X : f[CreateTable(t, fresh[t])] = CreateTable(t, fresh[t] \ Moved(fresh, t))
    BY <1>5, <1>6
  <2>2. \A op \in others : f[op] = op
    BY <1>5, <1>6
  <2> DEFINE before(t) == CreateTable(t, fresh[t])
             after(t) == CreateTable(t, fresh[t] \ Moved(fresh, t))
  <2>3. /\ \A t \in X : before(t) \in all /\ f[before(t)] = after(t)
        /\ \A x \in all : x \in others \/ \E t \in X : x = before(t)
        /\ others \subseteq all
        /\ CreatesOf(fresh) = {after(t) : t \in X}
    BY <1>5, <2>1 DEF CreatesOf
  <2> HIDE DEF f, before, after
  <2>4. \A x \in all : f[x] \in A
    BY <2>2, <2>3
  <2>5. \A y \in A : \E x \in all : f[x] = y
    BY <2>2, <2>3
  <2> QED
    BY <2>4, <2>5
<1>10. a = [i \in DOMAIN s |-> f[s[i]]]
  <2>1. \A i \in DOMAIN s : s[i] \in all
    BY <1>1 DEF Lists
  <2> QED
    BY <1>2, <2>1
<1>11. DOMAIN f = all
  OBVIOUS
<1> HIDE DEF f, A, B
<1>12. Lists(a, A)
  <2>1. Lists([i \in DOMAIN s |-> f[s[i]]], {f[x] : x \in all})
    BY <1>1, <1>8, <1>11, MappedLists
  <2> QED
    BY <1>9, <1>10, <2>1
<1>13. A \cap B = {}
  <2>1. \A x \in B : x.kind = "AddForeignKey"
    BY DEF B, AddsOf, AddForeignKey
  <2>2. \A x \in A : x.kind # "AddForeignKey"
    BY DEF A, others, CreatesOf, DropKeysOf, DropsOf, CreateTable, DropForeignKey, DropTable
  <2> QED
    BY <2>1, <2>2
<1>14. Lists(a \o b, A \cup B)
  BY <1>4, <1>12, <1>13, ConcatenationLists
<1>15. A \cup B = PlanOf(cur, des, ed)
  BY DEF A, B, others, PlanOf
<1> QED
  BY <1>14, <1>15 DEF ApplyCreateCycleFallback, a, b, s

(* A table is created after those the keys left in it reference: with the  *)
(* keys on cycles gone no cycle is in the way.                             *)
LEMMA SortCreateTablesLists ==
    ASSUME NEW fresh, IsSchema(fresh), NEW s, Lists(s, CreatesOf(fresh))
    PROVE  /\ Lists(SortCreateTables(s), CreatesOf(fresh))
           /\ \A x, y \in CreatesOf(fresh) :
                x.table # y.table /\ x.table \in Targets(y.keys) =>
                  ComesBefore(SortCreateTables(s), x, y)
<1> DEFINE S == CreatesOf(fresh)
           X == DOMAIN fresh
           graph == FkGraph(fresh)
           E == DOMAIN s
           d == [i \in E |-> {j \in E \ {i} : \E k \in s[i].keys : k.to = s[j].table}]
           p == SortByDependency(s, d)
<1>1. SortCreateTables(s) = p
  BY DEF SortCreateTables
<1>2. d \in [E -> SUBSET E]
  OBVIOUS
<1>3. /\ Lists(p, S)
      /\ Grounded(d, E) => \A i \in E : \A j \in d[i] : ComesBefore(p, s[j], s[i])
  <2> HIDE DEF d, S
  <2>1. Lists(s, S)
    BY DEF S
  <2> QED
    BY <1>2, <2>1, SortByDependencyLists
<1>4. /\ \A i \in E : s[i].table \in X /\ s[i].keys = fresh[s[i].table] \ Moved(fresh, s[i].table)
      /\ \A x \in S : \E i \in E : s[i] = x
      /\ \A i, j \in E : s[i].table = s[j].table => i = j
  <2>1. /\ \A i \in E : s[i] \in S
        /\ \A x \in S : \E i \in E : s[i] = x
        /\ \A i, j \in E : s[i] = s[j] => i = j
    BY DEF Lists
  <2>2. \A x \in S : /\ x.table \in X /\ x.keys = fresh[x.table] \ Moved(fresh, x.table)
                     /\ x = CreateTable(x.table, fresh[x.table] \ Moved(fresh, x.table))
    BY DEF CreatesOf, CreateTable
  <2> HIDE DEF S
  <2>3. \A i \in E : s[i].table \in X /\ s[i].keys = fresh[s[i].table] \ Moved(fresh, s[i].table)
    BY <2>1, <2>2
  <2>4. \A x, y \in S : x.table = y.table => x = y
    BY <2>2
  <2> HIDE DEF E
  <2>5. \A i, j \in E : s[i].table = s[j].table => i = j
    BY <2>1, <2>4
  <2> QED
    BY <2>1, <2>3, <2>5
<1> HIDE DEF E, p, S
<1>5. \A i \in E : \A j \in d[i] :
        /\ s[j].table \in graph[s[i].table]
        /\ ~CanReach(graph, s[j].table, s[i].table)
  <2>1. SUFFICES ASSUME NEW i \in E, NEW j \in d[i]
                 PROVE  /\ s[j].table \in graph[s[i].table]
                        /\ ~CanReach(graph, s[j].table, s[i].table)
    OBVIOUS
  <2> DEFINE t == s[i].table
             u == s[j].table
  <2>2. PICK k \in s[i].keys : k.to = u
    BY <2>1
  <2>3. j \in E /\ j # i
    BY <2>1
  <2>4. t \in X /\ u \in X /\ t # u /\ k \in fresh[t] /\ k \notin CyclicKeys(fresh, t)
    BY <1>4, <2>2, <2>3 DEF Moved
  <2>5. u \in graph[t]
    BY <2>2, <2>4 DEF FkGraph
  <2> QED
    BY <2>2, <2>4, <2>5 DEF CyclicKeys
<1>6. Grounded(d, E)
  <2>1. SUFFICES ASSUME NEW B \in SUBSET E, B # {} PROVE \E i \in B : d[i] \cap B = {}
    BY <1>2 DEF Grounded
  <2> DEFINE C == {s[i].table : i \in B}
  <2>2. C \in SUBSET X /\ C # {}
    BY <1>4, <2>1
  <2>3. IsFiniteSet(X) /\ graph \in [X -> SUBSET X]
    BY SchemaFacts
  <2> HIDE DEF graph, X
  <2>4. PICK t \in C : \A u \in graph[t] \cap C : CanReach(graph, u, t)
    <3> HIDE DEF C
    <3> QED
      BY <2>2, <2>3, OthersHaveNoCycle
  <2>5. PICK i \in B : s[i].table = t
    BY <2>4
  <2>6. \A j \in d[i] \cap B : FALSE
    BY <1>5, <2>4, <2>5
  <2> QED
    BY <2>6
<1>7. ASSUME NEW x \in S, NEW y \in S, x.table # y.table, x.table \in Targets(y.keys)
      PROVE  ComesBefore(p, x, y)
  <2>1. PICK j \in E : s[j] = x
    BY <1>4
  <2>2. PICK i \in E : s[i] = y
    BY <1>4
  <2>3. PICK k \in y.keys : k.to = x.table
    BY <1>7 DEF Targets
  <2>4. j \in d[i]
    BY <1>7, <2>1, <2>2, <2>3
  <2> QED
    BY <1>3, <1>6, <2>1, <2>2, <2>4
<1> QED
  BY <1>1, <1>3, <1>7 DEF S, p

(* The operations in the order they are applied in.                        *)
LEMMA DiffRespects ==
    ASSUME NEW cur, NEW des, IsSchema(cur), IsSchema(des), NEW ed \in BOOLEAN
    PROVE  Respects(Diff(cur, des, ed), PlanOf(cur, des, ed))
<1> DEFINE s == ApplyCreateCycleFallback(CompareTables(cur, des, ed))
           all == PlanOf(cur, des, ed)
           fresh == Fresh(cur, des)
           A == {x \in all : x.kind = "DropForeignKey"}
           B == {x \in all : x.kind = "DropTable"}
           C == {x \in all : x.kind = "CreateTable"}
           D == {x \in all : x.kind = "AddForeignKey"}
           a == OfKind(s, "DropForeignKey")
           b == OfKind(s, "DropTable")
           c == SortCreateTables(OfKind(s, "CreateTable"))
           d == OfKind(s, "AddForeignKey")
<1>1. Lists(s, all) /\ IsSchema(fresh)
  BY FallbackLists, WithoutIsSchema DEF Fresh
<1>2. C = CreatesOf(fresh) /\ all = ((A \cup B) \cup C) \cup D
  <2>1. /\ \A x \in DropKeysOf(Gone(cur, des)) : x.kind = "DropForeignKey"
        /\ \A x \in DropsOf(Gone(cur, des)) : x.kind = "DropTable"
        /\ \A x \in CreatesOf(fresh) : x.kind = "CreateTable"
        /\ \A x \in AddsOf(fresh) : x.kind = "AddForeignKey"
    BY DEF DropKeysOf, DropsOf, CreatesOf, AddsOf,
           DropForeignKey, DropTable, CreateTable, AddForeignKey
  <2> QED
    BY <2>1 DEF PlanOf
<1>3. Diff(cur, des, ed) = ((a \o b) \o c) \o d
  BY DEF Diff, SortTableOps
<1> HIDE DEF s, all
<1>4. Lists(a, A) /\ Lists(b, B) /\ Lists(d, D)
  BY <1>1, OfKindLists
<1>5. /\ Lists(c, C)
      /\ \A x, y \in C : x.table # y.table /\ x.table \in Targets(y.keys) => ComesBefore(c, x, y)
  <2> DEFINE o == OfKind(s, "CreateTable")
  <2>1. Lists(o, C)
    BY <1>1, OfKindLists
  <2> HIDE DEF o, C
  <2>2. Lists(o, CreatesOf(fresh))
    BY <1>2, <2>1
  <2>3. /\ Lists(SortCreateTables(o), CreatesOf(fresh))
        /\ \A x, y \in CreatesOf(fresh) :
             x.table # y.table /\ x.table \in Targets(y.keys) =>
               ComesBefore(SortCreateTables(o), x, y)
    BY <1>1, <2>2, SortCreateTablesLists
  <2> QED
    BY <1>2, <2>3 DEF o
<1>6. A \cap B = {} /\ (A \cup B) \cap C = {} /\ ((A \cup B) \cup C) \cap D = {}
  OBVIOUS
<1>7. \A x \in all : (x \in A <=> x.kind = "DropForeignKey") /\ (x \in B <=> x.kind = "DropTable")
                     /\ (x \in C <=> x.kind = "CreateTable") /\ (x \in D <=> x.kind = "AddForeignKey")
  OBVIOUS
<1> HIDE DEF a, b, c, d, A, B, C, D
<1>8. /\ Lists(a \o b, A \cup B)
      /\ \A x, y : x \in A /\ y \in B => ComesBefore(a \o b, x, y)
  BY <1>4, <1>6, ConcatenationLists
<1>9. /\ Lists((a \o b) \o c, (A \cup B) \cup C)
      /\ \A x, y : ComesBefore(a \o b, x, y) \/ ComesBefore(c, x, y) \/ (x \in A \cup B /\ y \in C)
                     => ComesBefore((a \o b) \o c, x, y)
  BY <1>5, <1>6, <1>8, ConcatenationLists
<1>10. /\ Lists(((a \o b) \o c) \o d, ((A \cup B) \cup C) \cup D)
       /\ \A x, y : ComesBefore((a \o b) \o c, x, y) \/ (x \in (A \cup B) \cup C /\ y \in D)
                      => ComesBefore(((a \o b) \o c) \o d, x, y)
  BY <1>4, <1>6, <1>9, ConcatenationLists
<1> DEFINE plan == ((a \o b) \o c) \o d
<1>11. ASSUME NEW x \in all, NEW y \in all, Precedes(x, y)
       PROVE  ComesBefore(plan, x, y)
  <2>1. y \in A \/ y \in B \/ y \in C \/ y \in D
    BY <1>2
  <2>2. CASE x.kind = "DropForeignKey" /\ y.kind # "DropForeignKey"
    <3>1. x \in A /\ y \notin A
      BY <1>7, <2>2
    <3> QED
      BY <1>8, <1>9, <1>10, <2>1, <3>1
  <2>3. CASE x.kind = "DropTable" /\ y.kind \in {"CreateTable", "AddForeignKey"}
    <3>1. x \in B /\ y \in C \cup D
      BY <1>7, <2>3
    <3> QED
      BY <1>9, <1>10, <3>1
  <2>4. CASE x.kind = "CreateTable" /\ y.kind = "AddForeignKey"
    <3>1. x \in C /\ y \in D
      BY <1>7, <2>4
    <3> QED
      BY <1>10, <3>1
  <2>5. CASE /\ x.kind = "CreateTable" /\ y.kind = "CreateTable"
             /\ x.table # y.table /\ x.table \in Targets(y.keys)
    <3>1. x \in C /\ y \in C
      BY <1>7, <2>5
    <3> QED
      BY <1>5, <1>9, <1>10, <2>5, <3>1
  <2> QED
    BY <1>11, <2>2, <2>3, <2>4, <2>5 DEF Precedes
<1> QED
  BY <1>2, <1>3, <1>10, <1>11 DEF Respects, all

-------------------------------------------------------------------------------
(* A run of the plan                                                       *)

(* The tables, and the keys of a table, that applied operations of a kind  *)
(* are about.                                                              *)
TablesIn(applied, kind) == {op.table : op \in {o \in applied : o.kind = kind}}
KeysOf(applied, kind, t) ==
    UNION {op.keys : op \in {o \in applied : o.kind = kind /\ o.table = t}}

DbAfter(cur, applied) ==
    [t \in (DOMAIN cur \ TablesIn(applied, "DropTable")) \cup TablesIn(applied, "CreateTable") |->
        IF t \in DOMAIN cur
        THEN cur[t] \ KeysOf(applied, "DropForeignKey", t)
        ELSE KeysOf(applied, "CreateTable", t) \cup KeysOf(applied, "AddForeignKey", t)]

OrderOf(all) == {p \in all \X all : Precedes(p[1], p[2])}

Planned == PlanOf(current, desired, enableDrop)

(* Where a run of a plan stands: what is left of it keeps the order, and   *)
(* the database is what the applied operations make of the exported one.   *)
Stands ==
    /\ Remains(ops, Planned, OrderOf(Planned))
    /\ db = DbAfter(current, Planned \ EntriesOf(ops))

RunInv ==
    /\ \E in \in Inputs : current = in[1] /\ desired = in[2]
    /\ enableDrop \in BOOLEAN
    /\ pc \in {"diff", "apply", "rejected", "done"}
    /\ pc = "diff" => ops = <<>> /\ db = current
    /\ pc # "diff" => Stands
    /\ pc = "done" => ops = <<>>
    /\ pc = "rejected" => ops # <<>> /\ ~Accepts(Head(ops))

(* The operations of a plan.                                               *)
IsDropKey(op, gone) ==
    /\ op.kind = "DropForeignKey" /\ op.table \in DOMAIN gone
    /\ \E k \in Named(gone, op.table) : op = DropForeignKey(op.table, k) /\ op.keys = {k}
IsDrop(op, gone) ==
    op.kind = "DropTable" /\ op.table \in DOMAIN gone /\ op = DropTable(op.table)
IsCreate(op, fresh) ==
    /\ op.kind = "CreateTable" /\ op.table \in DOMAIN fresh
    /\ op.keys = fresh[op.table] \ Moved(fresh, op.table)
    /\ op = CreateTable(op.table, op.keys)
IsAdd(op, fresh) ==
    /\ op.kind = "AddForeignKey" /\ op.table \in DOMAIN fresh
    /\ \E k \in Moved(fresh, op.table) : op = AddForeignKey(op.table, k) /\ op.keys = {k}

(* There is no other operation in a plan.                                  *)
LEMMA PlanOperations ==
    ASSUME NEW cur, NEW des, NEW ed \in BOOLEAN, NEW op \in PlanOf(cur, des, ed)
    PROVE  \/ IsDropKey(op, Gone(cur, des)) /\ ed
           \/ IsDrop(op, Gone(cur, des)) /\ ed
           \/ IsCreate(op, Fresh(cur, des))
           \/ IsAdd(op, Fresh(cur, des))
<1>1. CASE op \in CreatesOf(Fresh(cur, des))
  BY <1>1 DEF CreatesOf, CreateTable, IsCreate
<1>2. CASE op \in AddsOf(Fresh(cur, des))
  BY <1>2 DEF AddsOf, AddForeignKey, IsAdd
<1>3. CASE op \in DropKeysOf(Gone(cur, des)) /\ ed
  BY <1>3 DEF DropKeysOf, DropForeignKey, IsDropKey
<1>4. CASE op \in DropsOf(Gone(cur, des)) /\ ed
  BY <1>4 DEF DropsOf, DropTable, IsDrop
<1> QED
  BY <1>1, <1>2, <1>3, <1>4 DEF PlanOf

(* There is an operation for every table and key that goes or comes.       *)
LEMMA PlanHasOperations ==
    ASSUME NEW cur, NEW des, NEW ed \in BOOLEAN
    PROVE  LET all == PlanOf(cur, des, ed)
               gone == Gone(cur, des)
               fresh == Fresh(cur, des)
           IN /\ ed => \A t \in DOMAIN gone : DropTable(t) \in all
              /\ ed => \A t \in DOMAIN gone : \A k \in Named(gone, t) : DropForeignKey(t, k) \in all
              /\ \A t \in DOMAIN fresh : CreateTable(t, fresh[t] \ Moved(fresh, t)) \in all
              /\ \A t \in DOMAIN fresh : \A k \in Moved(fresh, t) : AddForeignKey(t, k) \in all
<1>1. ed => \A t \in DOMAIN Gone(cur, des) : DropTable(t) \in PlanOf(cur, des, ed)
  BY DEF PlanOf, DropsOf
<1>2. ed => \A t \in DOMAIN Gone(cur, des) : \A k \in Named(Gone(cur, des), t) :
                DropForeignKey(t, k) \in PlanOf(cur, des, ed)
  BY DEF PlanOf, DropKeysOf
<1>3. \A t \in DOMAIN Fresh(cur, des) :
         CreateTable(t, Fresh(cur, des)[t] \ Moved(Fresh(cur, des), t)) \in PlanOf(cur, des, ed)
  BY DEF PlanOf, CreatesOf
<1>4. \A t \in DOMAIN Fresh(cur, des) : \A k \in Moved(Fresh(cur, des), t) :
         AddForeignKey(t, k) \in PlanOf(cur, des, ed)
  BY DEF PlanOf, AddsOf
<1> QED
  BY <1>1, <1>2, <1>3, <1>4

(* What is left of a plan: an operation still to be applied is followed by *)
(* all that have to wait for it.                                           *)
LEMMA HeadOfPlan ==
    ASSUME NEW all, Remains(ops, all, OrderOf(all)), ops # <<>>
    PROVE  /\ Head(ops) \in EntriesOf(ops) /\ Head(ops) \in all
           /\ EntriesOf(Tail(ops)) = EntriesOf(ops) \ {Head(ops)}
           /\ Remains(Tail(ops), all, OrderOf(all))
           /\ \A x \in all : Precedes(x, Head(ops)) => x \notin EntriesOf(ops)
           /\ \A x \in all : Precedes(Head(ops), x) => x \in EntriesOf(ops)
<1> DEFINE R == OrderOf(all)
           left == EntriesOf(ops)
           op == Head(ops)
<1>1. /\ op \in left /\ op \in all
      /\ EntriesOf(Tail(ops)) = left \ {op}
      /\ Remains(Tail(ops), all, R)
      /\ \A first \in R : first[2] = op => first[1] \notin left
  <2> HIDE DEF R
  <2> QED
    BY TailRemains DEF R
<1>2. \A first \in R : first[1] \in left => first[2] \in left
  <2>1. \A first \in R : first[1] \in left => ComesBefore(ops, first[1], first[2]) /\ Lists(ops, left)
    BY DEF Remains
  <2> HIDE DEF R
  <2> QED
    BY <2>1, BeforeIsStrict
<1>3. \A x, y \in all : Precedes(x, y) => <<x, y>> \in R
  BY DEF OrderOf
<1> HIDE DEF R, left, op
<1>4. \A x \in all : Precedes(x, op) => x \notin left
  BY <1>1, <1>3
<1>5. \A x \in all : Precedes(op, x) => x \in left
  BY <1>1, <1>2, <1>3
<1> QED
  BY <1>1, <1>4, <1>5 DEF R, left, op

(* What one more operation adds.                                           *)
OneMore(done, op, next) ==
    \A kind :
        /\ TablesIn(next, kind)
             = TablesIn(done, kind) \cup (IF op.kind = kind THEN {op.table} ELSE {})
        /\ \A t : KeysOf(next, kind, t)
             = KeysOf(done, kind, t) \cup (IF op.kind = kind /\ op.table = t THEN op.keys ELSE {})

(* The record of what is applied grows by that operation alone.            *)
LEMMA OneMoreApplied ==
    ASSUME NEW done, NEW op
    PROVE  OneMore(done, op, done \cup {op})
<1>1. ASSUME NEW kind
      PROVE  TablesIn(done \cup {op}, kind)
               = TablesIn(done, kind) \cup (IF op.kind = kind THEN {op.table} ELSE {})
  BY DEF TablesIn
<1>2. ASSUME NEW kind, NEW t
      PROVE  KeysOf(done \cup {op}, kind, t)
               = KeysOf(done, kind, t) \cup (IF op.kind = kind /\ op.table = t THEN op.keys ELSE {})
  <2>1. CASE op.kind = kind /\ op.table = t
    <3>1. {o \in done \cup {op} : o.kind = kind /\ o.table = t}
            = {o \in done : o.kind = kind /\ o.table = t} \cup {op}
      BY <2>1
    <3> QED
      BY <2>1, <3>1 DEF KeysOf
  <2>2. CASE ~(op.kind = kind /\ op.table = t)
    <3>1. {o \in done \cup {op} : o.kind = kind /\ o.table = t}
            = {o \in done : o.kind = kind /\ o.table = t}
      BY <2>2
    <3> QED
      BY <2>2, <3>1 DEF KeysOf
  <2> QED
    BY <2>1, <2>2
<1> QED
  BY <1>1, <1>2 DEF OneMore

(* An operation takes the database from what the plan has made of it so    *)
(* far to what it makes of it next, accepted or not.                       *)
LEMMA ApplyKeepsStanding ==
    ASSUME RunInv, Stands, Apply
    PROVE  Stands'
<1> DEFINE cur == current
           des == desired
           all == Planned
           left == EntriesOf(ops)
           op == Head(ops)
           done == all \ left
           next == all \ EntriesOf(Tail(ops))
           gone == Gone(cur, des)
           fresh == Fresh(cur, des)
<1>1. /\ ops # <<>> /\ ops' = Tail(ops) /\ db' = Effect(op)
      /\ UNCHANGED <<current, desired, enableDrop>>
  BY DEF Apply
<1>2. /\ Remains(ops, all, OrderOf(all)) /\ db = DbAfter(cur, done)
      /\ enableDrop \in BOOLEAN /\ IsSchema(cur) /\ IsSchema(des)
  BY InputsAssumption DEF Stands, RunInv
<1>3. /\ op \in left /\ op \in all
      /\ EntriesOf(Tail(ops)) = left \ {op}
      /\ Remains(Tail(ops), all, OrderOf(all))
      /\ \A x \in all : Precedes(op, x) => x \in left
  <2> HIDE DEF all
  <2> QED
    BY <1>1, <1>2, HeadOfPlan
<1>4. next = done \cup {op}
  BY <1>3
<1>5. DOMAIN gone = DOMAIN cur \ DOMAIN des /\ DOMAIN fresh = DOMAIN des \ DOMAIN cur
  BY <1>2, WithoutIsSchema DEF Gone, Fresh
<1>6. \A o \in all : \/ IsDropKey(o, gone) \/ IsDrop(o, gone)
                     \/ IsCreate(o, fresh) \/ IsAdd(o, fresh)
  BY <1>2, PlanOperations DEF Planned
<1> HIDE DEF all, left, gone, fresh
<1> DEFINE D == (DOMAIN cur \ TablesIn(done, "DropTable")) \cup TablesIn(done, "CreateTable")
           V(t) == IF t \in DOMAIN cur
                   THEN cur[t] \ KeysOf(done, "DropForeignKey", t)
                   ELSE KeysOf(done, "CreateTable", t) \cup KeysOf(done, "AddForeignKey", t)
           D1 == (DOMAIN cur \ TablesIn(next, "DropTable")) \cup TablesIn(next, "CreateTable")
           V1(t) == IF t \in DOMAIN cur
                    THEN cur[t] \ KeysOf(next, "DropForeignKey", t)
                    ELSE KeysOf(next, "CreateTable", t) \cup KeysOf(next, "AddForeignKey", t)
<1>7. DOMAIN db = D /\ \A t \in D : db[t] = V(t)
  BY <1>2 DEF DbAfter
<1>8. \A kind :
        /\ TablesIn(next, kind)
             = TablesIn(done, kind) \cup (IF op.kind = kind THEN {op.table} ELSE {})
        /\ \A t : KeysOf(next, kind, t)
             = KeysOf(done, kind, t) \cup (IF op.kind = kind /\ op.table = t THEN op.keys ELSE {})
  <2> HIDE DEF op, done, next
  <2>1. OneMore(done, op, next)
    BY <1>4, OneMoreApplied
  <2> QED
    BY <2>1 DEF OneMore
<1>9. \A o \in done : o \in all /\ o \notin left
  OBVIOUS
<1> HIDE DEF op, done, next
<1> DEFINE More(kind) ==
             /\ TablesIn(next, kind)
                  = TablesIn(done, kind) \cup (IF op.kind = kind THEN {op.table} ELSE {})
             /\ \A t : KeysOf(next, kind, t)
                  = KeysOf(done, kind, t) \cup (IF op.kind = kind /\ op.table = t THEN op.keys ELSE {})
<1>a. /\ More("DropForeignKey") /\ More("DropTable")
      /\ More("CreateTable") /\ More("AddForeignKey")
  BY <1>8
<1>10. db' = [t \in D1 |-> V1(t)]
  <2>1. CASE IsDropKey(op, gone)
    <3>1. op.kind = "DropForeignKey" /\ op.table \in DOMAIN cur
      BY <1>5, <2>1 DEF IsDropKey
    <3>2. db' = [db EXCEPT ![op.table] = @ \ op.keys]
      BY <1>1, <3>1 DEF Effect
    <3>3. D1 = D
      BY <1>a, <3>1
    <3>4. ASSUME NEW t \in D
          PROVE  V1(t) = IF t = op.table THEN V(t) \ op.keys ELSE V(t)
      <4>1. /\ KeysOf(next, "CreateTable", t) = KeysOf(done, "CreateTable", t)
            /\ KeysOf(next, "AddForeignKey", t) = KeysOf(done, "AddForeignKey", t)
        BY <1>a, <3>1
      <4>2. KeysOf(next, "DropForeignKey", t)
              = KeysOf(done, "DropForeignKey", t) \cup (IF op.table = t THEN op.keys ELSE {})
        BY <1>a, <3>1
      <4> QED
        BY <3>1, <4>1, <4>2
    <3> HIDE DEF D, D1, V, V1
    <3>5. db' = [t \in D |-> IF t = op.table THEN V(t) \ op.keys ELSE V(t)]
      BY <1>7, <3>2
    <3> QED
      BY <3>3, <3>4, <3>5
  <2>2. CASE IsDrop(op, gone)
    <3>1. op.kind = "DropTable" /\ op.table \in DOMAIN cur \ DOMAIN des
      BY <1>5, <2>2 DEF IsDrop
    <3>2. db' = [t \in DOMAIN db \ {op.table} |-> db[t]]
      BY <1>1, <3>1 DEF Effect, Without
    <3>3. op.table \notin TablesIn(done, "CreateTable")
      <4>1. SUFFICES ASSUME NEW o \in done, o.kind = "CreateTable", o.table = op.table
                     PROVE  FALSE
        BY DEF TablesIn
      <4>2. IsCreate(o, fresh)
        BY <1>6, <1>9, <4>1 DEF IsDropKey, IsDrop, IsAdd
      <4> QED
        BY <1>5, <3>1, <4>1, <4>2 DEF IsCreate
    <3>4. D1 = D \ {op.table}
      BY <1>a, <3>1, <3>3
    <3>5. ASSUME NEW t \in D PROVE V1(t) = V(t)
      <4>1. /\ KeysOf(next, "DropForeignKey", t) = KeysOf(done, "DropForeignKey", t)
            /\ KeysOf(next, "CreateTable", t) = KeysOf(done, "CreateTable", t)
            /\ KeysOf(next, "AddForeignKey", t) = KeysOf(done, "AddForeignKey", t)
        BY <1>a, <3>1
      <4> QED
        BY <4>1
    <3> HIDE DEF D, D1, V, V1
    <3> QED
      BY <1>7, <3>2, <3>4, <3>5
  <2>3. CASE IsCreate(op, fresh)
    <3>1. op.kind = "CreateTable" /\ op.table \notin DOMAIN cur
      BY <1>5, <2>3 DEF IsCreate
    <3>2. db' = [t \in DOMAIN db \cup {op.table} |-> IF t = op.table THEN op.keys ELSE db[t]]
      BY <1>1, <3>1 DEF Effect
    <3>3. KeysOf(done, "CreateTable", op.table) = {}
      <4>1. SUFFICES ASSUME NEW o \in done, o.kind = "CreateTable", o.table = op.table
                     PROVE  FALSE
        BY DEF KeysOf
      <4>2. IsCreate(o, fresh)
        BY <1>6, <1>9, <4>1 DEF IsDropKey, IsDrop, IsAdd
      <4>3. o = op
        BY <2>3, <4>1, <4>2 DEF IsCreate
      <4> QED
        BY <1>3, <1>9, <4>3
    <3>4. KeysOf(done, "AddForeignKey", op.table) = {}
      <4>1. SUFFICES ASSUME NEW o \in done, o.kind = "AddForeignKey"
                     PROVE  FALSE
        BY DEF KeysOf
      <4>2. Precedes(op, o)
        BY <3>1, <4>1 DEF Precedes
      <4> QED
        BY <1>3, <1>9, <4>2
    <3>5. D1 = D \cup {op.table}
      BY <1>a, <3>1
    <3>6. ASSUME NEW t \in D1
          PROVE  V1(t) = IF t = op.table THEN op.keys ELSE V(t)
      <4>1. /\ KeysOf(next, "DropForeignKey", t) = KeysOf(done, "DropForeignKey", t)
            /\ KeysOf(next, "AddForeignKey", t) = KeysOf(done, "AddForeignKey", t)
        BY <1>a, <3>1
      <4>2. KeysOf(next, "CreateTable", t)
              = KeysOf(done, "CreateTable", t) \cup (IF op.table = t THEN op.keys ELSE {})
        BY <1>a, <3>1
      <4> QED
        BY <3>1, <3>3, <3>4, <4>1, <4>2
    <3> HIDE DEF D, D1, V, V1
    <3> QED
      BY <1>7, <3>2, <3>5, <3>6
  <2>4. CASE IsAdd(op, fresh)
    <3>1. op.kind = "AddForeignKey" /\ op.table \notin DOMAIN cur
      BY <1>5, <2>4 DEF IsAdd
    <3>2. db' = [db EXCEPT ![op.table] = @ \cup op.keys]
      BY <1>1, <3>1 DEF Effect
    <3>3. D1 = D
      BY <1>a, <3>1
    <3>4. ASSUME NEW t \in D
          PROVE  V1(t) = IF t = op.table THEN V(t) \cup op.keys ELSE V(t)
      <4>1. /\ KeysOf(next, "DropForeignKey", t) = KeysOf(done, "DropForeignKey", t)
            /\ KeysOf(next, "CreateTable", t) = KeysOf(done, "CreateTable", t)
        BY <1>a, <3>1
      <4>2. KeysOf(next, "AddForeignKey", t)
              = KeysOf(done, "AddForeignKey", t) \cup (IF op.table = t THEN op.keys ELSE {})
        BY <1>a, <3>1
      <4> QED
        BY <3>1, <4>1, <4>2
    <3> HIDE DEF D, D1, V, V1
    <3>5. db' = [t \in D |-> IF t = op.table THEN V(t) \cup op.keys ELSE V(t)]
      BY <1>7, <3>2
    <3> QED
      BY <3>3, <3>4, <3>5
  <2> QED
    BY <1>3, <1>6, <2>1, <2>2, <2>3, <2>4
<1>11. db' = DbAfter(cur, next)
  BY <1>10 DEF DbAfter
<1>12. Planned' = Planned
  BY <1>1 DEF Planned
<1> QED
  BY <1>1, <1>3, <1>11, <1>12 DEF Stands, next, all

(* A plan starts with nothing applied.                                     *)
LEMMA PlanStands ==
    ASSUME RunInv, Plan
    PROVE  Stands'
<1> DEFINE all == Planned
           plan == Diff(current, desired, enableDrop)
<1>1. /\ IsSchema(current) /\ IsSchema(desired) /\ enableDrop \in BOOLEAN
      /\ db' = current /\ ops' = plan
      /\ UNCHANGED <<current, desired, enableDrop>>
  BY InputsAssumption DEF RunInv, Plan
<1>2. /\ Lists(plan, all)
      /\ \A x, y \in all : Precedes(x, y) => ComesBefore(plan, x, y)
  BY <1>1, DiffRespects DEF Respects, Planned
<1>3. Planned' = Planned
  BY <1>1 DEF Planned
<1> HIDE DEF all, plan
<1>4. EntriesOf(plan) = all
  BY <1>2 DEF Lists, EntriesOf
<1>5. Remains(plan, all, OrderOf(all))
  <2>1. \A first \in OrderOf(all) : ComesBefore(plan, first[1], first[2])
    BY <1>2 DEF OrderOf
  <2> QED
    BY <1>2, <1>4, <2>1 DEF Remains
<1>6. DbAfter(current, all \ all) = current
  <2>1. /\ TablesIn(all \ all, "DropTable") = {} /\ TablesIn(all \ all, "CreateTable") = {}
        /\ \A t : KeysOf(all \ all, "DropForeignKey", t) = {}
    BY DEF TablesIn, KeysOf
  <2>2. DbAfter(current, all \ all) = [t \in DOMAIN current |-> current[t]]
    BY <2>1 DEF DbAfter
  <2> QED
    BY <1>1, <2>2, SchemaFacts
<1> QED
  BY <1>1, <1>3, <1>4, <1>5, <1>6 DEF Stands, all

(* RunInv holds throughout.                                                *)
LEMMA InitRunInv == Init => RunInv
  BY DEF Init, RunInv

(* Every step keeps it.                                                    *)
LEMMA NextRunInv == RunInv /\ [Next]_vars => RunInv'
<1>1. SUFFICES ASSUME RunInv, [Next]_vars PROVE RunInv'
  OBVIOUS
<1>2. CASE Plan
  <2>1. Stands'
    BY <1>1, <1>2, PlanStands
  <2> QED
    BY <1>1, <1>2, <2>1 DEF Plan, RunInv
<1>3. CASE Apply
  <2>1. Stands
    BY <1>1, <1>3 DEF Apply, RunInv
  <2>2. Stands'
    BY <1>1, <1>3, <2>1, ApplyKeepsStanding
  <2> QED
    BY <1>1, <1>3, <2>2 DEF Apply, RunInv
<1>4. CASE Reject \/ Finish \/ UNCHANGED vars
  <2>0. UNCHANGED <<current, desired, enableDrop, ops, db>>
    BY <1>4 DEF Reject, Finish, vars
  <2>1. Stands' = Stands /\ Accepts(Head(ops))' = Accepts(Head(ops))
    BY <2>0 DEF Stands, Planned, Accepts
  <2>2. CASE Reject
    BY <1>1, <2>0, <2>1, <2>2 DEF Reject, RunInv
  <2>3. CASE Finish
    BY <1>1, <2>0, <2>1, <2>3 DEF Finish, RunInv
  <2>4. CASE UNCHANGED vars
    BY <1>1, <2>1, <2>4 DEF RunInv, vars
  <2> QED
    BY <1>4, <2>2, <2>3, <2>4
<1> QED
  BY <1>1, <1>2, <1>3, <1>4 DEF Next, Terminated

(* A run of a plan stands where the operations applied so far have taken   *)
(* it.                                                                     *)
THEOREM RunInvariant == Spec => []RunInv
  BY InitRunInv, NextRunInv, PTL DEF Spec

-------------------------------------------------------------------------------
(* What follows from where the run stands                                  *)

(* What the operations of `done` have done to the tables that go, come and *)
(* stay, and what they have done once all of a kind in `all` are applied.  *)
Applied(all, done, gone, fresh, stay, ed) ==
    /\ TablesIn(done, "DropTable") \subseteq (IF ed THEN DOMAIN gone ELSE {})
    /\ TablesIn(done, "CreateTable") \subseteq DOMAIN fresh
    /\ \A t \in stay : KeysOf(done, "DropForeignKey", t) = {}
    /\ ~ed => \A t : KeysOf(done, "DropForeignKey", t) = {}
    /\ ed /\ (\A op \in all : op.kind = "DropTable" => op \in done) =>
          DOMAIN gone \subseteq TablesIn(done, "DropTable")
    /\ ed /\ (\A op \in all : op.kind = "DropForeignKey" => op \in done) =>
          \A t \in DOMAIN gone : KeysOf(done, "DropForeignKey", t) = Named(gone, t)
    /\ (\A op \in all : op.kind = "CreateTable" => op \in done) =>
          /\ TablesIn(done, "CreateTable") = DOMAIN fresh
          /\ \A t \in DOMAIN fresh :
               KeysOf(done, "CreateTable", t) = fresh[t] \ Moved(fresh, t)
    /\ (\A op \in all : op.kind = "AddForeignKey" => op \in done) =>
          \A t \in DOMAIN fresh : KeysOf(done, "AddForeignKey", t) = Moved(fresh, t)

LEMMA AllOfAKind ==
    ASSUME NEW cur, NEW des, IsSchema(cur), IsSchema(des), NEW ed \in BOOLEAN,
           NEW done \in SUBSET PlanOf(cur, des, ed)
    PROVE  Applied(PlanOf(cur, des, ed), done, Gone(cur, des), Fresh(cur, des),
                   DOMAIN cur \cap DOMAIN des, ed)
<1> DEFINE all == PlanOf(cur, des, ed)
           gone == Gone(cur, des)
           fresh == Fresh(cur, des)
<1>1. DOMAIN gone = DOMAIN cur \ DOMAIN des /\ DOMAIN fresh = DOMAIN des \ DOMAIN cur
  BY WithoutIsSchema DEF Gone, Fresh
<1>2. \A op \in done : op \in all
  OBVIOUS
<1>3. \A op \in all : \/ IsDropKey(op, gone) /\ ed
                      \/ IsDrop(op, gone) /\ ed
                      \/ IsCreate(op, fresh) \/ IsAdd(op, fresh)
  BY PlanOperations
<1>4. /\ ed => \A t \in DOMAIN gone : DropTable(t) \in all
      /\ ed => \A t \in DOMAIN gone : \A k \in Named(gone, t) : DropForeignKey(t, k) \in all
      /\ \A t \in DOMAIN fresh : CreateTable(t, fresh[t] \ Moved(fresh, t)) \in all
      /\ \A t \in DOMAIN fresh : \A k \in Moved(fresh, t) : AddForeignKey(t, k) \in all
  BY PlanHasOperations
<1> HIDE DEF all, gone, fresh
<1>5. /\ \A op \in done : op.kind = "DropForeignKey" => IsDropKey(op, gone) /\ ed
      /\ \A op \in done : op.kind = "DropTable" => IsDrop(op, gone) /\ ed
      /\ \A op \in done : op.kind = "CreateTable" => IsCreate(op, fresh)
      /\ \A op \in done : op.kind = "AddForeignKey" => IsAdd(op, fresh)
  BY <1>2, <1>3 DEF IsDropKey, IsDrop, IsCreate, IsAdd
<1>6. TablesIn(done, "DropTable") \subseteq (IF ed THEN DOMAIN gone ELSE {})
  BY <1>5 DEF TablesIn, IsDrop
<1>7. TablesIn(done, "CreateTable") \subseteq DOMAIN fresh
  BY <1>5 DEF TablesIn, IsCreate
<1>8. /\ \A t \in DOMAIN cur \cap DOMAIN des : KeysOf(done, "DropForeignKey", t) = {}
      /\ ~ed => \A t : KeysOf(done, "DropForeignKey", t) = {}
  <2>1. \A op \in done : op.kind = "DropForeignKey" => op.table \in DOMAIN gone /\ ed
    BY <1>5 DEF IsDropKey
  <2> QED
    BY <1>1, <2>1 DEF KeysOf
<1>9. ed /\ (\A op \in all : op.kind = "DropTable" => op \in done) =>
        DOMAIN gone \subseteq TablesIn(done, "DropTable")
  <2>1. \A t : DropTable(t).kind = "DropTable" /\ DropTable(t).table = t
    BY DEF DropTable
  <2> QED
    BY <1>4, <2>1 DEF TablesIn
<1>10. ASSUME ed, \A op \in all : op.kind = "DropForeignKey" => op \in done,
              NEW t \in DOMAIN gone
       PROVE  KeysOf(done, "DropForeignKey", t) = Named(gone, t)
  <2>1. \A op \in done : op.kind = "DropForeignKey" /\ op.table = t => op.keys \subseteq Named(gone, t)
    BY <1>5 DEF IsDropKey
  <2>2. \A k \in Named(gone, t) : DropForeignKey(t, k) \in done
    BY <1>4, <1>10 DEF DropForeignKey
  <2>3. \A k : /\ DropForeignKey(t, k).kind = "DropForeignKey"
               /\ DropForeignKey(t, k).table = t /\ DropForeignKey(t, k).keys = {k}
    BY DEF DropForeignKey
  <2>4. KeysOf(done, "DropForeignKey", t) \subseteq Named(gone, t)
    BY <2>1 DEF KeysOf
  <2>5. ASSUME NEW k \in Named(gone, t) PROVE k \in KeysOf(done, "DropForeignKey", t)
    BY <2>2, <2>3 DEF KeysOf
  <2> QED
    BY <2>4, <2>5
<1>11. ASSUME \A op \in all : op.kind = "CreateTable" => op \in done
       PROVE  /\ TablesIn(done, "CreateTable") = DOMAIN fresh
              /\ \A t \in DOMAIN fresh :
                   KeysOf(done, "CreateTable", t) = fresh[t] \ Moved(fresh, t)
  <2> DEFINE create(t) == CreateTable(t, fresh[t] \ Moved(fresh, t))
  <2>1. \A t : /\ create(t).kind = "CreateTable" /\ create(t).table = t
               /\ create(t).keys = fresh[t] \ Moved(fresh, t)
    BY DEF CreateTable
  <2>2. \A t \in DOMAIN fresh : create(t) \in done
    BY <1>4, <1>11, <2>1
  <2>3. \A op \in done : op.kind = "CreateTable" => op.keys = fresh[op.table] \ Moved(fresh, op.table)
    BY <1>5 DEF IsCreate
  <2> HIDE DEF create
  <2>4. TablesIn(done, "CreateTable") = DOMAIN fresh
    BY <1>7, <2>1, <2>2 DEF TablesIn
  <2>5. ASSUME NEW t \in DOMAIN fresh
        PROVE  KeysOf(done, "CreateTable", t) = fresh[t] \ Moved(fresh, t)
    <3>1. create(t) \in {o \in done : o.kind = "CreateTable" /\ o.table = t}
      BY <2>1, <2>2
    <3>2. \A o \in {o \in done : o.kind = "CreateTable" /\ o.table = t} :
             o.keys = fresh[t] \ Moved(fresh, t)
      BY <2>3
    <3> QED
      BY <3>1, <3>2 DEF KeysOf
  <2> QED
    BY <2>4, <2>5
<1>12. ASSUME \A op \in all : op.kind = "AddForeignKey" => op \in done,
              NEW t \in DOMAIN fresh
       PROVE  KeysOf(done, "AddForeignKey", t) = Moved(fresh, t)
  <2>1. \A op \in done : op.kind = "AddForeignKey" /\ op.table = t => op.keys \subseteq Moved(fresh, t)
    BY <1>5 DEF IsAdd
  <2>2. \A k \in Moved(fresh, t) : AddForeignKey(t, k) \in done
    BY <1>4, <1>12 DEF AddForeignKey
  <2>3. \A k : /\ AddForeignKey(t, k).kind = "AddForeignKey"
               /\ AddForeignKey(t, k).table = t /\ AddForeignKey(t, k).keys = {k}
    BY DEF AddForeignKey
  <2>4. KeysOf(done, "AddForeignKey", t) \subseteq Moved(fresh, t)
    BY <2>1 DEF KeysOf
  <2>5. ASSUME NEW k \in Moved(fresh, t) PROVE k \in KeysOf(done, "AddForeignKey", t)
    BY <2>2, <2>3 DEF KeysOf
  <2> QED
    BY <2>4, <2>5
<1> QED
  <2>1. Applied(all, done, gone, fresh, DOMAIN cur \cap DOMAIN des, ed)
    BY <1>6, <1>7, <1>8, <1>9, <1>10, <1>11, <1>12 DEF Applied
  <2> QED
    BY <2>1 DEF all, gone, fresh

(* Where a planned run stands, for the proofs below.                       *)
LEMMA RunFacts ==
    ASSUME RunInv, pc # "diff"
    PROVE  /\ IsSchema(current) /\ IsSchema(desired) /\ enableDrop \in BOOLEAN
           /\ Remains(ops, Planned, OrderOf(Planned))
           /\ db = DbAfter(current, Planned \ EntriesOf(ops))
           /\ DOMAIN Gone(current, desired) = DOMAIN current \ DOMAIN desired
           /\ DOMAIN Fresh(current, desired) = DOMAIN desired \ DOMAIN current
           /\ \A t \in DOMAIN Gone(current, desired) : Gone(current, desired)[t] = current[t]
           /\ \A t \in DOMAIN Fresh(current, desired) : Fresh(current, desired)[t] = desired[t]
           /\ IsSchema(Gone(current, desired)) /\ IsSchema(Fresh(current, desired))
<1>1. IsSchema(current) /\ IsSchema(desired) /\ enableDrop \in BOOLEAN /\ Stands
  BY InputsAssumption DEF RunInv
<1>2. /\ DOMAIN Gone(current, desired) = DOMAIN current \ DOMAIN desired
      /\ \A t \in DOMAIN Gone(current, desired) : Gone(current, desired)[t] = current[t]
      /\ IsSchema(Gone(current, desired))
  <2> DEFINE W == Without(current, DOMAIN desired)
  <2>1. /\ DOMAIN W = DOMAIN current \ DOMAIN desired
        /\ \A t \in DOMAIN current \ DOMAIN desired : W[t] = current[t]
        /\ IsSchema(W)
    BY <1>1, WithoutIsSchema
  <2>2. Gone(current, desired) = W
    BY DEF Gone
  <2> HIDE DEF W
  <2> QED
    BY <2>1, <2>2
<1>3. /\ DOMAIN Fresh(current, desired) = DOMAIN desired \ DOMAIN current
      /\ \A t \in DOMAIN Fresh(current, desired) : Fresh(current, desired)[t] = desired[t]
      /\ IsSchema(Fresh(current, desired))
  <2> DEFINE W == Without(desired, DOMAIN current)
  <2>1. /\ DOMAIN W = DOMAIN desired \ DOMAIN current
        /\ \A t \in DOMAIN desired \ DOMAIN current : W[t] = desired[t]
        /\ IsSchema(W)
    BY <1>1, WithoutIsSchema
  <2>2. Fresh(current, desired) = W
    BY DEF Fresh
  <2> HIDE DEF W
  <2> QED
    BY <2>1, <2>2
<1> QED
  BY <1>1, <1>2, <1>3 DEF Stands

(* A plan that ran to its end has created what is new, with the keys taken *)
(* out of CREATE TABLE back in, and dropped what is not desired.           *)
LEMMA RunMatches ==
    RunInv /\ SameKeys(current, desired) => AppliedMatchesDesired
<1>1. SUFFICES ASSUME RunInv, SameKeys(current, desired), pc = "done"
               PROVE  db = [t \in DOMAIN desired \cup (IF enableDrop THEN {} ELSE DOMAIN current) |->
                              IF t \in DOMAIN desired THEN desired[t] ELSE current[t]]
  BY DEF AppliedMatchesDesired
<1> DEFINE cur == current
           des == desired
           ed == enableDrop
           all == Planned
           done == all \ EntriesOf(ops)
           gone == Gone(cur, des)
           fresh == Fresh(cur, des)
           D == (DOMAIN cur \ TablesIn(done, "DropTable")) \cup TablesIn(done, "CreateTable")
           V(t) == IF t \in DOMAIN cur
                   THEN cur[t] \ KeysOf(done, "DropForeignKey", t)
                   ELSE KeysOf(done, "CreateTable", t) \cup KeysOf(done, "AddForeignKey", t)
<1>2. /\ IsSchema(cur) /\ IsSchema(des) /\ ed \in BOOLEAN
      /\ db = DbAfter(cur, done)
      /\ DOMAIN gone = DOMAIN cur \ DOMAIN des /\ DOMAIN fresh = DOMAIN des \ DOMAIN cur
      /\ \A t \in DOMAIN fresh : fresh[t] = des[t]
      /\ IsSchema(fresh)
  BY <1>1, RunFacts
<1>3. done = all
  BY <1>1 DEF RunInv, EntriesOf
<1>4. db = [t \in D |-> V(t)]
  BY <1>2 DEF DbAfter
<1> HIDE DEF done, fresh, gone
<1>5. /\ TablesIn(done, "DropTable") \subseteq (IF ed THEN DOMAIN gone ELSE {})
      /\ \A t \in DOMAIN cur \cap DOMAIN des : KeysOf(done, "DropForeignKey", t) = {}
      /\ ~ed => \A t : KeysOf(done, "DropForeignKey", t) = {}
      /\ ed => DOMAIN gone \subseteq TablesIn(done, "DropTable")
      /\ TablesIn(done, "CreateTable") = DOMAIN fresh
      /\ \A t \in DOMAIN fresh :
           /\ KeysOf(done, "CreateTable", t) = fresh[t] \ Moved(fresh, t)
           /\ KeysOf(done, "AddForeignKey", t) = Moved(fresh, t)
  <2>1. done \in SUBSET PlanOf(cur, des, ed) /\ \A op \in PlanOf(cur, des, ed) : op \in done
    BY <1>3 DEF Planned
  <2> HIDE DEF all
  <2>2. Applied(PlanOf(cur, des, ed), done, gone, fresh, DOMAIN cur \cap DOMAIN des, ed)
    BY <1>2, <2>1, AllOfAKind DEF gone, fresh
  <2> QED
    BY <2>1, <2>2 DEF Applied
<1>6. D = DOMAIN des \cup (IF ed THEN {} ELSE DOMAIN cur)
  BY <1>2, <1>5
<1>7. ASSUME NEW t \in D
      PROVE  V(t) = IF t \in DOMAIN des THEN des[t] ELSE cur[t]
  <2>1. CASE t \in DOMAIN cur /\ t \in DOMAIN des
    <3>1. cur[t] = des[t]
      BY <1>1, <2>1 DEF SameKeys
    <3> QED
      BY <1>5, <2>1, <3>1
  <2>2. CASE t \in DOMAIN cur /\ t \notin DOMAIN des
    BY <1>5, <1>6, <1>7, <2>2
  <2>3. CASE t \notin DOMAIN cur
    <3>1. t \in DOMAIN fresh /\ t \in DOMAIN des
      BY <1>2, <1>6, <1>7, <2>3
    <3>2. Moved(fresh, t) \subseteq fresh[t]
      BY <1>2, <3>1, SchemaFacts DEF Moved
    <3> QED
      BY <1>2, <1>5, <2>3, <3>1, <3>2
  <2> QED
    BY <2>1, <2>2, <2>3
<1> HIDE DEF D, V
<1> QED
  BY <1>4, <1>6, <1>7

(* When the first table is dropped every named key on a cycle is gone, and *)
(* a cycle of what is left was one before.                                 *)
LEMMA RunBreaksCycles == RunInv => NamedCyclesAreBroken
<1>1. SUFFICES ASSUME RunInv, pc = "apply", ops # <<>>, Head(ops).kind = "DropTable",
                      NEW t \in DOMAIN Without(db, DOMAIN desired),
                      NEW k \in CyclicKeys(Without(db, DOMAIN desired), t), k.named
               PROVE  FALSE
  BY DEF NamedCyclesAreBroken
<1> DEFINE cur == current
           des == desired
           ed == enableDrop
           all == Planned
           done == all \ EntriesOf(ops)
           gone == Gone(cur, des)
           fresh == Fresh(cur, des)
           rest == Without(db, DOMAIN des)
           X == DOMAIN gone
           Y == DOMAIN rest
           op == Head(ops)
<1>2. /\ IsSchema(cur) /\ IsSchema(des) /\ ed \in BOOLEAN
      /\ Remains(ops, all, OrderOf(all)) /\ db = DbAfter(cur, done)
      /\ X = DOMAIN cur \ DOMAIN des /\ DOMAIN fresh = DOMAIN des \ DOMAIN cur
      /\ \A u \in X : gone[u] = cur[u]
      /\ IsSchema(gone)
  BY <1>1, RunFacts
<1>3. /\ op \in all
      /\ \A x \in all : Precedes(x, op) => x \in done
  <2> HIDE DEF all
  <2> QED
    BY <1>1, <1>2, HeadOfPlan
<1>4. ed
  <2>1. op \in PlanOf(cur, des, ed)
    BY <1>3 DEF Planned
  <2> HIDE DEF op
  <2> QED
    BY <1>1, <1>2, <2>1, PlanOperations DEF op, IsDropKey, IsCreate, IsAdd
<1>5. \A x \in all : x.kind = "DropForeignKey" => x \in done
  BY <1>1, <1>3 DEF Precedes
<1> HIDE DEF done, gone, fresh, op
<1>6. /\ TablesIn(done, "CreateTable") \subseteq DOMAIN fresh
      /\ \A u \in X : KeysOf(done, "DropForeignKey", u) = Named(gone, u)
  <2>1. done \in SUBSET PlanOf(cur, des, ed)
    BY DEF Planned, done
  <2>2. \A x \in PlanOf(cur, des, ed) : x.kind = "DropForeignKey" => x \in done
    BY <1>5 DEF Planned
  <2>3. Applied(PlanOf(cur, des, ed), done, gone, fresh, DOMAIN cur \cap DOMAIN des, ed)
    BY <1>2, <2>1, AllOfAKind DEF gone, fresh
  <2> QED
    BY <1>2, <1>4, <2>2, <2>3 DEF Applied
<1>7. /\ Y \subseteq X
      /\ \A u \in Y : rest[u] = gone[u] \ Named(gone, u)
  <2>1. Y = DOMAIN db \ DOMAIN des /\ \A u \in Y : rest[u] = db[u]
    BY DEF Without
  <2>2. /\ DOMAIN db \subseteq DOMAIN cur \cup DOMAIN fresh
        /\ \A u \in DOMAIN db \cap DOMAIN cur : db[u] = cur[u] \ KeysOf(done, "DropForeignKey", u)
    BY <1>2, <1>6 DEF DbAfter
  <2> QED
    BY <1>2, <1>6, <2>1, <2>2
<1> HIDE DEF rest
<1> DEFINE graph == FkGraph(gone)
           part == FkGraph(rest)
<1>8. IsFiniteSet(X) /\ graph \in [X -> SUBSET X]
  BY <1>2, SchemaFacts
<1>9. part \in [Y -> SUBSET Y] /\ \A u \in Y : part[u] \subseteq graph[u]
  BY <1>7 DEF FkGraph
<1>10. /\ t \in Y /\ k \in rest[t] /\ k.to \in part[t] /\ CanReach(part, k.to, t)
  BY <1>1 DEF CyclicKeys, rest
<1> HIDE DEF graph, part, X, Y
<1>11. k.to \in Y
  BY <1>9, <1>10
<1>12. CanReach(graph, k.to, t)
  BY <1>7, <1>8, <1>9, <1>10, <1>11, PartsReachLess
<1>13. k \in Named(gone, t)
  BY <1>1, <1>7, <1>9, <1>10, <1>12 DEF Named, CyclicKeys, graph
<1> QED
  BY <1>7, <1>10, <1>13

(* Tables and keys that operations need are there when their turn comes.   *)
LEMMA RunRefusesDropsOnly ==
    RunInv /\ ReferencesExist(desired) => OnlyDropTableRefused
<1>1. SUFFICES ASSUME RunInv, ReferencesExist(desired), pc = "rejected",
                      Head(ops).kind # "DropTable"
               PROVE  Accepts(Head(ops))
  BY DEF OnlyDropTableRefused, RunInv
<1> DEFINE cur == current
           des == desired
           ed == enableDrop
           all == Planned
           left == EntriesOf(ops)
           done == all \ left
           gone == Gone(cur, des)
           fresh == Fresh(cur, des)
           op == Head(ops)
<1>2. /\ IsSchema(cur) /\ IsSchema(des) /\ ed \in BOOLEAN /\ ops # <<>>
      /\ Remains(ops, all, OrderOf(all)) /\ db = DbAfter(cur, done)
      /\ DOMAIN gone = DOMAIN cur \ DOMAIN des /\ DOMAIN fresh = DOMAIN des \ DOMAIN cur
      /\ \A u \in DOMAIN gone : gone[u] = cur[u]
      /\ \A u \in DOMAIN fresh : fresh[u] = des[u]
      /\ IsSchema(gone) /\ IsSchema(fresh)
  BY <1>1, RunFacts DEF RunInv
<1>3. /\ op \in all /\ op \notin done
      /\ \A x \in all : Precedes(x, op) => x \in done
      /\ \A x \in all : Precedes(op, x) => x \notin done
  <2> HIDE DEF all
  <2> QED
    BY <1>2, HeadOfPlan
<1>4. \A x \in all : \/ IsDropKey(x, gone) \/ IsDrop(x, gone)
                     \/ IsCreate(x, fresh) \/ IsAdd(x, fresh)
  BY <1>2, PlanOperations DEF Planned
<1>5. /\ TablesIn(done, "DropTable") \subseteq DOMAIN gone
      /\ TablesIn(done, "CreateTable") \subseteq DOMAIN fresh
      /\ (\A x \in all : x.kind = "CreateTable" => x \in done) =>
            TablesIn(done, "CreateTable") = DOMAIN fresh
  <2>1. done \in SUBSET PlanOf(cur, des, ed)
    BY DEF Planned
  <2> HIDE DEF done, gone, fresh
  <2>2. Applied(PlanOf(cur, des, ed), done, gone, fresh, DOMAIN cur \cap DOMAIN des, ed)
    BY <1>2, <2>1, AllOfAKind DEF gone, fresh
  <2>3. TablesIn(done, "DropTable") \subseteq (IF ed THEN DOMAIN gone ELSE {})
    BY <2>2 DEF Applied
  <2> QED
    BY <1>2, <2>2, <2>3 DEF Planned, Applied
<1>6. \A u \in DOMAIN fresh : CreateTable(u, fresh[u] \ Moved(fresh, u)) \in all
  BY <1>2, PlanHasOperations DEF Planned
<1>7. /\ DOMAIN db = (DOMAIN cur \ TablesIn(done, "DropTable")) \cup TablesIn(done, "CreateTable")
      /\ \A u \in DOMAIN db \cap DOMAIN cur : db[u] = cur[u] \ KeysOf(done, "DropForeignKey", u)
  BY <1>2 DEF DbAfter
<1>8. \A u \in DOMAIN fresh : Moved(fresh, u) \subseteq fresh[u] /\ Targets(fresh[u]) \subseteq DOMAIN des
  <2>1. \A u \in DOMAIN fresh : Moved(fresh, u) \subseteq fresh[u]
    BY <1>2, SchemaFacts DEF Moved
  <2> QED
    BY <1>1, <1>2, <2>1 DEF ReferencesExist
<1>9. \A x \in done : x \in all
  OBVIOUS
<1> HIDE DEF done, gone, fresh, op, all
<1>10. CASE IsDropKey(op, gone)
  <2>1. PICK k \in Named(gone, op.table) : op.keys = {k} /\ op = DropForeignKey(op.table, k)
    BY <1>10 DEF IsDropKey
  <2>2. op.kind = "DropForeignKey" /\ op.table \in DOMAIN gone
    BY <1>10 DEF IsDropKey
  <2>3. TablesIn(done, "DropTable") = {}
    <3>1. SUFFICES ASSUME NEW x \in done, x.kind = "DropTable" PROVE FALSE
      BY DEF TablesIn
    <3>2. Precedes(op, x)
      BY <2>2, <3>1 DEF Precedes
    <3> QED
      BY <1>3, <1>9, <3>2
  <2>4. op.table \in DOMAIN db
    BY <1>2, <1>7, <2>2, <2>3
  <2>5. k \in cur[op.table]
    <3>1. Named(gone, op.table) \subseteq gone[op.table]
      BY DEF Named, CyclicKeys
    <3> QED
      BY <1>2, <2>1, <2>2, <3>1
  <2>6. k \notin KeysOf(done, "DropForeignKey", op.table)
    <3>1. SUFFICES ASSUME NEW x \in done, x.kind = "DropForeignKey", x.table = op.table, k \in x.keys
                   PROVE  FALSE
      BY DEF KeysOf
    <3>2. IsDropKey(x, gone)
      BY <1>4, <1>9, <3>1 DEF IsDrop, IsCreate, IsAdd
    <3>3. x = DropForeignKey(x.table, k)
      BY <3>1, <3>2 DEF IsDropKey
    <3> QED
      BY <1>3, <2>1, <3>1, <3>3
  <2>7. op.table \in DOMAIN cur
    BY <1>2, <2>2
  <2>8. op.keys \subseteq db[op.table]
    BY <1>7, <2>1, <2>4, <2>5, <2>6, <2>7
  <2>9. Accepts(op)
    BY <2>2, <2>4, <2>8 DEF Accepts
  <2> QED
    BY <2>9 DEF op
<1>11. CASE IsCreate(op, fresh)
  <2>1. /\ op.kind = "CreateTable" /\ op.table \in DOMAIN fresh
        /\ op.keys = fresh[op.table] \ Moved(fresh, op.table)
    BY <1>11 DEF IsCreate
  <2>2. op.table \notin TablesIn(done, "CreateTable")
    <3>1. SUFFICES ASSUME NEW x \in done, x.kind = "CreateTable", x.table = op.table PROVE FALSE
      BY DEF TablesIn
    <3>2. IsCreate(x, fresh)
      BY <1>4, <1>9, <3>1 DEF IsDrop, IsDropKey, IsAdd
    <3>3. x = op
      BY <1>11, <3>1, <3>2 DEF IsCreate
    <3> QED
      BY <1>3, <3>1, <3>3
  <2>3. op.table \notin DOMAIN db
    BY <1>2, <1>7, <2>1, <2>2
  <2>4. ASSUME NEW u \in Targets(op.keys), u # op.table PROVE u \in DOMAIN db
    <3>1. u \in DOMAIN des
      BY <1>8, <2>1, <2>4 DEF Targets
    <3>2. CASE u \in DOMAIN cur
      BY <1>2, <1>5, <1>7, <3>1, <3>2
    <3>3. CASE u \notin DOMAIN cur
      <4> DEFINE x == CreateTable(u, fresh[u] \ Moved(fresh, u))
      <4>1. x \in all /\ x.kind = "CreateTable" /\ x.table = u
        BY <1>2, <1>6, <3>1, <3>3 DEF CreateTable
      <4> HIDE DEF x
      <4>2. Precedes(x, op)
        BY <2>1, <2>4, <4>1 DEF Precedes
      <4>3. u \in TablesIn(done, "CreateTable")
        BY <1>3, <4>1, <4>2 DEF TablesIn
      <4> QED
        BY <1>7, <4>3
    <3> QED
      BY <3>2, <3>3
  <2> QED
    BY <2>1, <2>3, <2>4 DEF Accepts, op
<1>12. CASE IsAdd(op, fresh)
  <2>1. op.kind = "AddForeignKey" /\ op.table \in DOMAIN fresh
    BY <1>12 DEF IsAdd
  <2>2. op.keys \subseteq fresh[op.table]
    BY <1>8, <1>12 DEF IsAdd
  <2>3. TablesIn(done, "CreateTable") = DOMAIN fresh
    BY <1>3, <1>5, <2>1 DEF Precedes
  <2>4. DOMAIN des \subseteq DOMAIN db
    BY <1>2, <1>5, <1>7, <2>3
  <2>5. Targets(op.keys) \subseteq DOMAIN des
    BY <1>8, <2>1, <2>2 DEF Targets
  <2> QED
    BY <1>2, <2>1, <2>4, <2>5 DEF Accepts, op
<1> QED
  BY <1>1, <1>3, <1>4, <1>10, <1>11, <1>12 DEF IsDrop, op

-------------------------------------------------------------------------------
(* The theorems                                                            *)

(* When the first table is dropped no named key is left on a cycle of      *)
(* tables to be dropped (drop_fk_ops_for_drop_table_cycles), whatever the  *)
(* schemas.                                                                *)
THEOREM CyclesAreBroken == Spec => []NamedCyclesAreBroken
  BY RunInvariant, RunBreaksCycles, PTL

(* The database refuses nothing but the drop of a table, if the keys of    *)
(* the desired schema reference its tables: sort_create_tables finds an    *)
(* order for what apply_create_cycle_fallback leaves in CREATE TABLE.      *)
THEOREM OnlyDropsAreRefused ==
    ASSUME \A in \in Inputs : ReferencesExist(in[2])
    PROVE  Spec => []OnlyDropTableRefused
<1>1. RunInv => ReferencesExist(desired)
  BY DEF RunInv
<1>2. RunInv => OnlyDropTableRefused
  BY <1>1, RunRefusesDropsOnly
<1> QED
  BY <1>2, RunInvariant, PTL

(* A plan that ran to its end leaves the desired tables and keys, if no    *)
(* table that stays changes its keys.                                      *)
THEOREM PlanMatchesDesired ==
    ASSUME \A in \in Inputs : SameKeys(in[1], in[2])
    PROVE  Spec => []AppliedMatchesDesired
<1>1. RunInv => SameKeys(current, desired)
  BY DEF RunInv
<1>2. RunInv => AppliedMatchesDesired
  BY <1>1, RunMatches
<1> QED
  BY <1>2, RunInvariant, PTL
===============================================================================
