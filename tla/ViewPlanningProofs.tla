-------------------------- MODULE ViewPlanningProofs --------------------------
(***************************************************************************)
(* Theorems about the change of views, for any number of views and any     *)
(* schemas.                                                                *)
(***************************************************************************)
EXTENDS ViewPlanning, DataLemmas

Rebuilt(cur, des) == RebuildClosure(ChangedRoots(cur, des), DependencyGraph(cur))
Added(cur, des) == (DOMAIN des \ DOMAIN cur) \ Rebuilt(cur, des)
Removed(cur, des) == (DOMAIN cur \ DOMAIN des) \ Rebuilt(cur, des)

(* The views a plan drops and those it creates.                            *)
Dropped(cur, des, ed) == IF ed THEN Rebuilt(cur, des) \cup Removed(cur, des) ELSE {}
Created(cur, des) == (Rebuilt(cur, des) \cap DOMAIN des) \cup Added(cur, des)

DropsOf(views, cur) == {DropView(v, cur[v]) : v \in views}
CreatesOf(views, des) == {CreateView(v, des[v]) : v \in views}

ReplacesOf(views, des) == {ReplaceView(v, des[v]) : v \in views}

(* The operations of a plan that replaces some views in place.             *)
PlanOf(cur, des, ed, fused) ==
    DropsOf(Dropped(cur, des, ed) \ fused, cur) \cup CreatesOf(Created(cur, des) \ fused, des)
        \cup ReplacesOf(fused, des)

(* No view reads itself, however indirectly.                               *)
NoCycle(graph, views) ==
    \A B \in SUBSET views : B # {} => \E v \in B : graph[v] \cap B = {}

(* One operation has to be applied before another: drops before the rest,  *)
(* a rebuilt view before what it reads is dropped, and after what it reads *)
(* is created, as long as no cycle makes that impossible.                  *)
Precedes(cur, des, x, y) ==
    \/ x.kind = "DropView" /\ y.kind # "DropView"
    \/ /\ x.kind = "DropView" /\ y.kind = "DropView"
       /\ x.view \in Rebuilt(cur, des) /\ y.view \in Rebuilt(cur, des)
       /\ y.view \in DependencyGraph(cur)[x.view]
       /\ NoCycle(DependencyGraph(cur), Rebuilt(cur, des))
    \/ /\ x.kind # "DropView" /\ y.kind # "DropView"
       /\ x.view \in DependencyGraph(des)[y.view]
       /\ NoCycle(DependencyGraph(des), Created(cur, des))

(* What the generator replaces in place is defined plainly, and was the    *)
(* last view to be dropped: it reads no view of the rebuild set.           *)
Fusable(cur, des, fused) ==
    /\ \A v \in fused : des[v].plain
    /\ NoCycle(DependencyGraph(cur), Rebuilt(cur, des)) =>
         \A v \in fused : DependencyGraph(cur)[v] \cap Rebuilt(cur, des) = {}

Respects(s, all, cur, des) ==
    /\ Lists(s, all)
    /\ \A x, y \in all : Precedes(cur, des, x, y) => ComesBefore(s, x, y)

-------------------------------------------------------------------------------
(* Views are numbers, and there are finitely many.                         *)
LEMMA ViewsAreNumbers ==
    ASSUME NEW S \in SUBSET View
    PROVE  S \subseteq Nat /\ IsFiniteSet(S)
<1>1. IsFiniteSet(View) /\ View \subseteq Nat
  BY NumViewsAssumption, FS_Interval DEF View
<1> QED
  BY <1>1, FS_Subset

(* The rebuild set holds the changed views and whatever reads a view of    *)
(* it, and nothing that these two do not ask for.                          *)
LEMMA RebuiltIsClosed ==
    ASSUME NEW cur, NEW des, IsSchema(cur), IsSchema(des)
    PROVE  /\ Rebuilt(cur, des) \subseteq DOMAIN cur
           /\ ChangedRoots(cur, des) \subseteq Rebuilt(cur, des)
           /\ \A v \in DOMAIN cur :
                DependencyGraph(cur)[v] \cap Rebuilt(cur, des) # {} => v \in Rebuilt(cur, des)
           /\ \A Y \in SUBSET DOMAIN cur :
                /\ ChangedRoots(cur, des) \subseteq Y
                /\ \A v \in DOMAIN cur \ Y : DependencyGraph(cur)[v] \cap Y = {}
                => Rebuilt(cur, des) \subseteq Y
<1> DEFINE X == DOMAIN cur
           graph == DependencyGraph(cur)
           roots == ChangedRoots(cur, des)
           n == Cardinality(X)
           Next1(S) == S \cup {v \in X : graph[v] \cap S # {}}
           F == [S \in SUBSET X |-> Next1(S)]
           Eq(g) == g = [k \in 0..n |-> IF k = 0 THEN roots ELSE Next1(g[k - 1])]
<1>1. IsFiniteSet(X) /\ n \in Nat
  <2>1. X \in SUBSET View
    BY DEF IsSchema
  <2> QED
    BY <2>1, ViewsAreNumbers, FS_CardinalityType
<1>2. DOMAIN graph = X /\ roots \in SUBSET X
  BY DEF DependencyGraph, ChangedRoots
<1>3. /\ F \in [SUBSET X -> SUBSET X] /\ \A S \in SUBSET X : F[S] = Next1(S)
      /\ \A S \in SUBSET X : S \subseteq F[S]
  OBVIOUS
<1> HIDE DEF X, roots, n, F
<1>4. PICK g \in [0..n -> SUBSET X] : Iterates(g, F, roots, n)
  <2> DEFINE Sets == SUBSET X
  <2>1. F \in [Sets -> Sets] /\ roots \in Sets
    BY <1>2, <1>3
  <2> HIDE DEF Sets
  <2>2. \E g \in [0..n -> Sets] : Iterates(g, F, roots, n)
    BY <1>1, <2>1, IterationDefined
  <2> QED
    BY <2>2 DEF Sets
<1>5. Eq(g)
  <2>1. ASSUME NEW k \in 0..n, k # 0 PROVE F[g[k - 1]] = Next1(g[k - 1])
    <3>1. g[k - 1] \in SUBSET X
      BY <1>1, <1>4, <2>1
    <3> QED
      BY <1>3, <3>1
  <2> HIDE DEF Next1
  <2> QED
    BY <1>4, <2>1 DEF Iterates
<1>6. Rebuilt(cur, des) = (CHOOSE h : Eq(h))[n]
  BY <1>2 DEF Rebuilt, RebuildClosure, roots, n
<1> DEFINE h == CHOOSE h : Eq(h)
<1>7. Eq(h)
  <2> HIDE DEF Eq
  <2> QED
    BY <1>5
<1>8. \A k \in 0..n : h[k] \in SUBSET X
  <2> HIDE DEF h
  <2> DEFINE T == {k \in Nat : k <= n => h[k] \in SUBSET X}
  <2>1. h[0] = roots /\ \A k \in 1..n : h[k] = Next1(h[k - 1])
    <3> HIDE DEF Next1
    <3> QED
      BY <1>1, <1>7
  <2>2. 0 \in T
    BY <1>2, <2>1
  <2>3. ASSUME NEW k \in Nat, k \in T PROVE k + 1 \in T
    <3>1. CASE k + 1 <= n
      <4>1. h[k + 1] = Next1(h[k]) /\ h[k] \in SUBSET X
        BY <1>1, <2>1, <2>3, <3>1
      <4> QED
        BY <4>1
    <3>2. CASE ~(k + 1 <= n)
      BY <3>2
    <3> QED
      BY <3>1, <3>2
  <2>4. Nat \subseteq T
    <3> HIDE DEF T
    <3> QED
      BY <2>2, <2>3, NatSetInduction
  <2> QED
    BY <1>1, <2>4
<1>9. Iterates(h, F, roots, n)
  <2> HIDE DEF h
  <2>1. ASSUME NEW k \in 0..n, k # 0 PROVE F[h[k - 1]] = Next1(h[k - 1])
    <3>1. h[k - 1] \in SUBSET X
      BY <1>1, <1>8, <2>1
    <3> QED
      BY <1>3, <3>1
  <2> HIDE DEF Next1
  <2> QED
    BY <1>7, <2>1 DEF Iterates
<1>10. Closes(h[n], F, roots, X)
  <2> HIDE DEF h
  <2>1. Iterates(h, F, roots, Cardinality(X))
    BY <1>9 DEF n
  <2>2. Closes(h[Cardinality(X)], F, roots, X)
    BY <1>1, <1>2, <1>3, <2>1, ClosureIsReached
  <2> QED
    BY <2>2 DEF n
<1> DEFINE R == Rebuilt(cur, des)
<1>11. Closes(R, F, roots, X)
  BY <1>6, <1>10
<1> HIDE DEF h, R
<1>12. R \in SUBSET X /\ roots \subseteq R /\ Next1(R) = R
  BY <1>3, <1>11 DEF Closes
<1>13. ASSUME NEW Y \in SUBSET X, roots \subseteq Y, \A v \in X \ Y : graph[v] \cap Y = {}
       PROVE  R \subseteq Y
  <2>1. \A Z \in SUBSET Y : F[Z] \subseteq Y
    BY <1>3, <1>13
  <2> QED
    BY <1>11, <1>13, <2>1 DEF Closes
<1> QED
  BY <1>12, <1>13 DEF R, X, roots

(* The views of a schema in an order in which each comes after those of    *)
(* them it reads, if there is one.                                         *)
LEMMA TopologicalOrderLists ==
    ASSUME NEW nodes \in SUBSET View, NEW graph
    PROVE  /\ Lists(TopologicalOrder(nodes, graph), nodes)
           /\ NoCycle(graph, nodes) =>
                \A u, v \in nodes : u \in graph[v] =>
                    ComesBefore(TopologicalOrder(nodes, graph), u, v)
<1> DEFINE s == InOrder(nodes)
           E == DOMAIN s
           d == [i \in E |-> {j \in E \ {i} : s[j] \in graph[s[i]]}]
           p == SortByDependency(s, d)
<1>1. Lists(s, nodes)
  BY ViewsAreNumbers, InOrderLists
<1>2. TopologicalOrder(nodes, graph) = p
  BY DEF TopologicalOrder
<1> HIDE DEF s
<1>3. d \in [E -> SUBSET E]
  OBVIOUS
<1>4. /\ Lists(p, nodes)
      /\ Grounded(d, E) => \A i \in E : \A j \in d[i] : ComesBefore(p, s[j], s[i])
  <2> HIDE DEF d
  <2> QED
    BY <1>1, <1>3, SortByDependencyLists
<1>5. /\ \A i \in E : s[i] \in nodes
      /\ \A x \in nodes : \E i \in E : s[i] = x
      /\ \A i, j \in E : s[i] = s[j] => i = j
  BY <1>1 DEF Lists
<1> HIDE DEF E, p
<1>6. ASSUME NoCycle(graph, nodes) PROVE Grounded(d, E)
  <2>1. ASSUME NEW B \in SUBSET E, B # {} PROVE \E i \in B : d[i] \cap B = {}
    <3> DEFINE C == {s[i] : i \in B}
    <3>1. C \in SUBSET nodes /\ C # {}
      BY <1>5, <2>1
    <3>2. PICK x \in C : graph[x] \cap C = {}
      BY <1>6, <3>1 DEF NoCycle
    <3>3. PICK i \in B : s[i] = x
      BY <3>2
    <3>4. d[i] \cap B = {}
      BY <3>2, <3>3
    <3> QED
      BY <3>4
  <2> QED
    BY <2>1, <1>3 DEF Grounded
<1>7. ASSUME NoCycle(graph, nodes), NEW u \in nodes, NEW v \in nodes, u \in graph[v]
      PROVE  ComesBefore(p, u, v)
  <2>1. PICK j \in E : s[j] = u
    BY <1>5
  <2>2. PICK i \in E : s[i] = v
    BY <1>5
  <2>3. i # j
    <3>1. {v} \in SUBSET nodes /\ {v} # {}
      OBVIOUS
    <3>2. v \notin graph[v]
      BY <1>7, <3>1 DEF NoCycle
    <3> QED
      BY <1>7, <2>1, <2>2, <3>2
  <2>4. j \in d[i]
    BY <1>7, <2>1, <2>2, <2>3
  <2> QED
    BY <1>4, <1>6, <1>7, <2>1, <2>2, <2>4
<1> QED
  BY <1>2, <1>4, <1>7 DEF p

(* The operations a list of views turns into.                              *)
LEMMA DropsLists ==
    ASSUME NEW S, NEW views, Lists(views, S), NEW cur
    PROVE  /\ Lists(Drops(views, cur), DropsOf(S, cur))
           /\ \A u, v : ComesBefore(views, u, v) =>
                ComesBefore(Drops(views, cur), DropView(u, cur[u]), DropView(v, cur[v]))
<1> DEFINE f == [v \in S |-> DropView(v, cur[v])]
<1>1. DOMAIN f = S /\ \A v \in S : f[v] = DropView(v, cur[v])
  OBVIOUS
<1>2. \A x, y \in S : f[x] = f[y] => x = y
  BY DEF DropView
<1> HIDE DEF f
<1>3. /\ Lists([i \in DOMAIN views |-> f[views[i]]], {f[x] : x \in S})
      /\ \A x, y : ComesBefore(views, x, y) =>
           ComesBefore([i \in DOMAIN views |-> f[views[i]]], f[x], f[y])
  BY <1>1, <1>2, MappedLists
<1>4. [i \in DOMAIN views |-> f[views[i]]] = Drops(views, cur)
  <2>1. \A i \in DOMAIN views : views[i] \in S
    BY DEF Lists
  <2>2. \A i \in DOMAIN views : f[views[i]] = DropView(views[i], cur[views[i]])
    BY <1>1, <2>1
  <2> QED
    BY <2>2 DEF Drops
<1>5. {f[x] : x \in S} = DropsOf(S, cur)
  BY <1>1 DEF DropsOf
<1>6. ASSUME NEW u, NEW v, ComesBefore(views, u, v) PROVE u \in S /\ v \in S
  BY <1>6, BeforeIsStrict
<1>7. \A u, v : ComesBefore(views, u, v) => ComesBefore(Drops(views, cur), f[u], f[v])
  BY <1>3, <1>4
<1>8. ASSUME NEW u, NEW v, ComesBefore(views, u, v)
      PROVE  ComesBefore(Drops(views, cur), DropView(u, cur[u]), DropView(v, cur[v]))
  BY <1>1, <1>6, <1>7, <1>8
<1> QED
  BY <1>3, <1>4, <1>5, <1>8

(* The same of the views that are created.                                 *)
LEMMA CreatesLists ==
    ASSUME NEW S, NEW views, Lists(views, S), NEW des
    PROVE  Lists(Creates(views, des), CreatesOf(S, des))
<1> DEFINE f == [v \in S |-> CreateView(v, des[v])]
<1>1. DOMAIN f = S /\ \A v \in S : f[v] = CreateView(v, des[v])
  OBVIOUS
<1>2. \A x, y \in S : f[x] = f[y] => x = y
  BY DEF CreateView
<1> HIDE DEF f
<1>3. Lists([i \in DOMAIN views |-> f[views[i]]], {f[x] : x \in S})
  BY <1>1, <1>2, MappedLists
<1>4. [i \in DOMAIN views |-> f[views[i]]] = Creates(views, des)
  <2>1. \A i \in DOMAIN views : views[i] \in S
    BY DEF Lists
  <2>2. \A i \in DOMAIN views : f[views[i]] = CreateView(views[i], des[views[i]])
    BY <1>1, <2>1
  <2> QED
    BY <2>2 DEF Creates
<1>5. {f[x] : x \in S} = CreatesOf(S, des)
  BY <1>1 DEF CreatesOf
<1> QED
  BY <1>3, <1>4, <1>5

(* Nothing is read that the exported schema would have dropped before its  *)
(* readers, if that schema has no cycle.                                   *)
LEMMA DropOrderLists ==
    ASSUME NEW cur, NEW nodes \in SUBSET View
    PROVE  /\ Lists(DropOrder(cur, nodes), nodes)
           /\ NoCycle(DependencyGraph(cur), nodes) =>
                \A u, v \in nodes : u \in DependencyGraph(cur)[v] =>
                    ComesBefore(DropOrder(cur, nodes), v, u)
<1> DEFINE graph == DependencyGraph(cur)
           s == TopologicalOrder(nodes, graph)
           t == DropOrder(cur, nodes)
<1>1. /\ Lists(s, nodes)
      /\ NoCycle(graph, nodes) => \A u, v \in nodes : u \in graph[v] => ComesBefore(s, u, v)
  <2> HIDE DEF graph
  <2> QED
    BY TopologicalOrderLists
<1>2. t = [i \in 1..Len(s) |-> s[(Len(s) - i) + 1]]
  BY DEF DropOrder, SE!Reverse
<1> HIDE DEF s, t, graph
<1>3. Lists(s, nodes)
  BY <1>1
<1>4. Lists(t, nodes) /\ \A x, y : ComesBefore(s, x, y) => ComesBefore(t, y, x)
  BY <1>2, <1>3, BackwardsLists
<1> QED
  BY <1>1, <1>4 DEF t, graph

(* The engine compares the views: every view to drop and to create, once.  *)
LEMMA CompareViewsLists ==
    ASSUME NEW cur, NEW des, IsSchema(cur), IsSchema(des), NEW ed \in BOOLEAN
    PROVE  LET s == CompareViews(cur, des, ed)
               rebuilt == Rebuilt(cur, des)
           IN /\ Lists(s, PlanOf(cur, des, ed, {}))
              /\ ed /\ NoCycle(DependencyGraph(cur), rebuilt) =>
                   \A u, v \in rebuilt : u \in DependencyGraph(cur)[v] =>
                      ComesBefore(s, DropView(v, cur[v]), DropView(u, cur[u]))
<1> DEFINE s == CompareViews(cur, des, ed)
           rebuilt == Rebuilt(cur, des)
           again == rebuilt \cap DOMAIN des
           added == Added(cur, des)
           removed == Removed(cur, des)
           graph == DependencyGraph(cur)
           A == IF ed THEN DropsOf(rebuilt, cur) ELSE {}
           B == CreatesOf(again, des)
           C == CreatesOf(added, des)
           D == IF ed THEN DropsOf(removed, cur) ELSE {}
           a == IF ed THEN Drops(DropOrder(cur, rebuilt), cur) ELSE <<>>
           b == Creates(CreateOrder(des, rebuilt), des)
           c == Creates(InOrder(added), des)
           d == IF ed THEN Drops(InOrder(removed), cur) ELSE <<>>
<1>1. s = ((a \o b) \o c) \o d
  BY DEF CompareViews, Rebuilt, Added, Removed
<1>2. /\ rebuilt \in SUBSET View /\ again \in SUBSET View
      /\ added \in SUBSET View /\ removed \in SUBSET View
  <2>1. rebuilt \subseteq DOMAIN cur
    BY RebuiltIsClosed
  <2> QED
    BY <2>1 DEF IsSchema, Added, Removed
<1>3. added \cap rebuilt = {} /\ removed \cap rebuilt = {}
  BY DEF Added, Removed
<1> HIDE DEF rebuilt, added, removed
<1>4. Lists(<<>>, {})
  BY DEF Lists
<1>5. /\ Lists(a, A)
      /\ ed /\ NoCycle(graph, rebuilt) =>
           \A u, v \in rebuilt : u \in graph[v] =>
             ComesBefore(a, DropView(v, cur[v]), DropView(u, cur[u]))
  <2>1. CASE ed
    <3> DEFINE o == DropOrder(cur, rebuilt)
    <3>1. /\ Lists(o, rebuilt)
          /\ NoCycle(graph, rebuilt) =>
               \A u, v \in rebuilt : u \in graph[v] => ComesBefore(o, v, u)
      BY <1>2, DropOrderLists
    <3> HIDE DEF o
    <3>2. /\ Lists(Drops(o, cur), DropsOf(rebuilt, cur))
          /\ \A u, v : ComesBefore(o, u, v) =>
               ComesBefore(Drops(o, cur), DropView(u, cur[u]), DropView(v, cur[v]))
      BY <3>1, DropsLists
    <3> QED
      BY <2>1, <3>1, <3>2 DEF o
  <2>2. CASE ~ed
    BY <1>4, <2>2
  <2> QED
    BY <2>1, <2>2
<1>6. Lists(b, B)
  <2> DEFINE o == CreateOrder(des, rebuilt)
  <2>1. Lists(o, again)
    BY <1>2, TopologicalOrderLists DEF CreateOrder
  <2> HIDE DEF o, again
  <2>2. Lists(Creates(o, des), CreatesOf(again, des))
    BY <2>1, CreatesLists
  <2> QED
    BY <2>2 DEF o
<1>7. Lists(c, C)
  <2>1. Lists(InOrder(added), added)
    BY <1>2, ViewsAreNumbers, InOrderLists
  <2> QED
    BY <2>1, CreatesLists
<1>8. Lists(d, D)
  <2>1. CASE ed
    <3>1. Lists(InOrder(removed), removed)
      BY <1>2, ViewsAreNumbers, InOrderLists
    <3> QED
      BY <2>1, <3>1, DropsLists
  <2>2. CASE ~ed
    BY <1>4, <2>2
  <2> QED
    BY <2>1, <2>2
<1>9. /\ \A x \in A \cup D : x.kind = "DropView"
      /\ \A x \in B \cup C : x.kind = "CreateView"
      /\ \A x \in A \cup B : x.view \in rebuilt
      /\ \A x \in C : x.view \in added
      /\ \A x \in D : x.view \in removed
  BY DEF DropsOf, CreatesOf, DropView, CreateView
<1>10. A \cap B = {} /\ (A \cup B) \cap C = {} /\ ((A \cup B) \cup C) \cap D = {}
  BY <1>3, <1>9
<1>11. ((A \cup B) \cup C) \cup D = PlanOf(cur, des, ed, {})
  BY DEF PlanOf, DropsOf, CreatesOf, ReplacesOf, Dropped, Created, rebuilt, added, removed
<1> HIDE DEF A, B, C, D, a, b, c, d
<1>12. Lists(a \o b, A \cup B) /\ \A x, y : ComesBefore(a, x, y) => ComesBefore(a \o b, x, y)
  BY <1>5, <1>6, <1>10, ConcatenationLists
<1>13. /\ Lists((a \o b) \o c, (A \cup B) \cup C)
       /\ \A x, y : ComesBefore(a \o b, x, y) => ComesBefore((a \o b) \o c, x, y)
  BY <1>7, <1>10, <1>12, ConcatenationLists
<1>14. /\ Lists(((a \o b) \o c) \o d, ((A \cup B) \cup C) \cup D)
       /\ \A x, y : ComesBefore((a \o b) \o c, x, y) => ComesBefore(((a \o b) \o c) \o d, x, y)
  BY <1>8, <1>10, <1>13, ConcatenationLists
<1> HIDE DEF graph, s
<1>15. /\ Lists(s, PlanOf(cur, des, ed, {}))
       /\ \A x, y : ComesBefore(a, x, y) => ComesBefore(s, x, y)
  BY <1>1, <1>11, <1>12, <1>13, <1>14
<1> QED
  BY <1>5, <1>15 DEF s, rebuilt, graph

(* The operations of a kind are picked out of a list in order.             *)
LEMMA OfKindLists ==
    ASSUME NEW S, NEW s, Lists(s, S), NEW kind
    PROVE  /\ Lists(OfKinds(s, {kind}), {x \in S : x.kind = kind})
           /\ \A x, y : ComesBefore(s, x, y) /\ x.kind = kind /\ y.kind = kind =>
                ComesBefore(OfKinds(s, {kind}), x, y)
<1> DEFINE at == {i \in DOMAIN s : s[i].kind \in {kind}}
<1>1. /\ Lists(Picked(s, at), {s[i] : i \in at})
      /\ \A i, j \in at : i < j => ComesBefore(Picked(s, at), s[i], s[j])
  BY PickedLists
<1>2. {s[i] : i \in at} = {x \in S : x.kind = kind}
  BY DEF Lists
<1>3. ASSUME NEW x, NEW y, ComesBefore(s, x, y), x.kind = kind, y.kind = kind
      PROVE  ComesBefore(Picked(s, at), x, y)
  BY <1>1, <1>3 DEF ComesBefore
<1> QED
  BY <1>1, <1>2, <1>3 DEF OfKinds

(* Views are created after those of them they read.                        *)
LEMMA SortCreateViewsLists ==
    ASSUME NEW des, NEW views, NEW s, Lists(s, CreatesOf(views, des))
    PROVE  /\ Lists(SortCreateViews(s), CreatesOf(views, des))
           /\ NoCycle(DependencyGraph(des), views) /\ views \subseteq DOMAIN des =>
                \A u, v \in views : u \in DependencyGraph(des)[v] =>
                  ComesBefore(SortCreateViews(s), CreateView(u, des[u]), CreateView(v, des[v]))
<1> DEFINE S == CreatesOf(views, des)
           graph == DependencyGraph(des)
           E == DOMAIN s
           d == [i \in E |-> {j \in E \ {i} : s[j].view \in s[i].def.reads}]
           p == SortByDependency(s, d)
<1>1. SortCreateViews(s) = p
  BY DEF SortCreateViews
<1>2. d \in [E -> SUBSET E]
  OBVIOUS
<1>3. /\ Lists(p, S)
      /\ Grounded(d, E) => \A i \in E : \A j \in d[i] : ComesBefore(p, s[j], s[i])
  <2> HIDE DEF d, S
  <2>1. Lists(s, S)
    BY DEF S
  <2> QED
    BY <1>2, <2>1, SortByDependencyLists
<1>4. /\ \A i \in E : s[i].view \in views /\ s[i] = CreateView(s[i].view, des[s[i].view])
      /\ \A v \in views : \E i \in E : s[i] = CreateView(v, des[v])
      /\ \A i, j \in E : s[i].view = s[j].view => i = j
  <2>1. /\ \A i \in E : s[i] \in S
        /\ \A x \in S : \E i \in E : s[i] = x
        /\ \A i, j \in E : s[i] = s[j] => i = j
    BY DEF Lists
  <2>2. \A x \in S : x.view \in views /\ x = CreateView(x.view, des[x.view])
    BY DEF CreatesOf, CreateView
  <2>3. \A v \in views : CreateView(v, des[v]) \in S
    BY DEF CreatesOf
  <2> HIDE DEF S
  <2>4. \A i, j \in E : s[i].view = s[j].view => s[i] = s[j]
    BY <2>1, <2>2
  <2> QED
    BY <2>1, <2>2, <2>3, <2>4
<1>5. \A i \in E : s[i].def = des[s[i].view]
  <2>1. \A v : CreateView(v, des[v]).def = des[v]
    BY DEF CreateView
  <2> QED
    BY <1>4, <2>1
<1> HIDE DEF E, p
<1>6. ASSUME NoCycle(graph, views), views \subseteq DOMAIN des,
             NEW u \in views, NEW v \in views, u \in graph[v]
      PROVE  ComesBefore(p, CreateView(u, des[u]), CreateView(v, des[v]))
  <2>1. \A x, y \in views : y \in graph[x] <=> y \in des[x].reads /\ y # x
    BY <1>6 DEF DependencyGraph
  <2> HIDE DEF graph
  <2>2. \A i \in E : d[i] = {j \in E : s[j].view \in graph[s[i].view]}
    <3>1. \A i \in E, j \in E :
            s[j].view \in graph[s[i].view] <=> s[j].view \in s[i].def.reads /\ i # j
      BY <1>4, <1>5, <2>1
    <3> QED
      BY <3>1
  <2>3. ASSUME NEW B \in SUBSET E, B # {} PROVE \E i \in B : d[i] \cap B = {}
    <3> DEFINE C == {s[i].view : i \in B}
    <3>1. C \in SUBSET views /\ C # {}
      BY <1>4, <2>3
    <3>2. PICK x \in C : graph[x] \cap C = {}
      BY <1>6, <3>1 DEF NoCycle
    <3>3. PICK i \in B : s[i].view = x
      BY <3>2
    <3>4. d[i] \cap B = {}
      BY <2>2, <3>2, <3>3
    <3> QED
      BY <3>4
  <2>4. Grounded(d, E)
    BY <1>2, <2>3 DEF Grounded
  <2>5. PICK j \in E : s[j] = CreateView(u, des[u])
    BY <1>4
  <2>6. PICK i \in E : s[i] = CreateView(v, des[v])
    BY <1>4
  <2>7. s[j].view = u /\ s[i].view = v
    BY <2>5, <2>6 DEF CreateView
  <2>8. j \in d[i]
    BY <1>6, <2>2, <2>7
  <2> QED
    BY <1>3, <2>4, <2>5, <2>6, <2>8
<1> QED
  BY <1>1, <1>3, <1>6 DEF p

(* The operations in the order the generator gets them.                    *)
LEMMA SortViewOpsRespects ==
    ASSUME NEW cur, NEW des, IsSchema(cur), IsSchema(des), NEW ed \in BOOLEAN
    PROVE  Respects(SortViewOps(CompareViews(cur, des, ed)), PlanOf(cur, des, ed, {}), cur, des)
<1> DEFINE s == CompareViews(cur, des, ed)
           all == PlanOf(cur, des, ed, {})
           rebuilt == Rebuilt(cur, des)
           created == Created(cur, des)
           A == DropsOf(Dropped(cur, des, ed), cur)
           B == CreatesOf(created, des)
           a == OfKinds(s, {"DropView"})
           b == SortCreateViews(OfKinds(s, {"CreateView"}))
<1>1. /\ Lists(s, all)
      /\ ed /\ NoCycle(DependencyGraph(cur), rebuilt) =>
           \A u, v \in rebuilt : u \in DependencyGraph(cur)[v] =>
             ComesBefore(s, DropView(v, cur[v]), DropView(u, cur[u]))
  BY CompareViewsLists
<1>2. /\ all = A \cup B
      /\ \A x \in A : x.kind = "DropView" /\ x.view \in Dropped(cur, des, ed)
                       /\ x = DropView(x.view, cur[x.view])
      /\ \A x \in B : x.kind = "CreateView" /\ x.view \in created
                       /\ x = CreateView(x.view, des[x.view])
  BY DEF PlanOf, DropsOf, CreatesOf, ReplacesOf, DropView, CreateView
<1>3. /\ A = {x \in all : x.kind = "DropView"} /\ B = {x \in all : x.kind = "CreateView"}
      /\ A \cap B = {}
  <2> HIDE DEF A, B, all
  <2> QED
    BY <1>2
<1> HIDE DEF s, all
<1>4. /\ Lists(a, A)
      /\ \A x, y \in A : ComesBefore(s, x, y) => ComesBefore(a, x, y)
  <2> DEFINE kind == "DropView"
  <2> HIDE DEF kind
  <2>1. /\ Lists(OfKinds(s, {kind}), {x \in all : x.kind = kind})
        /\ \A x, y : ComesBefore(s, x, y) /\ x.kind = kind /\ y.kind = kind =>
             ComesBefore(OfKinds(s, {kind}), x, y)
    BY <1>1, OfKindLists
  <2> QED
    BY <1>2, <1>3, <2>1 DEF kind
<1>5. /\ Lists(b, B)
      /\ NoCycle(DependencyGraph(des), created) =>
           \A u, v \in created : u \in DependencyGraph(des)[v] =>
             ComesBefore(b, CreateView(u, des[u]), CreateView(v, des[v]))
  <2>1. Lists(OfKinds(s, {"CreateView"}), B)
    <3> DEFINE kind == "CreateView"
    <3> HIDE DEF kind
    <3>1. Lists(OfKinds(s, {kind}), {x \in all : x.kind = kind})
      BY <1>1, OfKindLists
    <3> QED
      BY <1>3, <3>1 DEF kind
  <2>2. created \subseteq DOMAIN des
    BY DEF Created, Added
  <2> HIDE DEF created
  <2> QED
    BY <2>1, <2>2, SortCreateViewsLists
<1> HIDE DEF a, b, A, B
<1>6. /\ Lists(a \o b, all)
      /\ \A x, y : ComesBefore(a, x, y) \/ ComesBefore(b, x, y) \/ (x \in A /\ y \in B)
                     => ComesBefore(a \o b, x, y)
  BY <1>2, <1>3, <1>4, <1>5, ConcatenationLists
<1>7. ASSUME NEW x \in all, NEW y \in all, Precedes(cur, des, x, y)
      PROVE  ComesBefore(a \o b, x, y)
  <2>1. x \in A <=> x.kind = "DropView"
    BY <1>2, <1>3
  <2>2. y \in A <=> y.kind = "DropView"
    BY <1>2, <1>3
  <2>3. CASE x \in A /\ y \in B
    BY <1>6, <2>3
  <2>4. CASE x \in A /\ y \in A
    <3>1. /\ x.view \in rebuilt /\ y.view \in rebuilt
          /\ y.view \in DependencyGraph(cur)[x.view]
          /\ NoCycle(DependencyGraph(cur), rebuilt)
      BY <1>7, <2>1, <2>2, <2>4 DEF Precedes
    <3>2. ed
      BY <1>2, <2>4 DEF Dropped
    <3>3. ComesBefore(s, DropView(x.view, cur[x.view]), DropView(y.view, cur[y.view]))
      BY <1>1, <3>1, <3>2
    <3> QED
      BY <1>2, <1>4, <1>6, <2>4, <3>3
  <2>5. CASE x \in B /\ y \in B
    <3>1. x \notin A /\ y \notin A
      BY <1>3, <2>5
    <3>2. /\ x.view \in DependencyGraph(des)[y.view]
          /\ NoCycle(DependencyGraph(des), created)
      BY <1>7, <2>1, <2>2, <3>1 DEF Precedes
    <3>3. x.view \in created /\ y.view \in created
      BY <1>2, <2>5
    <3>4. ComesBefore(b, CreateView(x.view, des[x.view]), CreateView(y.view, des[y.view]))
      BY <1>5, <3>2, <3>3
    <3> QED
      BY <1>2, <1>6, <2>5, <3>4
  <2>6. CASE x \in B /\ y \in A
    <3>1. x \notin A
      BY ONLY <1>3, <2>6
    <3> QED
      BY <1>7, <2>1, <2>2, <2>6, <3>1 DEF Precedes
  <2> QED
    BY <1>2, <2>3, <2>4, <2>5, <2>6
<1>8. SortViewOps(s) = a \o b
  BY Zenon DEF SortViewOps, a, b
<1> QED
  BY <1>6, <1>7, <1>8 DEF Respects, s, all

(* A drop and a create that the generator fuses.                           *)
LEMMA FusingRespects ==
    ASSUME NEW cur, NEW des, IsSchema(cur), IsSchema(des), NEW ed \in BOOLEAN,
           NEW s, Respects(s, PlanOf(cur, des, ed, {}), cur, des),
           NEW i \in 1..(Len(s) - 1), FusesPair(s[i], s[i + 1]),
           NEW v, v = s[i + 1].view,
           NEW t, NEW z, z = ReplaceView(s[i + 1].view, s[i + 1].def)
    PROVE  t = SubSeq(s, 1, i - 1) \o <<z>> \o SubSeq(s, i + 2, Len(s)) =>
           /\ v \in Dropped(cur, des, ed) /\ v \in Created(cur, des)
           /\ Fusable(cur, des, {v})
           /\ Respects(t, PlanOf(cur, des, ed, {v}), cur, des)
<1> DEFINE all == PlanOf(cur, des, ed, {})
           a == s[i]
           b == s[i + 1]
           K == all \ {a, b}
           dropped == Dropped(cur, des, ed)
           created == Created(cur, des)
           rebuilt == Rebuilt(cur, des)
           graph == DependencyGraph(cur)
           Made == t = SubSeq(s, 1, i - 1) \o <<z>> \o SubSeq(s, i + 2, Len(s))
<1>1. /\ Lists(s, all)
      /\ \A x, y \in all : Precedes(cur, des, x, y) => ComesBefore(s, x, y)
      /\ z.kind = "ReplaceView" /\ z.view = v
  BY DEF Respects, ReplaceView
<1>2. /\ \A x \in all : \/ x.kind = "DropView" /\ x.view \in dropped
                           /\ x = DropView(x.view, cur[x.view])
                        \/ x.kind = "CreateView" /\ x.view \in created
                           /\ x = CreateView(x.view, des[x.view])
      /\ \A x \in dropped : DropView(x, cur[x]) \in all
  BY DEF PlanOf, DropsOf, CreatesOf, ReplacesOf, DropView, CreateView
<1>3. a.kind = "DropView" /\ b.kind = "CreateView" /\ a.view = v /\ b.view = v /\ b.def.plain
  BY DEF FusesPair
<1> HIDE DEF all, Made
<1>4. z \notin all
  BY <1>1, <1>2
<1>5. SUFFICES ASSUME Made
               PROVE  /\ v \in dropped /\ v \in created
                      /\ Fusable(cur, des, {v})
                      /\ Respects(t, PlanOf(cur, des, ed, {v}), cur, des)
  BY DEF Made
<1>6. /\ a \in all /\ b \in all /\ a # b /\ Lists(t, K \cup {z})
      /\ \A x, y \in K : ComesBefore(s, x, y) => ComesBefore(t, x, y)
      /\ \A x \in K : ComesBefore(s, x, a) \/ ComesBefore(s, x, b) => ComesBefore(t, x, z)
      /\ \A x \in K : ComesBefore(s, a, x) \/ ComesBefore(s, b, x) => ComesBefore(t, z, x)
  <2>1. FusedAt(t, s, i, z, all)
    BY <1>1, <1>4, <1>5, FusedLists DEF Made
  <2> QED
    BY <2>1 DEF FusedAt
<1> HIDE DEF a, b
<1>7. /\ v \in dropped /\ v \in created
      /\ a = DropView(v, cur[v]) /\ b = CreateView(v, des[v])
  BY <1>2, <1>3, <1>6
<1>8. des[v].plain /\ z = ReplaceView(v, des[v])
  <2>1. b.def = des[v]
    BY <1>7 DEF CreateView
  <2> QED
    BY <1>3, <2>1 DEF b
<1>9. K \cup {z} = PlanOf(cur, des, ed, {v})
  <2>1. K = DropsOf(dropped \ {v}, cur) \cup CreatesOf(created \ {v}, des)
    <3>1. all = DropsOf(dropped, cur) \cup CreatesOf(created, des)
      BY DEF all, PlanOf, ReplacesOf
    <3>2. DropsOf(dropped, cur) \ {a, b} = DropsOf(dropped \ {v}, cur)
      BY <1>7 DEF DropsOf, DropView, CreateView
    <3>3. CreatesOf(created, des) \ {a, b} = CreatesOf(created \ {v}, des)
      BY <1>7 DEF CreatesOf, DropView, CreateView
    <3> QED
      BY <3>1, <3>2, <3>3
  <2> QED
    BY <1>8, <2>1 DEF PlanOf, ReplacesOf
<1>10. v \in rebuilt /\ v \in DOMAIN cur /\ v \in DOMAIN des
  BY <1>7, RebuiltIsClosed DEF Dropped, Created, Added, Removed
<1>11. ASSUME NoCycle(graph, rebuilt), NEW u \in graph[v] \cap rebuilt PROVE FALSE
  <2> DEFINE x == DropView(u, cur[u])
  <2>1. u # v
    BY <1>10 DEF DependencyGraph
  <2>2. u \in dropped
    BY <1>7 DEF Dropped
  <2>3. /\ x \in all /\ x # a /\ x # b /\ x.kind = "DropView" /\ x.view = u
        /\ a.kind = "DropView" /\ a.view = v /\ b.kind = "CreateView"
    BY <1>2, <1>7, <2>1, <2>2 DEF DropView, CreateView
  <2> HIDE DEF x
  <2>4. ComesBefore(s, a, x)
    <3>1. Precedes(cur, des, a, x)
      BY <1>10, <1>11, <2>3 DEF Precedes
    <3> QED
      BY <1>1, <1>6, <2>3, <3>1
  <2>5. ComesBefore(s, x, b)
    <3>1. Precedes(cur, des, x, b)
      BY <2>3 DEF Precedes
    <3> QED
      BY <1>1, <1>6, <2>3, <3>1
  <2>6. /\ DOMAIN s \subseteq Nat /\ i \in DOMAIN s /\ i + 1 \in DOMAIN s
        /\ \A q, r \in DOMAIN s : s[q] = s[r] => q = r
    <3>1. s \in Seq(all)
      BY <1>1 DEF Lists
    <3>2. DOMAIN s = 1..Len(s) /\ Len(s) \in Nat
      BY <3>1
    <3> QED
      BY <1>1, <3>2 DEF Lists
  <2>7. PICK p \in DOMAIN s, q \in DOMAIN s : p < q /\ s[p] = a /\ s[q] = x
    BY <2>4 DEF ComesBefore
  <2>8. PICK q2 \in DOMAIN s, r \in DOMAIN s : q2 < r /\ s[q2] = x /\ s[r] = b
    BY <2>5 DEF ComesBefore
  <2>9. p = i /\ q = q2 /\ r = i + 1
    BY <2>6, <2>7, <2>8 DEF a, b
  <2> QED
    BY <2>6, <2>7, <2>8, <2>9
<1>12. Fusable(cur, des, {v})
  BY <1>8, <1>11 DEF Fusable
<1>13. \A x : /\ Precedes(cur, des, x, z) <=> Precedes(cur, des, x, b)
              /\ Precedes(cur, des, z, x) <=> Precedes(cur, des, b, x)
  BY <1>1, <1>3 DEF Precedes
<1>14. ~Precedes(cur, des, z, z)
  BY <1>1, <1>10 DEF Precedes, DependencyGraph
<1>15. ASSUME NEW x \in K \cup {z}, NEW y \in K \cup {z}, Precedes(cur, des, x, y)
       PROVE  ComesBefore(t, x, y)
  <2>1. CASE x \in K /\ y \in K
    BY <1>1, <1>6, <1>15, <2>1
  <2>2. CASE x \in K /\ y = z
    <3>1. ComesBefore(s, x, b)
      BY <1>1, <1>6, <1>13, <1>15, <2>2
    <3> QED
      BY <1>6, <2>2, <3>1
  <2>3. CASE x = z /\ y \in K
    <3>1. ComesBefore(s, b, y)
      BY <1>1, <1>6, <1>13, <1>15, <2>3
    <3> QED
      BY <1>6, <2>3, <3>1
  <2> QED
    BY <1>14, <1>15, <2>1, <2>2, <2>3
<1> QED
  BY <1>6, <1>7, <1>9, <1>12, <1>15 DEF Respects

(* What the engine plans, in an order that respects what reads what.       *)
LEMMA PlanRespects ==
    ASSUME NEW cur, NEW des, IsSchema(cur), IsSchema(des), NEW ed \in BOOLEAN
    PROVE  \E fused \in SUBSET (Dropped(cur, des, ed) \cap Created(cur, des)) :
              /\ Fusable(cur, des, fused)
              /\ Respects(PlanFor(cur, des, ed), PlanOf(cur, des, ed, fused), cur, des)
<1> DEFINE s == SortViewOps(CompareViews(cur, des, ed))
           at == {i \in 1..(Len(s) - 1) : Fuses /\ FusesPair(s[i], s[i + 1])}
           plan == PlanFor(cur, des, ed)
<1>1. Respects(s, PlanOf(cur, des, ed, {}), cur, des)
  BY SortViewOpsRespects
<1>2. plan = Generate(s)
  BY DEF PlanFor
<1> HIDE DEF s, plan
<1>3. CASE at = {}
  <2>1. plan = s
    BY <1>2, <1>3 DEF Generate
  <2>2. Fusable(cur, des, {})
    BY DEF Fusable
  <2> QED
    BY <1>1, <2>1, <2>2 DEF plan
<1>4. CASE at # {}
  <2> DEFINE i == CHOOSE i \in at : TRUE
             z == ReplaceView(s[i + 1].view, s[i + 1].def)
             v == s[i + 1].view
  <2>1. i \in at
    BY <1>4
  <2>2. plan = SubSeq(s, 1, i - 1) \o <<z>> \o SubSeq(s, i + 2, Len(s))
    BY <1>2, <1>4 DEF Generate
  <2> HIDE DEF i
  <2>3. i \in 1..(Len(s) - 1) /\ FusesPair(s[i], s[i + 1])
    BY <2>1
  <2>4. /\ v \in Dropped(cur, des, ed) /\ v \in Created(cur, des)
        /\ Fusable(cur, des, {v})
        /\ Respects(plan, PlanOf(cur, des, ed, {v}), cur, des)
    <3> DEFINE x == z
               y == v
    <3> HIDE DEF x, y
    <3>1. x = ReplaceView(s[i + 1].view, s[i + 1].def) /\ y = s[i + 1].view
      BY DEF x, y
    <3>2. plan = SubSeq(s, 1, i - 1) \o <<x>> \o SubSeq(s, i + 2, Len(s)) =>
          /\ y \in Dropped(cur, des, ed) /\ y \in Created(cur, des)
          /\ Fusable(cur, des, {y})
          /\ Respects(plan, PlanOf(cur, des, ed, {y}), cur, des)
      BY <1>1, <2>3, <3>1, FusingRespects
    <3> QED
      BY <2>2, <3>2 DEF x, y
  <2> QED
    BY <2>4 DEF plan
<1> QED
  BY <1>3, <1>4

-------------------------------------------------------------------------------
(* A run of the plan                                                       *)

(* The views that applied operations have created or replaced, and those   *)
(* they have dropped.                                                      *)
MadeBy(applied) == {op.view : op \in {o \in applied : o.kind # "DropView"}}
DroppedBy(applied) == {op.view : op \in {o \in applied : o.kind = "DropView"}}

DbAfter(cur, des, applied) ==
    [v \in MadeBy(applied) \cup (DOMAIN cur \ DroppedBy(applied)) |->
        IF v \in MadeBy(applied) THEN des[v] ELSE cur[v]]

OrderOf(cur, des, all) == {p \in all \X all : Precedes(cur, des, p[1], p[2])}

(* Where a run of a plan stands: what is left of it keeps the order, and   *)
(* the database is what the applied operations make of the exported views. *)
Stands(fused) ==
    LET all == PlanOf(current, desired, enableDrop, fused)
    IN /\ Fusable(current, desired, fused)
       /\ Remains(ops, all, OrderOf(current, desired, all))
       /\ db = DbAfter(current, desired, all \ EntriesOf(ops))

Fuseable == Dropped(current, desired, enableDrop) \cap Created(current, desired)

RunInv ==
    /\ \E in \in Inputs : current = in[1] /\ desired = in[2]
    /\ enableDrop \in BOOLEAN
    /\ pc \in {"diff", "apply", "rejected", "done"}
    /\ pc = "diff" => ops = <<>> /\ db = current
    /\ pc # "diff" => \E fused \in SUBSET Fuseable : Stands(fused)
    /\ pc = "done" => ops = <<>>
    /\ pc = "rejected" => ops # <<>> /\ ~Accepts(Head(ops))

(* The kinds of operation of a plan, and where their views come from.      *)
OfPlan(op, cur, des, ed, fused) ==
    \/ /\ op.kind = "DropView" /\ ed
       /\ op.view \in Dropped(cur, des, ed) \ fused
       /\ op = DropView(op.view, cur[op.view])
    \/ /\ op.kind = "CreateView" /\ op.def = des[op.view]
       /\ op.view \in Created(cur, des) \ fused
       /\ op = CreateView(op.view, des[op.view])
    \/ /\ op.kind = "ReplaceView" /\ op.def = des[op.view]
       /\ op.view \in fused /\ op.view \in Created(cur, des)
       /\ op = ReplaceView(op.view, des[op.view])

LEMMA PlanOperations ==
    ASSUME NEW cur, NEW des, NEW ed \in BOOLEAN,
           NEW fused \in SUBSET (Dropped(cur, des, ed) \cap Created(cur, des)),
           NEW op \in PlanOf(cur, des, ed, fused)
    PROVE  OfPlan(op, cur, des, ed, fused)
<1> USE DEF OfPlan
<1>1. CASE op \in DropsOf(Dropped(cur, des, ed) \ fused, cur)
  <2>1. PICK v \in Dropped(cur, des, ed) \ fused : op = DropView(v, cur[v])
    BY <1>1 DEF DropsOf
  <2>2. ed
    BY <2>1 DEF Dropped
  <2>3. op.kind = "DropView" /\ op.view = v
    BY <2>1 DEF DropView
  <2> QED
    BY <2>1, <2>2, <2>3
<1>2. CASE op \in CreatesOf(Created(cur, des) \ fused, des)
  BY <1>2 DEF CreatesOf, CreateView
<1>3. CASE op \in ReplacesOf(fused, des)
  BY <1>3 DEF ReplacesOf, ReplaceView
<1> QED
  BY <1>1, <1>2, <1>3 DEF PlanOf

(* There is an operation for every view to drop and to create.             *)
HasOperations(all, cur, dropped, created) ==
    /\ \A v \in dropped : /\ DropView(v, cur[v]) \in all
                          /\ DropView(v, cur[v]).kind = "DropView"
                          /\ DropView(v, cur[v]).view = v
    /\ \A v \in created : \E op \in all : op.kind # "DropView" /\ op.view = v

LEMMA PlanHasOperations ==
    ASSUME NEW cur, NEW des, NEW ed \in BOOLEAN,
           NEW fused \in SUBSET (Dropped(cur, des, ed) \cap Created(cur, des))
    PROVE  HasOperations(PlanOf(cur, des, ed, fused), cur,
                         Dropped(cur, des, ed) \ fused, Created(cur, des))
<1> USE DEF HasOperations
<1>1. \A v \in Dropped(cur, des, ed) \ fused : DropView(v, cur[v]) \in PlanOf(cur, des, ed, fused)
  BY DEF PlanOf, DropsOf
<1>2. \A v \in Created(cur, des) \ fused : CreateView(v, des[v]) \in PlanOf(cur, des, ed, fused)
  BY DEF PlanOf, CreatesOf
<1>3. \A v \in fused : ReplaceView(v, des[v]) \in PlanOf(cur, des, ed, fused)
  BY DEF PlanOf, ReplacesOf
<1>4. \A v, def : /\ DropView(v, def).kind = "DropView" /\ DropView(v, def).view = v
                  /\ CreateView(v, def).kind # "DropView" /\ CreateView(v, def).view = v
                  /\ ReplaceView(v, def).kind # "DropView" /\ ReplaceView(v, def).view = v
  BY DEF DropView, CreateView, ReplaceView
<1> QED
  BY <1>1, <1>2, <1>3, <1>4

(* An operation takes the database from what the plan has made of it so    *)
(* far to what it makes of it next, accepted or not.                       *)
LEMMA ApplyKeepsStanding ==
    ASSUME RunInv, pc = "apply", Apply, NEW fused \in SUBSET Fuseable, Stands(fused)
    PROVE  Stands(fused)'
<1> DEFINE cur == current
           des == desired
           all == PlanOf(current, desired, enableDrop, fused)
           R == OrderOf(current, desired, all)
           left == EntriesOf(ops)
           op == Head(ops)
           done == all \ left
           next == all \ EntriesOf(Tail(ops))
           made == MadeBy(done)
           gone == DroppedBy(done)
<1>1. /\ ops # <<>> /\ ops' = Tail(ops) /\ db' = Effect(op)
      /\ UNCHANGED <<current, desired, enableDrop>>
  BY DEF Apply
<1>2. /\ Fusable(cur, des, fused) /\ Remains(ops, all, R)
      /\ db = DbAfter(cur, des, done)
      /\ enableDrop \in BOOLEAN
  BY DEF Stands, RunInv
<1>3. /\ op \in left /\ op \in all
      /\ EntriesOf(Tail(ops)) = left \ {op}
      /\ Remains(Tail(ops), all, R)
      /\ \A first \in R : first[1] \in left => first[2] \in left
  <2> HIDE DEF all, R
  <2>1. \A first \in R : first[1] \in left => ComesBefore(ops, first[1], first[2]) /\ Lists(ops, left)
    BY <1>2 DEF Remains
  <2>2. \A first \in R : first[1] \in left => first[2] \in left
    BY <2>1, BeforeIsStrict
  <2> QED
    BY <1>1, <1>2, <2>2, TailRemains
<1>4. \/ /\ op.kind = "DropView"
         /\ op.view \in Dropped(cur, des, enableDrop) \ fused
      \/ /\ op.kind # "DropView" /\ op.def = des[op.view] /\ op.view \in Created(cur, des)
  <2>1. op \in all /\ fused \in SUBSET (Dropped(cur, des, enableDrop) \cap Created(cur, des))
    BY <1>3 DEF Fuseable
  <2> HIDE DEF op
  <2> QED
    BY <1>2, <2>1, PlanOperations DEF OfPlan
<1>5. next = done \cup {op}
  BY <1>3
<1> HIDE DEF done, next, op
<1>6. db' = DbAfter(cur, des, next)
  <2>1. CASE op.kind = "DropView"
    <3>1. \A o \in done : o.kind = "DropView"
      <4>1. SUFFICES ASSUME NEW o \in done, o.kind # "DropView" PROVE FALSE
        OBVIOUS
      <4>2. <<op, o>> \in R
        BY <1>3, <2>1, <4>1 DEF OrderOf, Precedes, done
      <4> QED
        BY <1>3, <4>1, <4>2 DEF done
    <3>2. made = {} /\ MadeBy(next) = {} /\ DroppedBy(next) = gone \cup {op.view}
      BY <1>5, <2>1, <3>1 DEF MadeBy, DroppedBy
    <3> HIDE DEF made, gone
    <3>3. db = [v \in DOMAIN cur \ gone |-> cur[v]]
      BY <1>2, <3>2 DEF DbAfter, made, gone
    <3>4. db' = [v \in DOMAIN db \ {op.view} |-> db[v]]
      BY <1>1, <2>1 DEF Effect
    <3>5. db' = [v \in DOMAIN cur \ (gone \cup {op.view}) |-> cur[v]]
      BY <3>3, <3>4
    <3> QED
      BY <3>2, <3>5 DEF DbAfter
  <2>2. CASE op.kind # "DropView"
    <3>1. MadeBy(next) = made \cup {op.view} /\ DroppedBy(next) = gone
      BY <1>5, <2>2 DEF MadeBy, DroppedBy
    <3> HIDE DEF made, gone
    <3>2. db = [v \in made \cup (DOMAIN cur \ gone) |-> IF v \in made THEN des[v] ELSE cur[v]]
      BY <1>2 DEF DbAfter, made, gone
    <3>3. db' = [v \in DOMAIN db \cup {op.view} |-> IF v = op.view THEN op.def ELSE db[v]]
      BY <1>1, <2>2 DEF Effect
    <3>4. op.def = des[op.view]
      BY <1>4, <2>2
    <3>5. db' = [v \in (made \cup {op.view}) \cup (DOMAIN cur \ gone) |->
                   IF v \in made \cup {op.view} THEN des[v] ELSE cur[v]]
      <4> DEFINE D == made \cup (DOMAIN cur \ gone)
      <4>1. DOMAIN db = D /\ \A v \in D : db[v] = IF v \in made THEN des[v] ELSE cur[v]
        BY <3>2
      <4>2. (made \cup {op.view}) \cup (DOMAIN cur \ gone) = D \cup {op.view}
        OBVIOUS
      <4>3. \A v \in D \cup {op.view} :
              (IF v = op.view THEN op.def ELSE db[v])
                = IF v \in made \cup {op.view} THEN des[v] ELSE cur[v]
        BY <3>4, <4>1
      <4> HIDE DEF D
      <4> QED
        BY <3>3, <4>1, <4>2, <4>3
    <3> QED
      BY <3>1, <3>5 DEF DbAfter
  <2> QED
    BY <2>1, <2>2
<1> QED
  BY <1>1, <1>2, <1>3, <1>6 DEF Stands, next

(* A plan starts with nothing applied.                                     *)
LEMMA PlanStands ==
    ASSUME RunInv, Plan
    PROVE  \E fused \in SUBSET Fuseable : Stands(fused)'
<1>1. /\ IsSchema(current) /\ IsSchema(desired) /\ enableDrop \in BOOLEAN
      /\ db' = current /\ ops' = PlanFor(current, desired, enableDrop)
      /\ UNCHANGED <<current, desired, enableDrop>>
  BY InputsAssumption DEF RunInv, Plan
<1>2. PICK fused \in SUBSET Fuseable :
         /\ Fusable(current, desired, fused)
         /\ Respects(PlanFor(current, desired, enableDrop),
                     PlanOf(current, desired, enableDrop, fused), current, desired)
  <2>1. \E fused \in SUBSET (Dropped(current, desired, enableDrop) \cap Created(current, desired)) :
         /\ Fusable(current, desired, fused)
         /\ Respects(PlanFor(current, desired, enableDrop),
                     PlanOf(current, desired, enableDrop, fused), current, desired)
    BY <1>1, PlanRespects
  <2> QED
    BY <2>1 DEF Fuseable
<1> DEFINE all == PlanOf(current, desired, enableDrop, fused)
           plan == PlanFor(current, desired, enableDrop)
<1>3. /\ Lists(plan, all)
      /\ \A x, y \in all : Precedes(current, desired, x, y) => ComesBefore(plan, x, y)
  BY <1>2 DEF Respects
<1> HIDE DEF all, plan
<1>4. EntriesOf(plan) = all
  BY <1>3 DEF Lists, EntriesOf
<1>5. Remains(plan, all, OrderOf(current, desired, all))
  <2>1. \A first \in OrderOf(current, desired, all) : ComesBefore(plan, first[1], first[2])
    BY <1>3 DEF OrderOf
  <2> QED
    BY <1>3, <1>4, <2>1 DEF Remains
<1>6. DbAfter(current, desired, all \ all) = current
  <2>1. MadeBy(all \ all) = {} /\ DroppedBy(all \ all) = {}
    BY DEF MadeBy, DroppedBy
  <2>2. DbAfter(current, desired, all \ all) = [v \in DOMAIN current |-> current[v]]
    BY <2>1 DEF DbAfter
  <2> QED
    BY <1>1, <2>2 DEF IsSchema
<1>7. Stands(fused)'
  BY <1>1, <1>2, <1>4, <1>5, <1>6 DEF Stands, all, plan
<1> QED
  BY <1>7

(* RunInv holds throughout.                                                *)
LEMMA InitRunInv == Init => RunInv
<1>1. SUFFICES ASSUME Init PROVE RunInv
  OBVIOUS
<1> QED
  BY <1>1 DEF Init, RunInv

(* Every step keeps it.                                                    *)
LEMMA NextRunInv == RunInv /\ [Next]_vars => RunInv'
<1>1. SUFFICES ASSUME RunInv, [Next]_vars PROVE RunInv'
  OBVIOUS
<1>2. CASE Plan
  <2>1. \E fused \in SUBSET Fuseable : Stands(fused)'
    BY <1>1, <1>2, PlanStands
  <2>2. Fuseable' = Fuseable
    BY <1>2 DEF Plan, Fuseable
  <2> QED
    BY <1>1, <1>2, <2>1, <2>2 DEF Plan, RunInv
<1>3. CASE Apply
  <2>1. PICK fused \in SUBSET Fuseable : Stands(fused)
    BY <1>1, <1>3 DEF Apply, RunInv
  <2>2. Stands(fused)'
    BY <1>1, <1>3, <2>1, ApplyKeepsStanding DEF Apply
  <2>3. Fuseable' = Fuseable
    BY <1>3 DEF Apply, Fuseable
  <2> QED
    BY <1>1, <1>3, <2>2, <2>3 DEF Apply, RunInv
<1>4. CASE Reject \/ Finish \/ UNCHANGED vars
  <2>0. UNCHANGED <<current, desired, enableDrop, ops, db>>
    BY <1>4 DEF Reject, Finish, vars
  <2>1. Fuseable' = Fuseable /\ \A fused : Stands(fused)' = Stands(fused)
    BY <2>0 DEF Fuseable, Stands
  <2>2. CASE Reject
    <3>1. Accepts(Head(ops))' = Accepts(Head(ops))
      BY <2>0 DEF Accepts
    <3> QED
      BY <1>1, <2>0, <2>1, <2>2, <3>1 DEF Reject, RunInv
  <2>3. CASE Finish
    BY <1>1, <2>0, <2>1, <2>3 DEF Finish, RunInv
  <2>4. CASE UNCHANGED vars
    <3>1. Accepts(Head(ops))' = Accepts(Head(ops))
      BY <2>0 DEF Accepts
    <3> QED
      BY <1>1, <2>1, <2>4, <3>1 DEF RunInv, vars
  <2> QED
    BY <1>4, <2>2, <2>3, <2>4
<1> QED
  BY <1>1, <1>2, <1>3, <1>4 DEF Next, Terminated

(* Where a run stands is an invariant of every run.                        *)
THEOREM RunInvariant == Spec => []RunInv
  BY InitRunInv, NextRunInv, PTL DEF Spec

-------------------------------------------------------------------------------
(* What follows from where the run stands                                  *)

(* A plan that ran to its end leaves the desired views, and drops views    *)
(* that only the database has exactly when enable_drop says so             *)
(* (compare_views of core/src/diff/compare_remaining.rs).                  *)
LEMMA RunMatches == RunInv => AppliedMatchesDesired
<1>1. SUFFICES ASSUME RunInv, pc = "done"
               PROVE  db = [v \in DOMAIN desired \cup (IF enableDrop THEN {} ELSE DOMAIN current) |->
                              IF v \in DOMAIN desired THEN desired[v] ELSE current[v]]
  BY DEF AppliedMatchesDesired
<1> DEFINE cur == current
           des == desired
           ed == enableDrop
           dropped == Dropped(cur, des, ed)
           created == Created(cur, des)
<1>2. /\ IsSchema(cur) /\ IsSchema(des) /\ ed \in BOOLEAN /\ ops = <<>>
      /\ \E fused \in SUBSET Fuseable : Stands(fused)
  BY <1>1, InputsAssumption DEF RunInv
<1>3. PICK fused \in SUBSET (dropped \cap created) : Stands(fused)
  BY <1>2 DEF Fuseable
<1> DEFINE all == PlanOf(cur, des, ed, fused)
           left == EntriesOf(ops)
<1>4. all \ left = all
  BY <1>2 DEF EntriesOf
<1>5. db = DbAfter(cur, des, all)
  BY <1>3, <1>4 DEF Stands
<1>6. MadeBy(all) = created /\ DroppedBy(all) = dropped \ fused
  <2>1. \A op \in all : IF op.kind = "DropView" THEN op.view \in dropped \ fused
                                                 ELSE op.view \in created
    BY <1>2, <1>3, PlanOperations DEF OfPlan
  <2>2. /\ \A v \in created : \E op \in all : op.kind # "DropView" /\ op.view = v
        /\ \A v \in dropped \ fused : \E op \in all : op.kind = "DropView" /\ op.view = v
    <3>1. /\ \A v \in dropped \ fused : /\ DropView(v, cur[v]) \in all
                                       /\ DropView(v, cur[v]).kind = "DropView"
                                       /\ DropView(v, cur[v]).view = v
          /\ \A v \in created : \E op \in all : op.kind # "DropView" /\ op.view = v
      BY <1>2, <1>3, PlanHasOperations DEF HasOperations
    <3> HIDE DEF all, dropped, created
    <3> QED
      BY <3>1
  <2> HIDE DEF all, dropped, created
  <2> QED
    BY <2>1, <2>2 DEF MadeBy, DroppedBy
<1>8. /\ Rebuilt(cur, des) \subseteq DOMAIN cur
      /\ ChangedRoots(cur, des) \subseteq Rebuilt(cur, des)
  BY <1>2, RebuiltIsClosed
<1> HIDE DEF all
<1>9. created \cup (DOMAIN cur \ (dropped \ fused))
        = DOMAIN des \cup (IF ed THEN {} ELSE DOMAIN cur)
  BY <1>2, <1>3, <1>8 DEF Created, Dropped, Added, Removed
<1>10. \A v \in DOMAIN des \cup (IF ed THEN {} ELSE DOMAIN cur) :
          (IF v \in created THEN des[v] ELSE cur[v])
            = IF v \in DOMAIN des THEN des[v] ELSE cur[v]
  BY <1>8 DEF Created, Added, ChangedRoots
<1> QED
  BY <1>5, <1>6, <1>9, <1>10 DEF DbAfter

(* A plan that ran to its end leaves the desired views, whatever the       *)
(* schemas, with enable_drop and without, fused or not.                    *)
THEOREM PlanMatchesDesired == Spec => []AppliedMatchesDesired
  BY RunInvariant, RunMatches, PTL

(* Views that read no changed view stay as they are while the plan runs:   *)
(* the rebuild set is the least one that is closed under reading           *)
(* (expand_rebuild_closure in core/src/diff/view_rebuild.rs).              *)
LEMMA RunSparesUnaffected == RunInv => UnaffectedStayInPlace
<1> DEFINE cur == current
           des == desired
           kept == DOMAIN cur \cap DOMAIN des
           changed == {v \in kept : cur[v] # des[v]}
<1>1. SUFFICES ASSUME RunInv, NEW vs \in SUBSET (DOMAIN cur \ changed),
                      \A v \in vs : ReadBy(cur[v]) \subseteq vs,
                      NEW v \in vs \cap kept
               PROVE  v \in DOMAIN db /\ db[v] = cur[v]
  BY DEF UnaffectedStayInPlace
<1>2. IsSchema(cur) /\ IsSchema(des) /\ enableDrop \in BOOLEAN
  BY <1>1, InputsAssumption DEF RunInv
<1>3. v \notin Rebuilt(cur, des)
  <2> DEFINE Y == DOMAIN cur \ vs
  <2>1. Y \in SUBSET DOMAIN cur /\ ChangedRoots(cur, des) \subseteq Y
    BY DEF ChangedRoots
  <2>2. \A w \in DOMAIN cur \ Y : DependencyGraph(cur)[w] \cap Y = {}
    BY <1>1 DEF DependencyGraph, ReadBy
  <2> HIDE DEF Y
  <2>3. Rebuilt(cur, des) \subseteq Y
    BY <1>2, <2>1, <2>2, RebuiltIsClosed
  <2> QED
    BY <1>1, <2>3 DEF Y
<1>4. v \notin Created(cur, des) /\ v \notin Dropped(cur, des, enableDrop)
  BY <1>1, <1>3 DEF Created, Dropped, Added, Removed
<1>5. CASE pc = "diff"
  BY <1>1, <1>5 DEF RunInv
<1>6. CASE pc # "diff"
  <2>1. PICK fused \in SUBSET Fuseable : Stands(fused)
    BY <1>1, <1>6 DEF RunInv
  <2> DEFINE all == PlanOf(cur, des, enableDrop, fused)
             done == all \ EntriesOf(ops)
  <2>2. \A op \in all : op.view # v
    <3>1. fused \in SUBSET (Dropped(cur, des, enableDrop) \cap Created(cur, des))
      BY <2>1 DEF Fuseable
    <3> QED
      BY <1>2, <1>4, <3>1, PlanOperations DEF OfPlan
  <2>3. db = DbAfter(cur, des, done)
    BY <2>1 DEF Stands
  <2> HIDE DEF all
  <2>4. v \notin MadeBy(done) /\ v \notin DroppedBy(done)
    BY <2>2 DEF MadeBy, DroppedBy
  <2> QED
    BY <1>1, <2>3, <2>4 DEF DbAfter
<1> QED
  BY <1>5, <1>6

(* A view that reads no changed view stays as it is while the plan runs    *)
(* (expand_rebuild_closure in core/src/diff/view_rebuild.rs).              *)
THEOREM UnaffectedAreSpared == Spec => []UnaffectedStayInPlace
  BY RunInvariant, RunSparesUnaffected, PTL

-------------------------------------------------------------------------------
(* What the database refuses                                               *)

(* In schemas without cycles the dependency graphs have none.              *)
LEMMA GraphsHaveNoCycle ==
    ASSUME NEW cur, NEW des, IsSchema(cur), IsSchema(des), Rebuildable(cur, des)
    PROVE  /\ NoCycle(DependencyGraph(cur), Rebuilt(cur, des))
           /\ NoCycle(DependencyGraph(des), Created(cur, des))
<1>1. Rebuilt(cur, des) \subseteq DOMAIN cur /\ Created(cur, des) \subseteq DOMAIN des
  BY RebuiltIsClosed DEF Created, Added
<1>2. ASSUME NEW schema, Acyclic(schema), NEW views, views \subseteq DOMAIN schema
      PROVE  NoCycle(DependencyGraph(schema), views)
  <2>1. SUFFICES ASSUME NEW B \in SUBSET views, B # {}
                 PROVE  \E v \in B : DependencyGraph(schema)[v] \cap B = {}
    BY DEF NoCycle
  <2>2. PICK v \in B : ReadBy(schema[v]) \cap B = {}
    BY <1>2, <2>1 DEF Acyclic
  <2>3. DependencyGraph(schema)[v] \subseteq ReadBy(schema[v])
    BY <1>2, <2>1, <2>2 DEF DependencyGraph, ReadBy
  <2> QED
    BY <2>2, <2>3
<1> QED
  BY <1>1, <1>2 DEF Rebuildable

(* When a view is created or replaced, what it reads is there.             *)
LEMMA ReadsArePresent ==
    ASSUME RunInv, Rebuildable(current, desired), ops # <<>>, pc # "diff",
           NEW fused \in SUBSET Fuseable, Stands(fused), Head(ops).kind # "DropView"
    PROVE  ReadBy(Head(ops).def) \subseteq DOMAIN db
<1> DEFINE cur == current
           des == desired
           created == Created(cur, des)
           all == PlanOf(cur, des, enableDrop, fused)
           left == EntriesOf(ops)
           done == all \ left
           op == Head(ops)
           v == op.view
<1>1. IsSchema(cur) /\ IsSchema(des) /\ enableDrop \in BOOLEAN
  BY InputsAssumption DEF RunInv
<1>2. fused \in SUBSET (Dropped(cur, des, enableDrop) \cap created)
  BY DEF Fuseable
<1>3. /\ op \in left /\ op \in all
      /\ \A x \in all : Precedes(cur, des, x, op) => x \notin left
  <2>1. Remains(ops, all, OrderOf(cur, des, all))
    BY DEF Stands
  <2> HIDE DEF all
  <2>2. /\ op \in left /\ op \in all
        /\ \A first \in OrderOf(cur, des, all) : first[2] = op => first[1] \notin left
    BY <2>1, TailRemains
  <2>3. \A x \in all : Precedes(cur, des, x, op) => <<x, op>> \in OrderOf(cur, des, all)
    BY <2>2 DEF OrderOf
  <2> QED
    BY <2>2, <2>3
<1>4. v \in created /\ op.def = des[v] /\ op.kind # "DropView"
  <2>1. op.kind # "DropView"
    OBVIOUS
  <2>2. /\ op \in PlanOf(cur, des, enableDrop, fused) /\ enableDrop \in BOOLEAN
        /\ fused \in SUBSET (Dropped(cur, des, enableDrop) \cap Created(cur, des))
    BY <1>1, <1>2, <1>3
  <2> HIDE DEF op
  <2>3. OfPlan(op, cur, des, enableDrop, fused)
    BY <2>2, PlanOperations
  <2> QED
    BY <2>1, <2>3 DEF OfPlan
<1>5. db = DbAfter(cur, des, done)
  BY DEF Stands
<1>6. NoCycle(DependencyGraph(des), created)
  BY <1>1, GraphsHaveNoCycle
<1>7. /\ created \subseteq DOMAIN des
      /\ created \subseteq Rebuilt(cur, des) \cup (DOMAIN des \ DOMAIN cur)
      /\ DOMAIN des \subseteq created \cup (DOMAIN cur \ Rebuilt(cur, des))
  BY <1>1, RebuiltIsClosed DEF Created, Added
<1>8. /\ ReadBy(des[v]) \subseteq DOMAIN des /\ v \notin ReadBy(des[v])
      /\ des[v].missed \cap created = {}
  <2>1. v \in DOMAIN des
    BY <1>4, <1>7
  <2>2. {v} \in SUBSET DOMAIN des
    BY <2>1
  <2>3. \E w \in {v} : ReadBy(des[w]) \cap {v} = {}
    BY <2>2 DEF Rebuildable, Acyclic
  <2>4. des[v].missed \cap (Rebuilt(cur, des) \cup (DOMAIN des \ DOMAIN cur)) = {}
    BY <2>1 DEF Rebuildable, Rebuilt
  <2> QED
    BY <1>7, <2>1, <2>3, <2>4 DEF Rebuildable, Complete
<1> HIDE DEF all, op, created
<1>9. ASSUME NEW u \in ReadBy(des[v]) PROVE u \in MadeBy(done) \cup (DOMAIN cur \ DroppedBy(done))
  <2>1. u \in DOMAIN des /\ u # v
    BY <1>8, <1>9
  <2>2. CASE u \in created
    <3>1. u \in DependencyGraph(des)[v]
      <4>1. u \in des[v].reads /\ v \in DOMAIN des
        BY <1>4, <1>7, <1>8, <1>9, <2>2 DEF ReadBy
      <4> QED
        BY <2>1, <4>1 DEF DependencyGraph
    <3>2. PICK x \in all : x.kind # "DropView" /\ x.view = u
      BY <1>1, <1>2, <2>2, PlanHasOperations DEF all, created, HasOperations
    <3>3. Precedes(cur, des, x, op)
      BY <1>4, <1>6, <3>1, <3>2 DEF Precedes, created
    <3>4. x \in done
      BY <1>3, <3>2, <3>3
    <3> QED
      BY <3>2, <3>4 DEF MadeBy
  <2>3. CASE u \notin created
    <3>1. u \in DOMAIN cur /\ u \notin Rebuilt(cur, des)
      BY <1>7, <2>1, <2>3
    <3>2. u \notin Dropped(cur, des, enableDrop)
      BY <2>1, <3>1 DEF Dropped, Removed
    <3>3. ASSUME NEW x \in all, x.kind = "DropView", x.view = u PROVE FALSE
      BY <1>1, <1>2, <3>2, <3>3, PlanOperations DEF all, created, OfPlan
    <3> QED
      BY <3>1, <3>3 DEF DroppedBy
  <2> QED
    BY <2>2, <2>3
<1> QED
  BY <1>4, <1>5, <1>9 DEF DbAfter, op

(* The rebuild set is closed and its orders are right: in schemas that a   *)
(* database could hold, it refuses only to drop a removed view that        *)
(* another one reads and, without enable_drop, to create what is there     *)
(* (core/src/diff/view_rebuild.rs, DESIGN.md, safety case S11).            *)
LEMMA RunIsAccepted ==
    ASSUME RunInv, Rebuildable(current, desired)
    PROVE  RebuildAccepted
<1>1. SUFFICES ASSUME pc = "rejected",
                      ~(Head(ops).kind = "DropView" /\ Head(ops).view \notin DOMAIN desired),
                      ~(Head(ops).kind = "CreateView" /\ ~enableDrop)
               PROVE  FALSE
  BY DEF RebuildAccepted
<1> DEFINE cur == current
           des == desired
           ed == enableDrop
           rebuilt == Rebuilt(cur, des)
           created == Created(cur, des)
           dropped == Dropped(cur, des, ed)
           graph == DependencyGraph(cur)
           left == EntriesOf(ops)
           op == Head(ops)
           v == op.view
<1>2. /\ IsSchema(cur) /\ IsSchema(des) /\ ed \in BOOLEAN
      /\ ops # <<>> /\ ~Accepts(op) /\ pc # "diff"
  BY <1>1, InputsAssumption DEF RunInv
<1>3. PICK fused \in SUBSET Fuseable : Stands(fused)
  BY <1>1, <1>2 DEF RunInv
<1> DEFINE all == PlanOf(cur, des, ed, fused)
           done == all \ left
           made == MadeBy(done)
           gone == DroppedBy(done)
<1>4. fused \in SUBSET (dropped \cap created)
  BY DEF Fuseable
<1>5. /\ op \in left /\ op \in all
      /\ \A x \in all : Precedes(cur, des, x, op) => x \notin left
      /\ \A x \in all : Precedes(cur, des, op, x) => x \in left
  <2>1. Remains(ops, all, OrderOf(cur, des, all))
    BY <1>3 DEF Stands
  <2> HIDE DEF all
  <2>2. /\ op \in left /\ op \in all
        /\ \A first \in OrderOf(cur, des, all) : first[2] = op => first[1] \notin left
    BY <1>2, <2>1, TailRemains
  <2>3. \A x \in all : Precedes(cur, des, x, op) => <<x, op>> \in OrderOf(cur, des, all)
    BY <2>2 DEF OrderOf
  <2>4. \A x \in all : Precedes(cur, des, op, x) => <<op, x>> \in OrderOf(cur, des, all)
    BY <2>2 DEF OrderOf
  <2>5. Lists(ops, left) /\ \A first \in OrderOf(cur, des, all) :
                              first[1] \in left => ComesBefore(ops, first[1], first[2])
    BY <2>1 DEF Remains
  <2>6. \A x \in all : Precedes(cur, des, op, x) => ComesBefore(ops, op, x)
    BY <2>2, <2>4, <2>5
  <2>7. \A x \in all : Precedes(cur, des, op, x) => x \in left
    BY <2>5, <2>6, BeforeIsStrict
  <2> QED
    BY <2>2, <2>3, <2>7
<1>6. /\ Fusable(cur, des, fused) /\ db = DbAfter(cur, des, done)
      /\ DOMAIN db = made \cup (DOMAIN cur \ gone)
      /\ \A w \in DOMAIN db : db[w] = IF w \in made THEN des[w] ELSE cur[w]
  BY <1>3 DEF Stands, DbAfter
<1>7. \/ /\ op.kind = "DropView" /\ ed /\ v \in dropped \ fused
         /\ op = DropView(v, cur[v])
      \/ /\ op.kind = "CreateView" /\ ed /\ v \in created \ fused
         /\ op = CreateView(v, des[v])
      \/ /\ op.kind = "ReplaceView" /\ op.def = des[v]
         /\ v \in fused /\ op = ReplaceView(v, des[v])
  <2> HIDE DEF op
  <2> QED
    BY <1>1, <1>2, <1>4, <1>5, PlanOperations DEF op, OfPlan
<1>8. ASSUME NEW x \in all
      PROVE  \/ x.kind = "DropView" /\ x.view \in dropped \ fused /\ x = DropView(x.view, cur[x.view])
             \/ x.kind = "CreateView" /\ x.view \in created \ fused /\ x = CreateView(x.view, des[x.view])
             \/ x.kind = "ReplaceView" /\ x.view \in fused /\ x = ReplaceView(x.view, des[x.view])
  <2>1. OfPlan(x, cur, des, ed, fused)
    BY <1>2, <1>4, <1>8, PlanOperations
  <2> QED
    BY <2>1 DEF OfPlan
<1>9. \A w \in dropped \ fused : /\ DropView(w, cur[w]) \in all
                                /\ DropView(w, cur[w]).kind = "DropView"
                                /\ DropView(w, cur[w]).view = w
  <2>1. HasOperations(all, cur, dropped \ fused, created)
    BY <1>2, <1>4, PlanHasOperations
  <2> QED
    BY <2>1 DEF HasOperations
<1>10. /\ rebuilt \subseteq DOMAIN cur
       /\ \A w \in DOMAIN cur : graph[w] \cap rebuilt # {} => w \in rebuilt
  BY <1>2, RebuiltIsClosed
<1>11. NoCycle(graph, rebuilt)
  BY <1>2, GraphsHaveNoCycle
<1>12. op.kind # "DropView" => ReadBy(op.def) \subseteq DOMAIN db
  BY <1>2, <1>3, ReadsArePresent
<1> HIDE DEF op, all, done, made, gone, left
<1>13. CASE op.kind = "CreateView"
  <2>1. ed /\ v \in created \ fused /\ op = CreateView(v, des[v])
    BY <1>7, <1>13
  <2>2. v \notin made
    <3>1. SUFFICES ASSUME NEW x \in done, x.kind # "DropView", x.view = v PROVE FALSE
      BY DEF made, MadeBy
    <3>2. x = CreateView(v, des[v])
      BY <1>8, <2>1, <3>1 DEF done
    <3> QED
      BY <1>5, <2>1, <3>1, <3>2 DEF done
  <2>3. ASSUME v \in DOMAIN cur PROVE v \in gone
    <3>1. v \in dropped \ fused
      BY <2>1, <2>3 DEF Created, Added, Dropped
    <3> DEFINE x == DropView(v, cur[v])
    <3>2. x \in all /\ x.kind = "DropView" /\ x.view = v
      BY <1>9, <3>1
    <3> HIDE DEF x
    <3>3. x \in done
      BY <1>5, <1>13, <3>2 DEF Precedes, done
    <3> QED
      BY <3>2, <3>3 DEF gone, DroppedBy
  <2>4. v \notin DOMAIN db
    BY <1>6, <2>2, <2>3
  <2> QED
    BY <1>2, <1>12, <1>13, <2>4 DEF Accepts
<1>14. CASE op.kind = "ReplaceView"
  <2>1. v \in fused /\ op = ReplaceView(v, des[v]) /\ op.def = des[v]
    BY <1>7, <1>14
  <2>2. v \notin made
    <3>1. SUFFICES ASSUME NEW x \in done, x.kind # "DropView", x.view = v PROVE FALSE
      BY DEF made, MadeBy
    <3>2. x = ReplaceView(v, des[v])
      BY <1>8, <2>1, <3>1 DEF done
    <3> QED
      BY <1>5, <2>1, <3>1, <3>2 DEF done
  <2>3. v \in DOMAIN cur /\ v \in DOMAIN des
    BY <1>4, <1>10, <2>1 DEF Created, Dropped, Added, Removed
  <2>4. des[v].columns >= cur[v].columns
    BY <1>6, <2>1, <2>3 DEF Fusable, Rebuildable
  <2>5. v \in DOMAIN db => op.def.columns >= db[v].columns
    BY <1>6, <2>1, <2>2, <2>4
  <2> QED
    BY <1>2, <1>12, <1>14, <2>5 DEF Accepts
<1>15. CASE op.kind = "DropView"
  <2>1. ed /\ v \in dropped \ fused /\ op = DropView(v, cur[v]) /\ v \in DOMAIN des
    BY <1>1, <1>7, <1>15 DEF op
  <2>2. v \in rebuilt /\ v \in DOMAIN cur
    BY <1>10, <2>1 DEF Dropped, Removed
  <2>3. v \notin gone
    <3>1. SUFFICES ASSUME NEW x \in done, x.kind = "DropView", x.view = v PROVE FALSE
      BY DEF gone, DroppedBy
    <3>2. x = DropView(v, cur[v])
      BY <1>8, <3>1 DEF done
    <3> QED
      BY <1>5, <2>1, <3>1, <3>2 DEF done
  <2>4. made = {}
    <3>1. SUFFICES ASSUME NEW x \in done, x.kind # "DropView" PROVE FALSE
      BY DEF made, MadeBy
    <3>2. Precedes(cur, des, op, x)
      BY <1>15, <3>1 DEF Precedes
    <3> QED
      BY <1>5, <3>1, <3>2 DEF done
  <2>5. ASSUME NEW w \in DOMAIN db, v \in ReadBy(db[w]) PROVE FALSE
    <3>1. w \in DOMAIN cur /\ w \notin gone /\ v \in ReadBy(cur[w])
      BY <1>6, <2>4, <2>5
    <3>2. v \in cur[w].reads
      <4>1. cur[w].missed \cap (rebuilt \cup (DOMAIN des \ DOMAIN cur)) = {}
        BY <3>1 DEF Rebuildable, Rebuilt
      <4> QED
        BY <2>2, <3>1, <4>1 DEF ReadBy
    <3>3. w # v
      <4>1. {w} \in SUBSET DOMAIN cur
        BY <3>1
      <4>2. \E x \in {w} : ReadBy(cur[x]) \cap {w} = {}
        BY <4>1 DEF Rebuildable, Acyclic
      <4> QED
        BY <3>1, <4>2
    <3>4. v \in graph[w]
      BY <2>2, <3>1, <3>2, <3>3 DEF DependencyGraph
    <3>5. w \in rebuilt /\ w \in dropped
      BY <1>10, <2>1, <2>2, <3>1, <3>4 DEF Dropped
    <3>6. w \notin fused
      BY <1>6, <1>11, <2>2, <3>4 DEF Fusable
    <3> DEFINE x == DropView(w, cur[w])
    <3>7. x \in all /\ x.kind = "DropView" /\ x.view = w
      BY <1>9, <3>5, <3>6
    <3> HIDE DEF x
    <3>8. Precedes(cur, des, x, op)
      BY <1>11, <1>15, <2>2, <3>4, <3>5, <3>7 DEF Precedes
    <3>9. x \in done
      BY <1>5, <3>7, <3>8 DEF done
    <3> QED
      BY <3>1, <3>7, <3>9 DEF gone, DroppedBy
  <2>6. v \in DOMAIN db
    BY <1>6, <2>2, <2>3
  <2> QED
    BY <1>2, <1>15, <2>5, <2>6 DEF Accepts
<1> QED
  BY <1>7, <1>13, <1>14, <1>15

(* In schemas that a database could hold the rebuild finds an order that   *)
(* the database accepts (DESIGN.md, safety case S11).                      *)
THEOREM RebuildIsAccepted ==
    ASSUME \A in \in Inputs : Rebuildable(in[1], in[2])
    PROVE  Spec => []RebuildAccepted
<1>1. RunInv => RebuildAccepted
  <2>1. RunInv => Rebuildable(current, desired)
    BY DEF RunInv
  <2> QED
    BY <2>1, RunIsAccepted
<1> QED
  BY <1>1, RunInvariant, PTL
===============================================================================
