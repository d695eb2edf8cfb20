---------------------------- MODULE ComparisonProofs ----------------------------
(***************************************************************************)
(* Theorems about Comparison, for whatever schemas are compared: a run     *)
(* without enable_drop loses nothing, and what a plan leaves out is        *)
(* reported as often as it is left out.                                    *)
(***************************************************************************)
EXTENDS Comparison, DataLemmas

-------------------------------------------------------------------------------
(* The parts order their plans as OpOrder does: each has a copy of its     *)
(* definitions.                                                            *)

(* TableDiff with schemas in the export.                                   *)
LEMMA TSorts ==
    /\ \A s, k : T!Picked(s, k) = Picked(s, k)
    /\ \A s : T!SE!FlattenSeq(s) = SE!FlattenSeq(s)
    /\ \A s : T!SortDiffOps(s) = SortDiffOps(s)
<1>1. /\ \A s, k : T!Picked(s, k) = Picked(s, k)
      /\ \A s, k : T!OfKinds(s, k) = OfKinds(s, k)
      /\ \A s, k : T!OnTable(s, k) = OnTable(s, k)
      /\ \A s : T!TablesOf(s) = TablesOf(s)
  BY DEF T!OfKinds, OfKinds, T!OnTable, OnTable, T!TablesOf, TablesOf,
         T!Picked, Picked, T!InOrder, InOrder, T!Cardinality, Cardinality
<1>2. \A s : T!SE!FlattenSeq(s) = SE!FlattenSeq(s)
  BY DEF T!SE!FlattenSeq, SE!FlattenSeq
<1>3. /\ T!PriorityGroups = PriorityGroups /\ T!TableScoped = TableScoped
      /\ T!TableSubPriorities = TableSubPriorities
  BY DEF T!PriorityGroups, PriorityGroups, T!TableSubPriorities, TableSubPriorities,
         T!TableScoped, TableScoped
<1>4. \A s : T!BySubPriority(s) = BySubPriority(s)
  BY <1>1, <1>2, <1>3 DEF T!BySubPriority, BySubPriority
<1>5. \A s : T!SortDiffOps(s) = SortDiffOps(s)
  BY <1>1, <1>2, <1>3, <1>4
     DEF T!SortDiffOps, SortDiffOps, T!SortTableScoped, SortTableScoped
<1> QED
  BY <1>1, <1>2, <1>5

(* TableDiff without.                                                      *)
LEMMA USorts ==
    /\ \A s, k : U!Picked(s, k) = Picked(s, k)
    /\ \A s : U!SE!FlattenSeq(s) = SE!FlattenSeq(s)
    /\ \A s : U!SortDiffOps(s) = SortDiffOps(s)
<1>1. /\ \A s, k : U!Picked(s, k) = Picked(s, k)
      /\ \A s, k : U!OfKinds(s, k) = OfKinds(s, k)
      /\ \A s, k : U!OnTable(s, k) = OnTable(s, k)
      /\ \A s : U!TablesOf(s) = TablesOf(s)
  BY DEF U!OfKinds, OfKinds, U!OnTable, OnTable, U!TablesOf, TablesOf,
         U!Picked, Picked, U!InOrder, InOrder, U!Cardinality, Cardinality
<1>2. \A s : U!SE!FlattenSeq(s) = SE!FlattenSeq(s)
  BY DEF U!SE!FlattenSeq, SE!FlattenSeq
<1>3. /\ U!PriorityGroups = PriorityGroups /\ U!TableScoped = TableScoped
      /\ U!TableSubPriorities = TableSubPriorities
  BY DEF U!PriorityGroups, PriorityGroups, U!TableSubPriorities, TableSubPriorities,
         U!TableScoped, TableScoped
<1>4. \A s : U!BySubPriority(s) = BySubPriority(s)
  BY <1>1, <1>2, <1>3 DEF U!BySubPriority, BySubPriority
<1>5. \A s : U!SortDiffOps(s) = SortDiffOps(s)
  BY <1>1, <1>2, <1>3, <1>4
     DEF U!SortDiffOps, SortDiffOps, U!SortTableScoped, SortTableScoped
<1> QED
  BY <1>1, <1>2, <1>5

(* ColumnDiff.                                                             *)
LEMMA CSorts ==
    /\ \A s, k : C!Picked(s, k) = Picked(s, k)
    /\ \A s : C!SE!FlattenSeq(s) = SE!FlattenSeq(s)
    /\ \A s : C!SortDiffOps(s) = SortDiffOps(s)
<1>1. /\ \A s, k : C!Picked(s, k) = Picked(s, k)
      /\ \A s, k : C!OfKinds(s, k) = OfKinds(s, k)
      /\ \A s, k : C!OnTable(s, k) = OnTable(s, k)
      /\ \A s : C!TablesOf(s) = TablesOf(s)
  BY DEF C!OfKinds, OfKinds, C!OnTable, OnTable, C!TablesOf, TablesOf,
         C!Picked, Picked, C!InOrder, InOrder, C!Cardinality, Cardinality
<1>2. \A s : C!SE!FlattenSeq(s) = SE!FlattenSeq(s)
  BY DEF C!SE!FlattenSeq, SE!FlattenSeq
<1>3. /\ C!PriorityGroups = PriorityGroups /\ C!TableScoped = TableScoped
      /\ C!TableSubPriorities = TableSubPriorities
  BY DEF C!PriorityGroups, PriorityGroups, C!TableSubPriorities, TableSubPriorities,
         C!TableScoped, TableScoped
<1>4. \A s : C!BySubPriority(s) = BySubPriority(s)
  BY <1>1, <1>2, <1>3 DEF C!BySubPriority, BySubPriority
<1>5. \A s : C!SortDiffOps(s) = SortDiffOps(s)
  BY <1>1, <1>2, <1>3, <1>4
     DEF C!SortDiffOps, SortDiffOps, C!SortTableScoped, SortTableScoped
<1> QED
  BY <1>1, <1>2, <1>5

(* ObjectDiff.                                                             *)
LEMMA OSorts ==
    /\ \A s, k : O!Picked(s, k) = Picked(s, k)
    /\ \A s : O!SE!FlattenSeq(s) = SE!FlattenSeq(s)
    /\ \A s : O!SortDiffOps(s) = SortDiffOps(s)
<1>1. /\ \A s, k : O!Picked(s, k) = Picked(s, k)
      /\ \A s, k : O!OfKinds(s, k) = OfKinds(s, k)
      /\ \A s, k : O!OnTable(s, k) = OnTable(s, k)
      /\ \A s : O!TablesOf(s) = TablesOf(s)
  BY DEF O!OfKinds, OfKinds, O!OnTable, OnTable, O!TablesOf, TablesOf,
         O!Picked, Picked, O!InOrder, InOrder, O!Cardinality, Cardinality
<1>2. \A s : O!SE!FlattenSeq(s) = SE!FlattenSeq(s)
  BY DEF O!SE!FlattenSeq, SE!FlattenSeq
<1>3. /\ O!PriorityGroups = PriorityGroups /\ O!TableScoped = TableScoped
      /\ O!TableSubPriorities = TableSubPriorities
  BY DEF O!PriorityGroups, PriorityGroups, O!TableSubPriorities, TableSubPriorities,
         O!TableScoped, TableScoped
<1>4. \A s : O!BySubPriority(s) = BySubPriority(s)
  BY <1>1, <1>2, <1>3 DEF O!BySubPriority, BySubPriority
<1>5. \A s : O!SortDiffOps(s) = SortDiffOps(s)
  BY <1>1, <1>2, <1>3, <1>4
     DEF O!SortDiffOps, SortDiffOps, O!SortTableScoped, SortTableScoped
<1> QED
  BY <1>1, <1>2, <1>5

(* AlterObjects.                                                           *)
LEMMA ASorts ==
    /\ \A s, k : A!Picked(s, k) = Picked(s, k)
    /\ \A s : A!SE!FlattenSeq(s) = SE!FlattenSeq(s)
    /\ \A s : A!SortDiffOps(s) = SortDiffOps(s)
<1>1. /\ \A s, k : A!Picked(s, k) = Picked(s, k)
      /\ \A s, k : A!OfKinds(s, k) = OfKinds(s, k)
      /\ \A s, k : A!OnTable(s, k) = OnTable(s, k)
      /\ \A s : A!TablesOf(s) = TablesOf(s)
  BY DEF A!OfKinds, OfKinds, A!OnTable, OnTable, A!TablesOf, TablesOf,
         A!Picked, Picked, A!InOrder, InOrder, A!Cardinality, Cardinality
<1>2. \A s : A!SE!FlattenSeq(s) = SE!FlattenSeq(s)
  BY DEF A!SE!FlattenSeq, SE!FlattenSeq
<1>3. /\ A!PriorityGroups = PriorityGroups /\ A!TableScoped = TableScoped
      /\ A!TableSubPriorities = TableSubPriorities
  BY DEF A!PriorityGroups, PriorityGroups, A!TableSubPriorities, TableSubPriorities,
         A!TableScoped, TableScoped
<1>4. \A s : A!BySubPriority(s) = BySubPriority(s)
  BY <1>1, <1>2, <1>3 DEF A!BySubPriority, BySubPriority
<1>5. \A s : A!SortDiffOps(s) = SortDiffOps(s)
  BY <1>1, <1>2, <1>3, <1>4
     DEF A!SortDiffOps, SortDiffOps, A!SortTableScoped, SortTableScoped
<1> QED
  BY <1>1, <1>2, <1>5

(* Privileges.                                                             *)
LEMMA VSorts ==
    /\ \A s, k : V!Picked(s, k) = Picked(s, k)
    /\ \A s : V!SE!FlattenSeq(s) = SE!FlattenSeq(s)
    /\ \A s : V!SortDiffOps(s) = SortDiffOps(s)
<1>1. /\ \A s, k : V!Picked(s, k) = Picked(s, k)
      /\ \A s, k : V!OfKinds(s, k) = OfKinds(s, k)
      /\ \A s, k : V!OnTable(s, k) = OnTable(s, k)
      /\ \A s : V!TablesOf(s) = TablesOf(s)
  BY DEF V!OfKinds, OfKinds, V!OnTable, OnTable, V!TablesOf, TablesOf,
         V!Picked, Picked, V!InOrder, InOrder, V!Cardinality, Cardinality
<1>2. \A s : V!SE!FlattenSeq(s) = SE!FlattenSeq(s)
  BY DEF V!SE!FlattenSeq, SE!FlattenSeq
<1>3. /\ V!PriorityGroups = PriorityGroups /\ V!TableScoped = TableScoped
      /\ V!TableSubPriorities = TableSubPriorities
  BY DEF V!PriorityGroups, PriorityGroups, V!TableSubPriorities, TableSubPriorities,
         V!TableScoped, TableScoped
<1>4. \A s : V!BySubPriority(s) = BySubPriority(s)
  BY <1>1, <1>2, <1>3 DEF V!BySubPriority, BySubPriority
<1>5. \A s : V!SortDiffOps(s) = SortDiffOps(s)
  BY <1>1, <1>2, <1>3, <1>4
     DEF V!SortDiffOps, SortDiffOps, V!SortTableScoped, SortTableScoped
<1> QED
  BY <1>1, <1>2, <1>5

(* Partitions.                                                             *)
LEMMA PSorts ==
    /\ \A s, k : P!Picked(s, k) = Picked(s, k)
    /\ \A s : P!SE!FlattenSeq(s) = SE!FlattenSeq(s)
    /\ \A s : P!SortDiffOps(s) = SortDiffOps(s)
<1>1. /\ \A s, k : P!Picked(s, k) = Picked(s, k)
      /\ \A s, k : P!OfKinds(s, k) = OfKinds(s, k)
      /\ \A s, k : P!OnTable(s, k) = OnTable(s, k)
      /\ \A s : P!TablesOf(s) = TablesOf(s)
  BY DEF P!OfKinds, OfKinds, P!OnTable, OnTable, P!TablesOf, TablesOf,
         P!Picked, Picked, P!InOrder, InOrder, P!Cardinality, Cardinality
<1>2. \A s : P!SE!FlattenSeq(s) = SE!FlattenSeq(s)
  BY DEF P!SE!FlattenSeq, SE!FlattenSeq
<1>3. /\ P!PriorityGroups = PriorityGroups /\ P!TableScoped = TableScoped
      /\ P!TableSubPriorities = TableSubPriorities
  BY DEF P!PriorityGroups, PriorityGroups, P!TableSubPriorities, TableSubPriorities,
         P!TableScoped, TableScoped
<1>4. \A s : P!BySubPriority(s) = BySubPriority(s)
  BY <1>1, <1>2, <1>3 DEF P!BySubPriority, BySubPriority
<1>5. \A s : P!SortDiffOps(s) = SortDiffOps(s)
  BY <1>1, <1>2, <1>3, <1>4
     DEF P!SortDiffOps, SortDiffOps, P!SortTableScoped, SortTableScoped
<1> QED
  BY <1>1, <1>2, <1>5

-------------------------------------------------------------------------------
(* Without enable_drop a plan has only operations that keep what there is. *)

(* compare_privileges without enable_drop: nothing is revoked.             *)
LEMMA OnlyGrants ==
    ASSUME NEW new, NEW old, IsList(new), IsList(old)
    PROVE  Only({"Grant"}, V!Diff(new, old, FALSE))
<1> DEFINE n == Len(new)
           all == UNION {new[i].operations : i \in 1..n}
           G == [kind : {"Grant"}, key : {new[i].key : i \in 1..n}, operations : SUBSET all,
                 option : {TRUE} \cup {new[i].option : i \in 1..n}]
           S == [ops : Seq(G), matched : SUBSET (DOMAIN old)]
           Compared(acc, p) ==
                LET m == V!MatchPrivilege(p, old, acc.matched)
                IN IF m = 0
                   THEN [acc EXCEPT !.ops = @ \o V!Change("Grant", p, p.operations, p.option)]
                   ELSE [ops |-> acc.ops \o V!PrivilegeChanges(p, old[m], FALSE),
                         matched |-> acc.matched \cup {m}]
           Pass(f) == f = [i \in 0..n |-> IF i = 0 THEN [ops |-> <<>>, matched |-> {}]
                                          ELSE Compared(f[i - 1], new[i])]
           pass == CHOOSE f : Pass(f)
           none == [ops |-> <<>>, matched |-> {}]
<1>1. n \in Nat /\ DOMAIN new = 1..n /\ DOMAIN old = 1..Len(old) /\ Len(old) \in Nat
  BY ListIsSeq
<1>2. ASSUME NEW i \in 1..n, NEW s, s \subseteq new[i].operations,
             NEW option \in {TRUE} \cup {new[i].option}
      PROVE  V!Change("Grant", new[i], s, option) \in Seq(G)
  <2>1. s \subseteq all
    BY <1>2
  <2>2. [kind |-> "Grant", key |-> new[i].key, operations |-> s, option |-> option] \in G
    <3> HIDE DEF all
    <3> QED
      BY <2>1
  <2> HIDE DEF G
  <2> QED
    BY <2>2 DEF V!Change
<1>3. \A s, t \in Seq(G) : s \o t \in Seq(G)
  <2> HIDE DEF G
  <2> QED
    OBVIOUS
<1>4. ASSUME NEW i \in 1..n, NEW m PROVE V!PrivilegeChanges(new[i], old[m], FALSE) \in Seq(G)
  <2> DEFINE shared == new[i].operations \cap old[m].operations
             first == V!Change("Grant", new[i], new[i].operations \ old[m].operations, new[i].option)
             second == IF new[i].option = old[m].option THEN <<>>
                       ELSE IF new[i].option THEN V!Change("Grant", new[i], shared, TRUE)
                       ELSE <<>>
  <2>1. first \in Seq(G)
    <3> HIDE DEF G
    <3> QED
      BY <1>2
  <2>2. second \in Seq(G)
    <3>1. V!Change("Grant", new[i], shared, TRUE) \in Seq(G)
      <4> HIDE DEF G
      <4> QED
        BY <1>2
    <3>2. <<>> \in Seq(G)
      OBVIOUS
    <3> HIDE DEF G, shared
    <3> QED
      BY <3>1, <3>2, Zenon
  <2>3. V!PrivilegeChanges(new[i], old[m], FALSE) = <<>> \o first \o second
    BY Zenon DEF V!PrivilegeChanges
  <2> HIDE DEF G, first, second
  <2>4. <<>> \o first = first
    BY <2>1
  <2> QED
    BY <1>3, <2>1, <2>2, <2>3, <2>4
<1>5. ASSUME NEW i \in 1..n, NEW acc \in S PROVE Compared(acc, new[i]) \in S
  <2> DEFINE m == V!MatchPrivilege(new[i], old, acc.matched)
             candidates == {j \in DOMAIN old \ acc.matched : old[j].key = new[i].key}
  <2>1. m = 0 \/ m \in DOMAIN old
    <3>1. m = IF candidates = {} THEN 0 ELSE Smallest(candidates)
      BY DEF V!MatchPrivilege, V!Smallest, Smallest
    <3>2. candidates \subseteq Nat /\ candidates \subseteq DOMAIN old
      BY <1>1
    <3> HIDE DEF m, candidates
    <3> QED
      BY <3>1, <3>2, SmallestIsLeast
  <2>2. acc.ops \in Seq(G) /\ acc.matched \in SUBSET (DOMAIN old)
        /\ acc = [ops |-> acc.ops, matched |-> acc.matched]
    <3> HIDE DEF G
    <3> QED
      OBVIOUS
  <2>3. CASE m = 0
    <3>1. acc.ops \o V!Change("Grant", new[i], new[i].operations, new[i].option) \in Seq(G)
      <4>1. V!Change("Grant", new[i], new[i].operations, new[i].option) \in Seq(G)
        <5> HIDE DEF G
        <5> QED
          BY <1>2
      <4> HIDE DEF G
      <4> QED
        BY <1>3, <2>2, <4>1
    <3>2. Compared(acc, new[i]) =
             [ops |-> acc.ops \o V!Change("Grant", new[i], new[i].operations, new[i].option),
              matched |-> acc.matched]
      <4> HIDE DEF G
      <4> QED
        BY <2>2, <2>3
    <3> HIDE DEF G, Compared
    <3> QED
      BY <2>2, <3>1, <3>2
  <2>4. CASE m # 0
    <3>1. acc.ops \o V!PrivilegeChanges(new[i], old[m], FALSE) \in Seq(G)
      <4> HIDE DEF G, m
      <4> QED
        BY <1>3, <1>4, <2>2
    <3>2. Compared(acc, new[i]) = [ops |-> acc.ops \o V!PrivilegeChanges(new[i], old[m], FALSE),
                                   matched |-> acc.matched \cup {m}]
      BY <2>4
    <3>3. acc.matched \cup {m} \in SUBSET (DOMAIN old)
      <4> HIDE DEF m, G
      <4> QED
        BY <2>1, <2>2, <2>4
    <3>4. \A u \in Seq(G) : \A v \in SUBSET (DOMAIN old) : [ops |-> u, matched |-> v] \in S
      <4> HIDE DEF G
      <4> QED
        OBVIOUS
    <3> HIDE DEF G, Compared, m, S
    <3> QED
      BY ONLY <3>1, <3>2, <3>3, <3>4
  <2> QED
    BY <2>3, <2>4
<1>6. none \in S
  <2> HIDE DEF G
  <2> QED
    OBVIOUS
<1> HIDE DEF Compared, S
<1> DEFINE H == [i \in 1..n |-> [acc \in S |-> Compared(acc, new[i])]]
<1>7. PICK g \in [0..n -> S] : Recurs(g, none, n, H)
  <2>1. H \in [1..n -> [S -> S]]
    BY <1>5
  <2> HIDE DEF H, none
  <2> QED
    BY <1>1, <1>6, <2>1, RecursionSolved
<1>8. Pass([i \in 0..n |-> g[i]])
  <2>1. ASSUME NEW i \in 0..n, i # 0 PROVE g[i] = Compared(g[i - 1], new[i]) /\ i - 1 \in 0..n
    <3>1. i \in 1..n /\ g[i - 1] \in S /\ i - 1 \in 0..n
      BY <1>1, <2>1
    <3>2. g[i] = H[i][g[i - 1]]
      BY <1>7, <3>1 DEF Recurs
    <3> QED
      BY <3>1, <3>2
  <2>2. g[0] = none
    BY <1>7 DEF Recurs
  <2> HIDE DEF H
  <2> QED
    BY <2>1, <2>2
<1>9. Pass(pass)
  <2> HIDE DEF Pass
  <2> QED
    BY <1>8
<1> HIDE DEF pass
<1>10. pass[n].ops \in Seq(G)
  <2>1. pass[0] \in S
    BY <1>1, <1>6, <1>9
  <2>2. ASSUME NEW k \in 1..n, pass[k - 1] \in S PROVE pass[k] \in S
    <3>1. k \in 0..n /\ k # 0
      BY <1>1
    <3>2. pass[k] = Compared(pass[k - 1], new[k])
      BY <1>9, <3>1
    <3> HIDE DEF Pass
    <3> QED
      BY <1>5, <2>2, <3>2
  <2>3. pass[n] \in S
    <3> HIDE DEF Pass
    <3>1. \A k \in 0..n : pass[k] \in S
      BY <1>1, <2>1, <2>2, RecursionStays
    <3> QED
      BY <1>1, <3>1
  <2> HIDE DEF Pass, G
  <2> QED
    BY <2>3 DEF S
<1> DEFINE q == [i \in 1..Len(old) |-> <<>>]
<1>11. V!ComparePrivileges(new, old, FALSE) = pass[n].ops \o SE!FlattenSeq(q)
  BY <1>1, VSorts DEF V!ComparePrivileges, pass, Compared
<1>12. Only({"Grant"}, pass[n].ops)
  <2>1. \A x \in G : x.kind \in {"Grant"}
    OBVIOUS
  <2> HIDE DEF G
  <2> QED
    BY <1>10, <2>1, OnlyOfSeq
<1>13. Only({"Grant"}, SE!FlattenSeq(q))
  <2>1. \A i \in 1..Len(old) : Only({"Grant"}, q[i])
    BY OnlyShort
  <2>2. q = [i \in 1..Len(old) |-> q[i]]
    OBVIOUS
  <2> HIDE DEF q
  <2> QED
    BY <1>1, <2>1, <2>2, OnlyFlattened
<1> HIDE DEF q
<1>14. Only({"Grant"}, V!ComparePrivileges(new, old, FALSE))
  BY <1>11, <1>12, <1>13, OnlyConcatenated
<1> QED
  BY <1>14, VSorts, OnlySorted DEF V!Diff

(* Privileges: what is planned and not applied yet only grants.            *)
VKeeps ==
    /\ \E in \in PrivilegePairs : current = in[1] /\ desired = in[2]
    /\ enableDrop \in BOOLEAN
    /\ ~enableDrop => Only({"Grant"}, ops)
    /\ V!NothingRevokedWithoutDrop

(* The run starts with no plan, and with what the export has.              *)
LEMMA VInitKeeps ==
    V!Init => VKeeps
<1> SUFFICES ASSUME V!Init PROVE VKeeps
  OBVIOUS
<1>1. /\ \E in \in PrivilegePairs : current = in[1] /\ desired = in[2]
      /\ enableDrop \in BOOLEAN /\ ops = <<>> /\ db = V!DatabaseOf(current)
  BY DEF V!Init
<1>2. V!NothingRevokedWithoutDrop
  BY <1>1 DEF V!NothingRevokedWithoutDrop, V!DatabaseOf, V!Held
<1> QED
  BY <1>1, <1>2, OnlyShort DEF VKeeps

(* Planning plans grants only, and a grant takes nothing away.             *)
LEMMA VNextKeeps ==
    VKeeps /\ V!Next => VKeeps'
<1> SUFFICES ASSUME VKeeps, V!Next PROVE VKeeps'
  OBVIOUS
<1>1. current' = current /\ desired' = desired /\ enableDrop' = enableDrop
  BY DEF V!Next, V!Plan, V!Fail, V!Apply, V!Reject, V!Finish, V!Terminated, V!vars
<1>2. CASE ops' = V!Diff(desired, current, enableDrop) /\ db' = db
  <2>1. IsList(desired) /\ IsList(current)
    BY ListsAssumption DEF VKeeps
  <2>2. ~enableDrop => Only({"Grant"}, ops')
    <3>1. Only({"Grant"}, V!Diff(desired, current, FALSE))
      BY <2>1, OnlyGrants
    <3>2. ~enableDrop => enableDrop = FALSE
      BY DEF VKeeps
    <3> QED
      BY <1>2, <3>1, <3>2
  <2> QED
    BY <1>1, <1>2, <2>2 DEF VKeeps, V!NothingRevokedWithoutDrop
<1>3. CASE ops # <<>> /\ db' = V!Effect(db, Head(ops)) /\ ops' = Tail(ops)
  <2> SUFFICES ASSUME ~enableDrop PROVE Only({"Grant"}, ops') /\ V!NothingRevokedWithoutDrop'
    BY <1>1 DEF VKeeps, V!NothingRevokedWithoutDrop
  <2> DEFINE op == Head(ops)
  <2>1. op.kind = "Grant" /\ Only({"Grant"}, ops')
    <3>1. Only({"Grant"}, ops) /\ ops # <<>>
      BY <1>3 DEF VKeeps
    <3>2. Head(ops).kind \in {"Grant"} /\ Only({"Grant"}, Tail(ops))
      BY <3>1, OnlyTail
    <3> QED
      BY <1>3, <3>2
  <2> HIDE DEF op
  <2>2. ASSUME NEW key
        PROVE  /\ V!Held(db, key).held \subseteq V!Held(db', key).held
               /\ V!Held(db, key).option \subseteq V!Held(db', key).option
    <3> DEFINE h == V!Held(db, op.key)
               after == [held |-> h.held \cup op.operations,
                         option |-> h.option \cup (IF op.option THEN op.operations ELSE {})]
    <3>1. db' = [k \in DOMAIN db \cup {op.key} |-> IF k = op.key THEN after ELSE db[k]]
      BY <1>3, <2>1 DEF V!Effect, op
    <3>2. CASE key = op.key
      <4>1. V!Held(db', key) = after
        BY <3>1, <3>2 DEF V!Held
      <4> QED
        BY <3>2, <4>1
    <3>3. CASE key # op.key
      <4>1. V!Held(db', key) = V!Held(db, key)
        BY <3>1, <3>3 DEF V!Held
      <4> QED
        BY <4>1
    <3> QED
      BY <3>2, <3>3
  <2> QED
    BY <1>1, <2>1, <2>2 DEF VKeeps, V!NothingRevokedWithoutDrop
<1>4. CASE ops' = ops /\ db' = db
  BY <1>1, <1>4 DEF VKeeps, V!NothingRevokedWithoutDrop
<1> QED
  BY <1>2, <1>3, <1>4
     DEF V!Next, V!Plan, V!Fail, V!Apply, V!Reject, V!Finish, V!Terminated, V!vars

(* Partitions: without enable_drop tables and partitions are only added.   *)
Additions == {"CreateTable", "AddPartition"}

(* Normalizing gives finitely many partitions.                             *)
LEMMA NormalizedIsFinite ==
    ASSUME NEW text, IsList(text)
    PROVE  /\ IsFiniteSet(DOMAIN P!Normalized(text))
           /\ \A t \in DOMAIN P!Normalized(text) :
                \E m \in Nat : /\ DOMAIN P!Normalized(text)[t].elements = 1..m
                               /\ P!Normalized(text)[t].elements =
                                    [i \in 1..m |-> P!Normalized(text)[t].elements[i]]
<1> DEFINE n == Len(text)
           tables == {s \in P!F!Range(text) : s.parent = P!NoTable}
           Table(name) == CHOOSE s \in tables : s.name = name
           names == {s.name : s \in tables}
<1>1. n \in Nat /\ DOMAIN text = 1..n /\ text = [k \in 1..n |-> text[k]]
  BY ListIsSeq DEF IsList
<1>2. IsFiniteSet(names)
  <2>1. P!F!Range(text) = EntriesOf(text)
    BY DEF P!F!Range, EntriesOf
  <2>2. IsFiniteSet(EntriesOf(text))
    BY <1>1, EntriesAreFinite
  <2>3. IsFiniteSet(tables)
    <3>1. tables \subseteq EntriesOf(text)
      BY <2>1
    <3> HIDE DEF tables
    <3> QED
      BY <2>2, <3>1, FS_Subset
  <2> HIDE DEF tables
  <2> DEFINE f == [s \in tables |-> s.name]
  <2>4. DOMAIN f = tables /\ f = [s \in tables |-> f[s]] /\ names = {f[s] : s \in tables}
    OBVIOUS
  <2> HIDE DEF f, names
  <2> QED
    BY <2>3, <2>4, ImageIsFinite
<1>3. P!Normalized(text) = [t \in names |-> [key |-> Table(t).key, elements |-> P!Fold(text, t)]]
  BY DEF P!Normalized
<1>4. ASSUME NEW t
      PROVE  \E m \in Nat : DOMAIN P!Fold(text, t) = 1..m
                            /\ P!Fold(text, t) = [i \in 1..m |-> P!Fold(text, t)[i]]
  <2> DEFINE at == {i \in DOMAIN text : text[i].parent = t}
             m == Cardinality(at)
  <2>1. IsFiniteSet(at)
    <3>1. at \subseteq 1..n
      BY <1>1
    <3> HIDE DEF at, n
    <3>2. IsFiniteSet(1..n)
      BY <1>1, FS_Interval
    <3> QED
      BY <3>1, <3>2, FS_Subset
  <2>2. m \in Nat
    <3> HIDE DEF at
    <3> QED
      BY <2>1, FS_CardinalityType
  <2>3. DOMAIN Picked(text, at) = 1..m
    BY DEF Picked
  <2>4. P!Fold(text, t) = [i \in 1..m |-> P!Element(Picked(text, at)[i])]
    BY <2>3, PSorts DEF P!Fold
  <2> HIDE DEF m
  <2> QED
    BY <2>2, <2>4
<1>5. /\ DOMAIN P!Normalized(text) = names
      /\ \A t \in names : P!Normalized(text)[t].elements = P!Fold(text, t)
  <2> HIDE DEF names, Table
  <2> QED
    BY <1>3
<1> HIDE DEF names
<1> DEFINE Indexed(e) == \E m \in Nat : DOMAIN e = 1..m /\ e = [i \in 1..m |-> e[i]]
<1>6. ASSUME NEW t \in names PROVE Indexed(P!Normalized(text)[t].elements)
  <2>1. Indexed(P!Fold(text, t))
    BY <1>4
  <2> HIDE DEF Indexed
  <2> QED
    BY <1>5, <2>1
<1> QED
  BY <1>2, <1>5, <1>6

(* Comparing the partitions of one table without enable_drop only adds     *)
(* some.                                                                   *)
LEMMA OnlyPartitionUpdates ==
    ASSUME NEW t, NEW new, NEW old, NEW n \in Nat, new = [i \in 1..n |-> new[i]]
    PROVE  Only(Additions, P!PartitionUpdates(t, new, old, FALSE))
<1> DEFINE Update(e) == IF e \in P!F!Range(old) THEN <<>> ELSE <<>> \o <<P!Add(t, <<e>>)>>
           names == P!ByName(new)
           m == Cardinality(P!F!Range(new))
           q == [i \in 1..m |-> Update(names[i])]
<1>1. m \in Nat
  <2>1. P!F!Range(new) = EntriesOf(new)
    BY DEF P!F!Range, EntriesOf
  <2>2. IsFiniteSet(EntriesOf(new))
    BY EntriesAreFinite
  <2> QED
    BY <2>1, <2>2, FS_CardinalityType
<1>2. DOMAIN names = 1..m
  BY DEF P!ByName, P!Cardinality, Cardinality
<1>3. P!PartitionUpdates(t, new, old, FALSE) = SE!FlattenSeq(q) \o <<>>
  BY <1>2, PSorts DEF P!PartitionUpdates, P!Drops
<1>4. ASSUME NEW i \in 1..m PROVE Only(Additions, q[i])
  <2>1. Only(Additions, <<>>) /\ Only(Additions, <<P!Add(t, <<names[i]>>)>>)
    <3>1. P!Add(t, <<names[i]>>).kind \in Additions
      BY DEF P!Add, Additions
    <3> QED
      BY <3>1, OnlyShort
  <2>2. Only(Additions, <<>> \o <<P!Add(t, <<names[i]>>)>>)
    BY <2>1, OnlyConcatenated
  <2> HIDE DEF names, m
  <2> QED
    BY <2>1, <2>2
<1>5. q = [i \in 1..m |-> q[i]]
  OBVIOUS
<1>6. Only(Additions, SE!FlattenSeq(q))
  <2> HIDE DEF q, m
  <2> QED
    BY <1>1, <1>4, <1>5, OnlyFlattened
<1> HIDE DEF q
<1> QED
  BY <1>3, <1>6, OnlyShort, OnlyConcatenated

(* So does comparing all tables without enable_drop.                       *)
LEMMA OnlyPartitionOps ==
    ASSUME NEW t, NEW new, NEW old, NEW n \in Nat, new.elements = [i \in 1..n |-> new.elements[i]]
    PROVE  Only(Additions, P!PartitionOps(t, new, old, FALSE))
<1>1. /\ Only(Additions, <<>>) /\ Only(Additions, <<P!Add(t, new.elements)>>)
      /\ Only(Additions, P!PartitionUpdates(t, new.elements, old.elements, FALSE))
  <2>1. P!Add(t, new.elements).kind \in Additions
    BY DEF P!Add, Additions
  <2> QED
    BY <2>1, OnlyShort, OnlyPartitionUpdates
<1>2. Only(Additions, <<>> \o <<P!Add(t, new.elements)>>)
  BY <1>1, OnlyConcatenated
<1>3. P!Drops(t, old.elements, FALSE) = <<>>
  BY DEF P!Drops
<1>4. CASE new.key # P!NoKey /\ old.key = P!NoKey
  BY <1>1, <1>4 DEF P!PartitionOps
<1>5. CASE new.key = P!NoKey /\ old.key # P!NoKey
  BY <1>1, <1>3, <1>5 DEF P!PartitionOps
<1>6. CASE new.key # P!NoKey /\ old.key # P!NoKey
  BY <1>1, <1>2, <1>3, <1>6 DEF P!PartitionOps
<1>7. CASE new.key = P!NoKey /\ old.key = P!NoKey
  BY <1>1, <1>7 DEF P!PartitionOps
<1> QED
  BY <1>4, <1>5, <1>6, <1>7

(* And so does the plan.                                                   *)
LEMMA OnlyAdditions ==
    ASSUME NEW text, NEW exported, IsList(text)
    PROVE  Only(Additions, P!Diff(text, exported, FALSE))
<1> DEFINE new == P!Normalized(text)
           old == P!Normalized(exported)
           TableOps(t) ==
                IF t \in DOMAIN old THEN P!PartitionOps(t, new[t], old[t], FALSE)
                ELSE <<[kind |-> "CreateTable", table |-> t, key |-> new[t].key]>>
           tables == SE!SetToSeq(DOMAIN new)
           m == Cardinality(DOMAIN new)
           q == [i \in 1..m |-> TableOps(tables[i])]
           none == [i \in DOMAIN <<>> |-> [kind |-> "DropTable", table |-> <<>>[i]]]
<1>1. m \in Nat /\ tables \in [1..m -> DOMAIN new]
  BY NormalizedIsFinite, SetListed
<1>2. P!SE!SetToSeq(DOMAIN new) = tables
  BY DEF P!SE!SetToSeq, SE!SetToSeq, P!SE!IsInjective, SE!IsInjective,
         P!SE!Cardinality, SE!Cardinality
<1>3. P!Diff(text, exported, FALSE) = SortDiffOps(SE!FlattenSeq(q) \o none)
  <2>1. DOMAIN tables = 1..m
    BY <1>1
  <2> HIDE DEF tables, m
  <2> QED
    BY <1>2, <2>1, PSorts DEF P!Diff
<1>4. none = <<>>
  OBVIOUS
<1>5. ASSUME NEW i \in 1..m PROVE Only(Additions, q[i])
  <2> DEFINE t == tables[i]
  <2>1. t \in DOMAIN new
    BY <1>1
  <2>2. q[i] = IF t \in DOMAIN old THEN P!PartitionOps(t, new[t], old[t], FALSE)
               ELSE <<[kind |-> "CreateTable", table |-> t, key |-> new[t].key]>>
    OBVIOUS
  <2> HIDE DEF t, new, old, q
  <2>3. Only(Additions, P!PartitionOps(t, new[t], old[t], FALSE))
    <3>1. PICK k \in Nat : new[t].elements = [j \in 1..k |-> new[t].elements[j]]
      BY <2>1, NormalizedIsFinite DEF new
    <3> QED
      BY <3>1, OnlyPartitionOps
  <2>4. Only(Additions, <<[kind |-> "CreateTable", table |-> t, key |-> new[t].key]>>)
    <3>1. [kind |-> "CreateTable", table |-> t, key |-> new[t].key].kind \in Additions
      BY DEF Additions
    <3> QED
      BY <3>1, OnlyShort
  <2> QED
    BY <2>2, <2>3, <2>4
<1>6. Only(Additions, SE!FlattenSeq(q))
  <2>1. q = [i \in 1..m |-> q[i]]
    OBVIOUS
  <2> HIDE DEF q, m
  <2> QED
    BY <1>1, <1>5, <2>1, OnlyFlattened
<1> HIDE DEF q, none
<1>7. Only(Additions, SE!FlattenSeq(q) \o none)
  BY <1>4, <1>6, OnlyShort, OnlyConcatenated
<1> QED
  BY <1>3, <1>7, OnlySorted

PKeeps ==
    /\ \E in \in PartitionPairs : current = in[1] /\ desired = in[2]
    /\ enableDrop \in BOOLEAN
    /\ ~enableDrop => Only(Additions, ops)
    /\ P!NothingLostWithoutDrop

(* The run starts with no plan, and with what the export has.              *)
LEMMA PInitKeeps ==
    P!Init => PKeeps
<1> SUFFICES ASSUME P!Init PROVE PKeeps
  OBVIOUS
<1>1. /\ \E in \in PartitionPairs : current = in[1] /\ desired = in[2]
      /\ enableDrop \in BOOLEAN /\ ops = <<>> /\ db = P!DatabaseOf(current)
  BY DEF P!Init
<1> QED
  BY <1>1, OnlyShort DEF PKeeps, P!NothingLostWithoutDrop, P!DatabaseOf

(* Planning plans additions only, and an addition takes no partition away. *)
LEMMA PNextKeeps ==
    PKeeps /\ P!Next => PKeeps'
<1> SUFFICES ASSUME PKeeps, P!Next PROVE PKeeps'
  OBVIOUS
<1>1. current' = current /\ desired' = desired /\ enableDrop' = enableDrop
  BY DEF P!Next, P!Plan, P!Fail, P!Apply, P!Reject, P!Finish, P!Terminated, P!vars
<1>2. CASE ops' = P!Diff(desired, current, enableDrop) /\ db' = db
  <2>1. IsList(desired)
    BY ListsAssumption DEF PKeeps
  <2>2. ~enableDrop => Only(Additions, ops')
    <3>1. Only(Additions, P!Diff(desired, current, FALSE))
      BY <2>1, OnlyAdditions
    <3>2. ~enableDrop => enableDrop = FALSE
      BY DEF PKeeps
    <3> QED
      BY <1>2, <3>1, <3>2
  <2> QED
    BY <1>1, <1>2, <2>2 DEF PKeeps, P!NothingLostWithoutDrop
<1>3. CASE ops # <<>> /\ db' = P!Effect(db, Head(ops)) /\ ops' = Tail(ops)
  <2> SUFFICES ASSUME ~enableDrop PROVE Only(Additions, ops') /\ P!NothingLostWithoutDrop'
    BY <1>1 DEF PKeeps, P!NothingLostWithoutDrop
  <2>1. Only(Additions, ops)
    BY DEF PKeeps
  <2>2. Head(ops).kind \in Additions /\ Only(Additions, Tail(ops))
    BY <1>3, <2>1, OnlyTail
  <2>3. db \subseteq db'
    BY <1>3, <2>2 DEF P!Effect, Additions
  <2> QED
    BY <1>1, <1>3, <2>2, <2>3 DEF PKeeps, P!NothingLostWithoutDrop
<1>4. CASE ops' = ops /\ db' = db
  BY <1>1, <1>4 DEF PKeeps, P!NothingLostWithoutDrop
<1> QED
  BY <1>2, <1>3, <1>4
     DEF P!Next, P!Plan, P!Fail, P!Apply, P!Reject, P!Finish, P!Terminated, P!vars

-------------------------------------------------------------------------------
(* Tables: without enable_drop they are created, renamed and altered.      *)
TableKeeping == {"CreateTable", "RenameTable", "AlterColumn"}

(* A turn of the comparison only creates, renames or alters, and takes a   *)
(* table of the current schema.                                            *)
LEMMA TOnlyMatched ==
    ASSUME NEW t, NEW exported, NEW matched, matched \subseteq DOMAIN exported
    PROVE  /\ Only(TableKeeping, T!MatchTable(t, exported, matched).ops)
           /\ T!MatchTable(t, exported, matched).matched \subseteq DOMAIN exported
           /\ DOMAIN T!MatchTable(t, exported, matched) = {"matched", "ops"}
<1> DEFINE keys == DOMAIN exported
           exact == {t.name} \cap keys
           onPath == T!ResolveQualified(t.name, keys, matched, SearchPath)
           kept == IF exact # {} THEN exact ELSE onPath
           renamed == T!ResolveRename(T!RenamedFrom(t), keys, matched)
           the(found) == CHOOSE k \in found : TRUE
           turn == T!MatchTable(t, exported, matched)
<1>1. turn = IF kept # {} THEN [matched |-> kept, ops |-> T!CompareTable(t, exported, the(kept))]
             ELSE IF renamed # {}
             THEN [matched |-> renamed,
                   ops |-> <<T!RenameTable(the(renamed), t.name)>>
                           \o T!CompareTable(t, exported, the(renamed))]
             ELSE [matched |-> {}, ops |-> <<T!CreateTable(t)>>]
  BY DEF T!MatchTable
<1>2. kept \subseteq keys /\ renamed \subseteq keys
  BY DEF T!ResolveQualified, T!ResolveRename
<1>3. ASSUME NEW k PROVE Only(TableKeeping, T!CompareTable(t, exported, k))
  <2>1. T!AlterTable(t.name, t.shape).kind \in TableKeeping
    BY DEF T!AlterTable, TableKeeping
  <2> QED
    BY <2>1, OnlyShort DEF T!CompareTable
<1>4. ASSUME NEW k PROVE Only(TableKeeping, <<T!RenameTable(k, t.name)>> \o T!CompareTable(t, exported, k))
  <2>1. T!RenameTable(k, t.name).kind \in TableKeeping
    BY DEF T!RenameTable, TableKeeping
  <2>2. Only(TableKeeping, <<T!RenameTable(k, t.name)>>)
    BY <2>1, OnlyShort
  <2> QED
    BY <1>3, <2>2, OnlyConcatenated
<1>5. Only(TableKeeping, <<T!CreateTable(t)>>)
  <2>1. T!CreateTable(t).kind \in TableKeeping
    BY DEF T!CreateTable, TableKeeping
  <2> QED
    BY <2>1, OnlyShort
<1> HIDE DEF kept, renamed, the, keys, turn
<1>6. Only(TableKeeping, turn.ops) /\ turn.matched \subseteq keys /\ DOMAIN turn = {"matched", "ops"}
  <2>1. CASE kept # {}
    BY <1>1, <1>2, <1>3, <2>1
  <2>2. CASE kept = {} /\ renamed # {}
    BY <1>1, <1>2, <1>4, <2>2
  <2>3. CASE kept = {} /\ renamed = {}
    BY <1>1, <1>5, <2>3
  <2> QED
    BY <2>1, <2>2, <2>3
<1> QED
  BY <1>6 DEF turn, keys

(* The whole plan without enable_drop keeps every table.                   *)
LEMMA TOnlyKeeping ==
    ASSUME NEW tables, NEW exported, IsList(tables)
    PROVE  Only(TableKeeping, T!Diff(tables, exported, FALSE))
<1> DEFINE n == Len(tables)
           keys == DOMAIN exported
           Match(f) == f = [i \in 0..n |->
                IF i = 0 THEN [matched |-> {}, ops |-> <<>>]
                ELSE LET turn == T!MatchTable(tables[i], exported, f[i - 1].matched)
                     IN [matched |-> f[i - 1].matched \cup turn.matched,
                         ops |-> f[i - 1].ops \o turn.ops]]
           match == CHOOSE f : Match(f)
           turn == [i \in 1..n |-> [m \in SUBSET keys |-> T!MatchTable(tables[i], exported, m)]]
<1>1. n \in Nat
  BY ListIsSeq
<1>2. TurnsKeep(turn, n, keys, TableKeeping)
  BY TOnlyMatched DEF TurnsKeep
<1>3. PICK g : /\ g = [k \in 0..n |-> g[k]] /\ g[0] = NothingMatched
               /\ \A k \in 1..n : /\ g[k] = AfterTurn(g[k - 1], turn[k][g[k - 1].matched])
                                  /\ g[k - 1].matched \in SUBSET keys
  <2> HIDE DEF n, turn, keys
  <2> QED
    BY <1>1, <1>2, TurnsTaken
<1>4. Match([k \in 0..n |-> g[k]])
  <2>1. ASSUME NEW k \in 0..n, k # 0
        PROVE  /\ k - 1 \in 0..n
               /\ g[k] = AfterTurn(g[k - 1], T!MatchTable(tables[k], exported, g[k - 1].matched))
    <3>1. k \in 1..n
      BY <1>1, <2>1
    <3>2. /\ g[k] = AfterTurn(g[k - 1], turn[k][g[k - 1].matched])
          /\ g[k - 1].matched \in SUBSET keys
      BY <1>3, <3>1
    <3>3. turn[k][g[k - 1].matched] = T!MatchTable(tables[k], exported, g[k - 1].matched)
      BY <3>1, <3>2
    <3>4. k - 1 \in 0..n
      BY <1>1, <3>1
    <3> HIDE DEF turn
    <3> QED
      BY <3>2, <3>3, <3>4
  <2> HIDE DEF turn
  <2> QED
    BY <1>3, <2>1 DEF NothingMatched, AfterTurn
<1>5. Match(match)
  <2> HIDE DEF Match
  <2> QED
    BY <1>4
<1> HIDE DEF match
<1>6. Only(TableKeeping, match[n].ops)
  <2>1. match[0] = NothingMatched
    BY <1>1, <1>5 DEF NothingMatched
  <2>2. ASSUME NEW k \in 1..n, match[k - 1].matched \in SUBSET keys
        PROVE  match[k] = AfterTurn(match[k - 1], turn[k][match[k - 1].matched])
    <3>1. k \in 0..n /\ k # 0
      BY <1>1
    <3>2. turn[k][match[k - 1].matched] = T!MatchTable(tables[k], exported, match[k - 1].matched)
      BY <2>2
    <3> HIDE DEF turn
    <3> QED
      BY <1>5, <3>1, <3>2 DEF AfterTurn
  <2>3. TurnsBy(match, turn, n, keys)
    <3> HIDE DEF turn
    <3> QED
      BY <2>1, <2>2 DEF TurnsBy
  <2> HIDE DEF Match, turn, n, keys
  <2> QED
    BY ONLY <1>1, <1>2, <2>1, <2>3, TurnsPlan
<1>7. T!CompareTables(tables, exported, FALSE) = match[n].ops \o <<>>
  BY DEF T!CompareTables, T!WithDrops, T!MatchTables, match
<1>8. Only(TableKeeping, T!CompareTables(tables, exported, FALSE))
  BY <1>6, <1>7, OnlyShort, OnlyConcatenated
<1> QED
  BY <1>8, TSorts, OnlySorted DEF T!Diff

(* Every table of a database has data; a set of data are all in it.        *)
HaveData(d) == \A q \in DOMAIN d : "data" \in DOMAIN d[q]
AllIn(data, d) == \A p \in data : \E q \in DOMAIN d : d[q].data = p

(* An operation that keeps tables leaves the data of every table in one.   *)
LEMMA TDataStay ==
    ASSUME NEW d, NEW op, NEW data, HaveData(d), AllIn(data, d),
           op.kind \in TableKeeping, T!Accepts(d, op)
    PROVE  HaveData(T!Effect(d, op)) /\ AllIn(data, T!Effect(d, op))
<1> DEFINE e == T!Effect(d, op)
<1>1. ASSUME NEW n, T!Resolve(d, n) # {}
      PROVE  T!TheTable(d, n) \in DOMAIN d
  <2>1. T!Resolve(d, n) \subseteq DOMAIN d
    BY DEF T!Resolve, T!ResolveQualified
  <2>2. T!TheTable(d, n) \in T!Resolve(d, n)
    BY <1>1 DEF T!TheTable
  <2> QED
    BY <2>1, <2>2
<1>2. CASE op.kind = "CreateTable"
  <2> DEFINE n == T!Placed(op.table)
             new == [shape |-> op.shape, data |-> T!Fresh]
  <2>1. n \notin DOMAIN d
    BY <1>2 DEF T!Accepts, T!AcceptsTableOp
  <2>2. e = [k \in DOMAIN d \cup {n} |-> IF k = n THEN new ELSE d[k]]
    BY <1>2 DEF T!Effect, T!TableOpEffect, T!With
  <2>3. "data" \in DOMAIN new
    OBVIOUS
  <2> HIDE DEF n, new, e
  <2>4. HaveData(e)
    BY <2>2, <2>3 DEF HaveData
  <2>5. AllIn(data, e)
    BY <2>1, <2>2 DEF AllIn
  <2> QED
    BY <2>4, <2>5 DEF e
<1>3. CASE op.kind = "RenameTable"
  <2> DEFINE from == T!TheTable(d, op.from)
             to == T!RenamedTo(d, op)
             w == T!Without(d, {from})
  <2>1. from \in DOMAIN d /\ to \notin DOMAIN d
    BY <1>1, <1>3 DEF T!Accepts, T!AcceptsTableOp
  <2>2. e = [k \in DOMAIN w \cup {to} |-> IF k = to THEN d[from] ELSE w[k]]
    BY <1>3 DEF T!Effect, T!TableOpEffect, T!With
  <2>3. w = [k \in DOMAIN d \ {from} |-> d[k]]
    BY DEF T!Without, T!F!Restrict
  <2> HIDE DEF from, to, w, e
  <2>4. e = [k \in (DOMAIN d \ {from}) \cup {to} |-> IF k = to THEN d[from] ELSE d[k]]
    BY <2>2, <2>3
  <2>5. HaveData(e)
    BY <2>1, <2>4 DEF HaveData
  <2>6. AllIn(data, e)
    <3> SUFFICES ASSUME NEW p \in data PROVE \E q \in DOMAIN e : e[q].data = p
      BY DEF AllIn
    <3>1. PICK q \in DOMAIN d : d[q].data = p
      BY DEF AllIn
    <3>2. CASE q = from
      <4>1. to \in DOMAIN e /\ e[to] = d[q]
        BY <2>4, <3>2
      <4> QED
        BY <3>1, <4>1
    <3>3. CASE q # from
      <4>1. q \in DOMAIN e /\ e[q] = d[q]
        BY <2>1, <2>4, <3>3
      <4> QED
        BY <3>1, <4>1
    <3> QED
      BY <3>2, <3>3
  <2> QED
    BY <2>5, <2>6 DEF e
<1>4. CASE op.kind = "AlterColumn"
  <2> DEFINE x == T!TheTable(d, op.table)
  <2>1. x \in DOMAIN d
    BY <1>1, <1>4 DEF T!Accepts, T!AcceptsTableOp
  <2>2. e = [d EXCEPT ![x].shape = op.shape]
    BY <1>4 DEF T!Effect, T!TableOpEffect
  <2> HIDE DEF x, e
  <2>3. DOMAIN e = DOMAIN d
    BY <2>2
  <2>4. \A q \in DOMAIN d : DOMAIN e[q] = DOMAIN d[q] /\ e[q].data = d[q].data
    <3> SUFFICES ASSUME NEW q \in DOMAIN d
                 PROVE  DOMAIN e[q] = DOMAIN d[q] /\ e[q].data = d[q].data
      OBVIOUS
    <3>1. CASE q = x
      <4>1. e[q] = [d[q] EXCEPT !.shape = op.shape] /\ "data" \in DOMAIN d[q]
        BY <2>1, <2>2, <3>1 DEF HaveData
      <4> QED
        BY <4>1
    <3>2. CASE q # x
      BY <2>2, <3>2
    <3> QED
      BY <3>1, <3>2
  <2> QED
    BY <2>3, <2>4 DEF HaveData, AllIn, e
<1> QED
  BY <1>2, <1>3, <1>4 DEF TableKeeping

TKeeps ==
    /\ \E in \in QualifiedTables : current = in[1] /\ desired = in[2]
    /\ enableDrop \in BOOLEAN
    /\ ~enableDrop => Only(TableKeeping, ops)
    /\ ~enableDrop => HaveData(db) /\ AllIn(DOMAIN T!Started, db)

(* The run starts with no plan, and with what the export has.              *)
LEMMA TInitKeeps ==
    T!Init => TKeeps
<1> SUFFICES ASSUME T!Init PROVE TKeeps
  OBVIOUS
<1>1. /\ \E in \in QualifiedTables : current = in[1] /\ desired = in[2]
      /\ enableDrop \in BOOLEAN /\ ops = <<>> /\ db = T!DatabaseOf(current)
  BY DEF T!Init
<1>2. HaveData(db) /\ AllIn(DOMAIN T!Started, db)
  <2>1. db = T!Started
    BY <1>1 DEF T!Started
  <2>2. \A q \in DOMAIN db : "data" \in DOMAIN db[q] /\ db[q].data = q
    BY <1>1 DEF T!DatabaseOf, T!TablesOfExport
  <2> QED
    BY <2>1, <2>2 DEF HaveData, AllIn
<1> QED
  BY <1>1, <1>2, OnlyShort DEF TKeeps

(* Planning plans what keeps tables, and applying it keeps their data.     *)
LEMMA TNextKeeps ==
    TKeeps /\ T!Next => TKeeps'
<1> SUFFICES ASSUME TKeeps, T!Next PROVE TKeeps'
  OBVIOUS
<1>1. current' = current /\ desired' = desired /\ enableDrop' = enableDrop
  BY DEF T!Next, T!Plan, T!Fail, T!Apply, T!Reject, T!Finish, T!Terminated, T!vars
<1>2. T!Started' = T!Started
  BY <1>1 DEF T!Started
<1>3. CASE ops' = T!Diff(desired, current, enableDrop) /\ db' = db
  <2>1. IsList(desired)
    BY ListsAssumption DEF TKeeps
  <2>2. ~enableDrop => Only(TableKeeping, ops')
    <3>1. Only(TableKeeping, T!Diff(desired, current, FALSE))
      BY <2>1, TOnlyKeeping
    <3>2. ~enableDrop => enableDrop = FALSE
      BY DEF TKeeps
    <3> QED
      BY <1>3, <3>1, <3>2
  <2> QED
    BY <1>1, <1>2, <1>3, <2>2 DEF TKeeps
<1>4. CASE /\ ops # <<>> /\ T!Accepts(db, Head(ops))
           /\ db' = T!Effect(db, Head(ops)) /\ ops' = Tail(ops)
  <2> SUFFICES ASSUME ~enableDrop
               PROVE  Only(TableKeeping, ops') /\ HaveData(db') /\ AllIn(DOMAIN T!Started, db')
    BY <1>1, <1>2 DEF TKeeps
  <2>1. Only(TableKeeping, ops) /\ HaveData(db) /\ AllIn(DOMAIN T!Started, db)
    BY DEF TKeeps
  <2>2. Head(ops).kind \in TableKeeping /\ Only(TableKeeping, Tail(ops))
    BY <1>4, <2>1, OnlyTail
  <2>3. HaveData(T!Effect(db, Head(ops))) /\ AllIn(DOMAIN T!Started, T!Effect(db, Head(ops)))
    BY <1>4, <2>1, <2>2, TDataStay
  <2> QED
    BY <1>4, <2>2, <2>3
<1>5. CASE ops' = ops /\ db' = db
  BY <1>1, <1>2, <1>5 DEF TKeeps
<1> QED
  BY <1>3, <1>4, <1>5
     DEF T!Next, T!Plan, T!Fail, T!Apply, T!Reject, T!Finish, T!Terminated, T!vars

(* With that nothing is lost.                                              *)
LEMMA TKeepsAll ==
    TKeeps => T!NothingLostWithoutDrop
BY DEF TKeeps, T!NothingLostWithoutDrop, AllIn

(* The same with a search path of one schema that exports leave out.       *)
LEMMA UOnlyMatched ==
    ASSUME NEW t, NEW exported, NEW matched, matched \subseteq DOMAIN exported
    PROVE  /\ Only(TableKeeping, U!MatchTable(t, exported, matched).ops)
           /\ U!MatchTable(t, exported, matched).matched \subseteq DOMAIN exported
           /\ DOMAIN U!MatchTable(t, exported, matched) = {"matched", "ops"}
<1> DEFINE keys == DOMAIN exported
           exact == {t.name} \cap keys
           onPath == U!ResolveQualified(t.name, keys, matched, <<"main">>)
           kept == IF exact # {} THEN exact ELSE onPath
           renamed == U!ResolveRename(U!RenamedFrom(t), keys, matched)
           the(found) == CHOOSE k \in found : TRUE
           turn == U!MatchTable(t, exported, matched)
<1>1. turn = IF kept # {} THEN [matched |-> kept, ops |-> U!CompareTable(t, exported, the(kept))]
             ELSE IF renamed # {}
             THEN [matched |-> renamed,
                   ops |-> <<U!RenameTable(the(renamed), t.name)>>
                           \o U!CompareTable(t, exported, the(renamed))]
             ELSE [matched |-> {}, ops |-> <<U!CreateTable(t)>>]
  BY DEF U!MatchTable
<1>2. kept \subseteq keys /\ renamed \subseteq keys
  BY DEF U!ResolveQualified, U!ResolveRename
<1>3. ASSUME NEW k PROVE Only(TableKeeping, U!CompareTable(t, exported, k))
  <2>1. U!AlterTable(t.name, t.shape).kind \in TableKeeping
    BY DEF U!AlterTable, TableKeeping
  <2> QED
    BY <2>1, OnlyShort DEF U!CompareTable
<1>4. ASSUME NEW k PROVE Only(TableKeeping, <<U!RenameTable(k, t.name)>> \o U!CompareTable(t, exported, k))
  <2>1. U!RenameTable(k, t.name).kind \in TableKeeping
    BY DEF U!RenameTable, TableKeeping
  <2>2. Only(TableKeeping, <<U!RenameTable(k, t.name)>>)
    BY <2>1, OnlyShort
  <2> QED
    BY <1>3, <2>2, OnlyConcatenated
<1>5. Only(TableKeeping, <<U!CreateTable(t)>>)
  <2>1. U!CreateTable(t).kind \in TableKeeping
    BY DEF U!CreateTable, TableKeeping
  <2> QED
    BY <2>1, OnlyShort
<1> HIDE DEF kept, renamed, the, keys, turn
<1>6. Only(TableKeeping, turn.ops) /\ turn.matched \subseteq keys /\ DOMAIN turn = {"matched", "ops"}
  <2>1. CASE kept # {}
    BY <1>1, <1>2, <1>3, <2>1
  <2>2. CASE kept = {} /\ renamed # {}
    BY <1>1, <1>2, <1>4, <2>2
  <2>3. CASE kept = {} /\ renamed = {}
    BY <1>1, <1>5, <2>3
  <2> QED
    BY <2>1, <2>2, <2>3
<1> QED
  BY <1>6 DEF turn, keys

(* The same where the export has no schemas: the plan keeps every table.   *)
LEMMA UOnlyKeeping ==
    ASSUME NEW tables, NEW exported, IsList(tables)
    PROVE  Only(TableKeeping, U!Diff(tables, exported, FALSE))
<1> DEFINE n == Len(tables)
           keys == DOMAIN exported
           Match(f) == f = [i \in 0..n |->
                IF i = 0 THEN [matched |-> {}, ops |-> <<>>]
                ELSE LET turn == U!MatchTable(tables[i], exported, f[i - 1].matched)
                     IN [matched |-> f[i - 1].matched \cup turn.matched,
                         ops |-> f[i - 1].ops \o turn.ops]]
           match == CHOOSE f : Match(f)
           turn == [i \in 1..n |-> [m \in SUBSET keys |-> U!MatchTable(tables[i], exported, m)]]
<1>1. n \in Nat
  BY ListIsSeq
<1>2. TurnsKeep(turn, n, keys, TableKeeping)
  BY UOnlyMatched DEF TurnsKeep
<1>3. PICK g : /\ g = [k \in 0..n |-> g[k]] /\ g[0] = NothingMatched
               /\ \A k \in 1..n : /\ g[k] = AfterTurn(g[k - 1], turn[k][g[k - 1].matched])
                                  /\ g[k - 1].matched \in SUBSET keys
  <2> HIDE DEF n, turn, keys
  <2> QED
    BY <1>1, <1>2, TurnsTaken
<1>4. Match([k \in 0..n |-> g[k]])
  <2>1. ASSUME NEW k \in 0..n, k # 0
        PROVE  /\ k - 1 \in 0..n
               /\ g[k] = AfterTurn(g[k - 1], U!MatchTable(tables[k], exported, g[k - 1].matched))
    <3>1. k \in 1..n
      BY <1>1, <2>1
    <3>2. /\ g[k] = AfterTurn(g[k - 1], turn[k][g[k - 1].matched])
          /\ g[k - 1].matched \in SUBSET keys
      BY <1>3, <3>1
    <3>3. turn[k][g[k - 1].matched] = U!MatchTable(tables[k], exported, g[k - 1].matched)
      BY <3>1, <3>2
    <3>4. k - 1 \in 0..n
      BY <1>1, <3>1
    <3> HIDE DEF turn
    <3> QED
      BY <3>2, <3>3, <3>4
  <2> HIDE DEF turn
  <2> QED
    BY <1>3, <2>1 DEF NothingMatched, AfterTurn
<1>5. Match(match)
  <2> HIDE DEF Match
  <2> QED
    BY <1>4
<1> HIDE DEF match
<1>6. Only(TableKeeping, match[n].ops)
  <2>1. match[0] = NothingMatched
    BY <1>1, <1>5 DEF NothingMatched
  <2>2. ASSUME NEW k \in 1..n, match[k - 1].matched \in SUBSET keys
        PROVE  match[k] = AfterTurn(match[k - 1], turn[k][match[k - 1].matched])
    <3>1. k \in 0..n /\ k # 0
      BY <1>1
    <3>2. turn[k][match[k - 1].matched] = U!MatchTable(tables[k], exported, match[k - 1].matched)
      BY <2>2
    <3> HIDE DEF turn
    <3> QED
      BY <1>5, <3>1, <3>2 DEF AfterTurn
  <2>3. TurnsBy(match, turn, n, keys)
    <3> HIDE DEF turn
    <3> QED
      BY <2>1, <2>2 DEF TurnsBy
  <2> HIDE DEF Match, turn, n, keys
  <2> QED
    BY ONLY <1>1, <1>2, <2>1, <2>3, TurnsPlan
<1>7. U!CompareTables(tables, exported, FALSE) = match[n].ops \o <<>>
  BY DEF U!CompareTables, U!WithDrops, U!MatchTables, match
<1>8. Only(TableKeeping, U!CompareTables(tables, exported, FALSE))
  BY <1>6, <1>7, OnlyShort, OnlyConcatenated
<1> QED
  BY <1>8, USorts, OnlySorted DEF U!Diff

(* An operation that keeps tables leaves the data of every table in one.   *)
LEMMA UDataStay ==
    ASSUME NEW d, NEW op, NEW data, HaveData(d), AllIn(data, d),
           op.kind \in TableKeeping, U!Accepts(d, op)
    PROVE  HaveData(U!Effect(d, op)) /\ AllIn(data, U!Effect(d, op))
<1> DEFINE e == U!Effect(d, op)
<1>1. ASSUME NEW n, U!Resolve(d, n) # {}
      PROVE  U!TheTable(d, n) \in DOMAIN d
  <2>1. U!Resolve(d, n) \subseteq DOMAIN d
    BY DEF U!Resolve, U!ResolveQualified
  <2>2. U!TheTable(d, n) \in U!Resolve(d, n)
    BY <1>1 DEF U!TheTable
  <2> QED
    BY <2>1, <2>2
<1>2. CASE op.kind = "CreateTable"
  <2> DEFINE n == U!Placed(op.table)
             new == [shape |-> op.shape, data |-> U!Fresh]
  <2>1. n \notin DOMAIN d
    BY <1>2 DEF U!Accepts, U!AcceptsTableOp
  <2>2. e = [k \in DOMAIN d \cup {n} |-> IF k = n THEN new ELSE d[k]]
    BY <1>2 DEF U!Effect, U!TableOpEffect, U!With
  <2>3. "data" \in DOMAIN new
    OBVIOUS
  <2> HIDE DEF n, new, e
  <2>4. HaveData(e)
    BY <2>2, <2>3 DEF HaveData
  <2>5. AllIn(data, e)
    BY <2>1, <2>2 DEF AllIn
  <2> QED
    BY <2>4, <2>5 DEF e
<1>3. CASE op.kind = "RenameTable"
  <2> DEFINE from == U!TheTable(d, op.from)
             to == U!RenamedTo(d, op)
             w == U!Without(d, {from})
  <2>1. from \in DOMAIN d /\ to \notin DOMAIN d
    BY <1>1, <1>3 DEF U!Accepts, U!AcceptsTableOp
  <2>2. e = [k \in DOMAIN w \cup {to} |-> IF k = to THEN d[from] ELSE w[k]]
    BY <1>3 DEF U!Effect, U!TableOpEffect, U!With
  <2>3. w = [k \in DOMAIN d \ {from} |-> d[k]]
    BY DEF U!Without, U!F!Restrict
  <2> HIDE DEF from, to, w, e
  <2>4. e = [k \in (DOMAIN d \ {from}) \cup {to} |-> IF k = to THEN d[from] ELSE d[k]]
    BY <2>2, <2>3
  <2>5. HaveData(e)
    BY <2>1, <2>4 DEF HaveData
  <2>6. AllIn(data, e)
    <3> SUFFICES ASSUME NEW p \in data PROVE \E q \in DOMAIN e : e[q].data = p
      BY DEF AllIn
    <3>1. PICK q \in DOMAIN d : d[q].data = p
      BY DEF AllIn
    <3>2. CASE q = from
      <4>1. to \in DOMAIN e /\ e[to] = d[q]
        BY <2>4, <3>2
      <4> QED
        BY <3>1, <4>1
    <3>3. CASE q # from
      <4>1. q \in DOMAIN e /\ e[q] = d[q]
        BY <2>1, <2>4, <3>3
      <4> QED
        BY <3>1, <4>1
    <3> QED
      BY <3>2, <3>3
  <2> QED
    BY <2>5, <2>6 DEF e
<1>4. CASE op.kind = "AlterColumn"
  <2> DEFINE x == U!TheTable(d, op.table)
  <2>1. x \in DOMAIN d
    BY <1>1, <1>4 DEF U!Accepts, U!AcceptsTableOp
  <2>2. e = [d EXCEPT ![x].shape = op.shape]
    BY <1>4 DEF U!Effect, U!TableOpEffect
  <2> HIDE DEF x, e
  <2>3. DOMAIN e = DOMAIN d
    BY <2>2
  <2>4. \A q \in DOMAIN d : DOMAIN e[q] = DOMAIN d[q] /\ e[q].data = d[q].data
    <3> SUFFICES ASSUME NEW q \in DOMAIN d
                 PROVE  DOMAIN e[q] = DOMAIN d[q] /\ e[q].data = d[q].data
      OBVIOUS
    <3>1. CASE q = x
      <4>1. e[q] = [d[q] EXCEPT !.shape = op.shape] /\ "data" \in DOMAIN d[q]
        BY <2>1, <2>2, <3>1 DEF HaveData
      <4> QED
        BY <4>1
    <3>2. CASE q # x
      BY <2>2, <3>2
    <3> QED
      BY <3>1, <3>2
  <2> QED
    BY <2>3, <2>4 DEF HaveData, AllIn, e
<1> QED
  BY <1>2, <1>3, <1>4 DEF TableKeeping

UKeeps ==
    /\ \E in \in UnqualifiedTables : current = in[1] /\ desired = in[2]
    /\ enableDrop \in BOOLEAN
    /\ ~enableDrop => Only(TableKeeping, ops)
    /\ ~enableDrop => HaveData(db) /\ AllIn(DOMAIN U!Started, db)

(* The run starts with no plan, and with what the export has.              *)
LEMMA UInitKeeps ==
    U!Init => UKeeps
<1> SUFFICES ASSUME U!Init PROVE UKeeps
  OBVIOUS
<1>1. /\ \E in \in UnqualifiedTables : current = in[1] /\ desired = in[2]
      /\ enableDrop \in BOOLEAN /\ ops = <<>> /\ db = U!DatabaseOf(current)
  BY DEF U!Init
<1>2. HaveData(db) /\ AllIn(DOMAIN U!Started, db)
  <2>1. db = U!Started
    BY <1>1 DEF U!Started
  <2>2. \A q \in DOMAIN db : "data" \in DOMAIN db[q] /\ db[q].data = q
    BY <1>1 DEF U!DatabaseOf, U!TablesOfExport
  <2> QED
    BY <2>1, <2>2 DEF HaveData, AllIn
<1> QED
  BY <1>1, <1>2, OnlyShort DEF UKeeps

(* Planning plans what keeps tables, and applying it keeps their data.     *)
LEMMA UNextKeeps ==
    UKeeps /\ U!Next => UKeeps'
<1> SUFFICES ASSUME UKeeps, U!Next PROVE UKeeps'
  OBVIOUS
<1>1. current' = current /\ desired' = desired /\ enableDrop' = enableDrop
  BY DEF U!Next, U!Plan, U!Fail, U!Apply, U!Reject, U!Finish, U!Terminated, U!vars
<1>2. U!Started' = U!Started
  BY <1>1 DEF U!Started
<1>3. CASE ops' = U!Diff(desired, current, enableDrop) /\ db' = db
  <2>1. IsList(desired)
    BY ListsAssumption DEF UKeeps
  <2>2. ~enableDrop => Only(TableKeeping, ops')
    <3>1. Only(TableKeeping, U!Diff(desired, current, FALSE))
      BY <2>1, UOnlyKeeping
    <3>2. ~enableDrop => enableDrop = FALSE
      BY DEF UKeeps
    <3> QED
      BY <1>3, <3>1, <3>2
  <2> QED
    BY <1>1, <1>2, <1>3, <2>2 DEF UKeeps
<1>4. CASE /\ ops # <<>> /\ U!Accepts(db, Head(ops))
           /\ db' = U!Effect(db, Head(ops)) /\ ops' = Tail(ops)
  <2> SUFFICES ASSUME ~enableDrop
               PROVE  Only(TableKeeping, ops') /\ HaveData(db') /\ AllIn(DOMAIN U!Started, db')
    BY <1>1, <1>2 DEF UKeeps
  <2>1. Only(TableKeeping, ops) /\ HaveData(db) /\ AllIn(DOMAIN U!Started, db)
    BY DEF UKeeps
  <2>2. Head(ops).kind \in TableKeeping /\ Only(TableKeeping, Tail(ops))
    BY <1>4, <2>1, OnlyTail
  <2>3. HaveData(U!Effect(db, Head(ops))) /\ AllIn(DOMAIN U!Started, U!Effect(db, Head(ops)))
    BY <1>4, <2>1, <2>2, UDataStay
  <2> QED
    BY <1>4, <2>2, <2>3
<1>5. CASE ops' = ops /\ db' = db
  BY <1>1, <1>2, <1>5 DEF UKeeps
<1> QED
  BY <1>3, <1>4, <1>5
     DEF U!Next, U!Plan, U!Fail, U!Apply, U!Reject, U!Finish, U!Terminated, U!vars

(* With that nothing is lost.                                              *)
LEMMA UKeepsAll ==
    UKeeps => U!NothingLostWithoutDrop
BY DEF UKeeps, U!NothingLostWithoutDrop, AllIn

-------------------------------------------------------------------------------
(* Other objects: without enable_drop they are created and altered.        *)
OKept(new) ==
    {O!Create(k, new[k]) : k \in EntriesOf(O!Kinds) \cap DOMAIN new}
    \cup {O!Alter(k, new[k]) : k \in O!Alterable \cap DOMAIN new}

(* None of these operations drops an object.                               *)
LEMMA OKeptDropsNothing ==
    ASSUME NEW new, NEW op \in OKept(new)
    PROVE  op.kind # O!DropKind[op.of]
<1>1. CASE op \in {O!Create(k, new[k]) : k \in EntriesOf(O!Kinds) \cap DOMAIN new}
  <2>1. PICK k \in EntriesOf(O!Kinds) : op.kind = O!CreateKind[k] /\ op.of = k
    BY <1>1 DEF O!Create
  <2>2. k \in {"Table", "MaterializedView", "Sequence", "Trigger", "Function", "Type",
               "Domain", "Extension", "Schema", "Comment", "Policy"}
    BY DEF EntriesOf, O!Kinds
  <2>3. O!CreateKind[k] # O!DropKind[k]
    BY <2>2 DEF O!CreateKind, O!DropKind
  <2> QED
    BY <2>1, <2>3
<1>2. CASE op \in {O!Alter(k, new[k]) : k \in O!Alterable \cap DOMAIN new}
  <2>1. PICK k \in O!Alterable : op.kind = O!AlterKind[k] /\ op.of = k
    BY <1>2 DEF O!Alter
  <2>2. O!AlterKind[k] # O!DropKind[k]
    BY DEF O!Alterable, O!AlterKind, O!DropKind
  <2> QED
    BY <2>1, <2>2
<1> QED
  BY <1>1, <1>2 DEF OKept

(* Without enable_drop the plan has only these.                            *)
LEMMA OOnlyKept ==
    ASSUME NEW new, NEW old
    PROVE  O!Diff(new, old, FALSE) \in Seq(OKept(new))
<1> DEFINE q == [i \in 1..11 |-> O!CompareKind(O!Kinds[i], new, old, FALSE)]
           K == OKept(new)
<1>1. DOMAIN O!Kinds = 1..11
  BY DEF O!Kinds
<1>2. ASSUME NEW i \in 1..11 PROVE q[i] \in Seq(K)
  <2> DEFINE k == O!Kinds[i]
             c == <<O!Create(k, new[k])>>
             a == <<O!Alter(k, new[k])>>
  <2>1. k \in EntriesOf(O!Kinds)
    BY <1>1 DEF EntriesOf
  <2>2. k \in DOMAIN new => O!Create(k, new[k]) \in K
    BY <2>1 DEF OKept
  <2>3. k \in DOMAIN new /\ k \in O!Alterable => O!Alter(k, new[k]) \in K
    BY DEF OKept
  <2>4. k \in DOMAIN new /\ k \in DOMAIN old =>
            O!Changed(k, new[k], old[k], FALSE) \in
                {<<>>, c} \cup (IF k \in O!Alterable THEN {a} ELSE {})
    <3>1. O!Recreate(k, new[k], FALSE) = c
      BY DEF O!Recreate
    <3> HIDE DEF k
    <3> QED
      BY <3>1 DEF O!Changed
  <2>5. q[i] = IF k \in O!There(new)
               THEN IF k \in O!There(old) THEN O!Changed(k, new[k], old[k], FALSE) ELSE c
               ELSE <<>>
    BY DEF O!CompareKind
  <2>6. /\ <<>> \in Seq(K) /\ (k \in DOMAIN new => c \in Seq(K))
        /\ k \in DOMAIN new /\ k \in O!Alterable => a \in Seq(K)
    <3> HIDE DEF K, k
    <3> QED
      BY <2>2, <2>3
  <2> HIDE DEF k, q, K, c, a
  <2>7. k \in DOMAIN new /\ k \in DOMAIN old => O!Changed(k, new[k], old[k], FALSE) \in Seq(K)
    BY <2>4, <2>6
  <2>8. k \in O!There(new) => k \in DOMAIN new
    BY DEF O!There
  <2>9. k \in O!There(old) => k \in DOMAIN old
    BY DEF O!There
  <2> QED
    BY <2>5, <2>6, <2>7, <2>8, <2>9
<1>3. O!Compare(new, old, FALSE) = SE!FlattenSeq(q)
  BY <1>1, OSorts DEF O!Compare
<1>4. SE!FlattenSeq(q) \in Seq(K)
  <2>1. q \in [1..11 -> Seq(K)]
    BY <1>2
  <2> HIDE DEF q, K
  <2> QED
    BY <2>1, FlattenedStays
<1>5. SortDiffOps(SE!FlattenSeq(q)) \in Seq(K)
  <2> HIDE DEF q, K
  <2> QED
    BY <1>4, SortRearranges
<1> QED
  BY <1>3, <1>5, OSorts DEF O!Diff

OKeeps ==
    /\ enableDrop \in BOOLEAN
    /\ ~enableDrop => ops \in Seq(OKept(desired))
    /\ O!NothingLostWithoutDrop

(* The run starts with no plan, and with what the export has.              *)
LEMMA OInitKeeps ==
    O!Init => OKeeps
BY DEF O!Init, OKeeps, O!NothingLostWithoutDrop, O!DatabaseOf, O!F!Restrict, O!There

(* Planning plans no drop, and what is applied makes no object disappear.  *)
LEMMA ONextKeeps ==
    OKeeps /\ O!Next => OKeeps'
<1> SUFFICES ASSUME OKeeps, O!Next PROVE OKeeps'
  OBVIOUS
<1>1. current' = current /\ desired' = desired /\ enableDrop' = enableDrop
  BY DEF O!Next, O!Plan, O!Fail, O!Apply, O!Reject, O!Finish, O!Terminated, O!vars
<1>2. CASE ops' = O!Diff(desired, current, enableDrop) /\ db' = db
  <2>1. ~enableDrop => ops' \in Seq(OKept(desired))
    <3>1. ~enableDrop => enableDrop = FALSE
      BY DEF OKeeps
    <3> QED
      BY <1>2, <3>1, OOnlyKept
  <2> QED
    BY <1>1, <1>2, <2>1 DEF OKeeps, O!NothingLostWithoutDrop
<1>3. CASE ops # <<>> /\ db' = O!Effect(db, Head(ops)) /\ ops' = Tail(ops)
  <2> SUFFICES ASSUME ~enableDrop
               PROVE  ops' \in Seq(OKept(desired)) /\ O!There(current) \subseteq DOMAIN db'
    BY <1>1 DEF OKeeps, O!NothingLostWithoutDrop
  <2>1. ops \in Seq(OKept(desired)) /\ O!There(current) \subseteq DOMAIN db
    BY DEF OKeeps, O!NothingLostWithoutDrop
  <2>2. Head(ops) \in OKept(desired) /\ Tail(ops) \in Seq(OKept(desired))
    BY <1>3, <2>1, TailList
  <2>3. Head(ops).kind # O!DropKind[Head(ops).of]
    BY <2>2, OKeptDropsNothing
  <2>4. DOMAIN db \subseteq DOMAIN db'
    BY <1>3, <2>3 DEF O!Effect
  <2> QED
    BY <1>3, <2>1, <2>2, <2>4
<1>4. CASE ops' = ops /\ db' = db
  BY <1>1, <1>4 DEF OKeeps, O!NothingLostWithoutDrop
<1> QED
  BY <1>2, <1>3, <1>4
     DEF O!Next, O!Plan, O!Fail, O!Apply, O!Reject, O!Finish, O!Terminated, O!vars

-------------------------------------------------------------------------------
(* Columns and checks: without enable_drop a check is dropped only where   *)
(* one of its name is desired.                                             *)
ColumnKeeping == {"AddColumn", "AlterColumn", "RenameColumn"}

CKeptOp(new, x) ==
    \/ x.kind \in ColumnKeeping
    \/ x.kind = "AddCheck" /\ "name" \in DOMAIN x.check
    \/ x.kind = "DropCheck" /\ x.name \in C!CheckNames(new)

CKeptPlan(new, s) == IsList(s) /\ \A x \in EntriesOf(s) : CKeptOp(new, x)

(* The names of columns and of checks are finitely many numbers.           *)
LEMMA ColumnNamesAreFinite ==
    ASSUME NEW table, IsColumnSchema(table)
    PROVE  /\ IsFiniteSet(C!ColumnNames(table)) /\ C!ColumnNames(table) \subseteq Nat
           /\ IsFiniteSet(C!CheckNames(table)) /\ C!CheckNames(table) \subseteq Nat
<1>1. IsFiniteSet(C!ColumnNames(table))
  <2> DEFINE f == [c \in table.columns |-> c.name]
  <2>1. /\ IsFiniteSet(table.columns) /\ DOMAIN f = table.columns
        /\ f = [c \in table.columns |-> f[c]]
        /\ C!ColumnNames(table) = {f[c] : c \in table.columns}
    BY DEF IsColumnSchema, C!ColumnNames
  <2> HIDE DEF f
  <2> QED
    BY <2>1, ImageIsFinite
<1>2. IsFiniteSet(C!CheckNames(table))
  <2> DEFINE named == C!Named(table)
             f == [k \in named |-> k.name]
  <2>1. IsFiniteSet(named)
    <3>1. IsFiniteSet(table.checks) /\ named \subseteq table.checks
      BY DEF IsColumnSchema, C!Named
    <3> HIDE DEF named
    <3> QED
      BY <3>1, FS_Subset
  <2>2. DOMAIN f = named /\ f = [k \in named |-> f[k]] /\ C!CheckNames(table) = {f[k] : k \in named}
    BY DEF C!CheckNames
  <2> HIDE DEF f, named
  <2> QED
    BY <2>1, <2>2, ImageIsFinite
<1>3. C!ColumnNames(table) \subseteq Nat /\ C!CheckNames(table) \subseteq Nat
  BY DEF IsColumnSchema, C!ColumnNames, C!CheckNames, C!Named
<1> QED
  BY <1>1, <1>2, <1>3

(* Numbers in order: as many as there are, each of the set.                *)
LEMMA CInOrder ==
    ASSUME NEW S, IsFiniteSet(S), S \subseteq Nat
    PROVE  /\ C!InOrder(S) = InOrder(S) /\ Cardinality(S) \in Nat
           /\ C!InOrder(S) \in [1..Cardinality(S) -> S]
           /\ DOMAIN C!InOrder(S) = 1..Cardinality(S) /\ Len(C!InOrder(S)) = Cardinality(S)
<1>1. C!InOrder(S) = InOrder(S)
  BY DEF C!InOrder, InOrder, C!Cardinality, Cardinality
<1>2. Cardinality(S) \in Nat /\ InOrder(S) \in [1..Cardinality(S) -> S]
  BY InOrderEnumerates
<1>3. Len(InOrder(S)) = Cardinality(S)
  BY <1>2
<1> QED
  BY <1>1, <1>2, <1>3

(* compare_columns without its drops: columns are added, altered or        *)
(* renamed.                                                                *)
LEMMA ColumnsOnlyKeep ==
    ASSUME NEW new, NEW old, IsColumnSchema(new)
    PROVE  Only(ColumnKeeping, C!MatchColumns(new, old).ops)
<1> DEFINE names == C!InOrder(C!ColumnNames(new))
           n == Cardinality(C!ColumnNames(new))
           keys == C!ColumnNames(old)
           Match(f) == f = [i \in 0..n |->
                IF i = 0 THEN [matched |-> {}, ops |-> <<>>]
                ELSE LET turn == C!MatchColumn(C!Column(new, names[i]), old, f[i - 1].matched)
                     IN [matched |-> f[i - 1].matched \cup turn.matched,
                         ops |-> f[i - 1].ops \o turn.ops]]
           match == CHOOSE f : Match(f)
           turn == [i \in 1..n |->
                [m \in SUBSET keys |-> C!MatchColumn(C!Column(new, names[i]), old, m)]]
<1>1. n \in Nat /\ Len(names) = n
  BY ColumnNamesAreFinite, CInOrder
<1>2. ASSUME NEW c, NEW m
      PROVE  Only(ColumnKeeping, C!MatchColumn(c, old, m).ops)
             /\ C!MatchColumn(c, old, m).matched \subseteq keys
  <2> DEFINE renamed == c.from \cap (keys \ m)
             from == CHOOSE k \in renamed : TRUE
             t == C!MatchColumn(c, old, m)
  <2>1. ASSUME NEW o PROVE Only(ColumnKeeping, C!AlterOps(c, o))
    <3>1. C!AlterColumn(c, C!ColumnChanges(c, o)).kind \in ColumnKeeping
      BY DEF C!AlterColumn, ColumnKeeping
    <3> QED
      BY <3>1, OnlyShort DEF C!AlterOps
  <2>2. Only(ColumnKeeping, <<C!RenameColumn(from, c.name)>> \o C!AlterOps(c, C!Column(old, from)))
    <3>1. C!RenameColumn(from, c.name).kind \in ColumnKeeping
      BY DEF C!RenameColumn, ColumnKeeping
    <3>2. Only(ColumnKeeping, <<C!RenameColumn(from, c.name)>>)
      BY <3>1, OnlyShort
    <3> HIDE DEF from
    <3> QED
      BY <2>1, <3>2, OnlyConcatenated
  <2>3. Only(ColumnKeeping, <<C!AddColumn(c)>>)
    <3>1. C!AddColumn(c).kind \in ColumnKeeping
      BY DEF C!AddColumn, ColumnKeeping
    <3> QED
      BY <3>1, OnlyShort
  <2>4. t = IF c.name \in keys
            THEN [matched |-> {c.name}, ops |-> C!AlterOps(c, C!Column(old, c.name))]
            ELSE IF renamed # {}
            THEN [matched |-> renamed,
                  ops |-> <<C!RenameColumn(from, c.name)>> \o C!AlterOps(c, C!Column(old, from))]
            ELSE [matched |-> {}, ops |-> <<C!AddColumn(c)>>]
    BY DEF C!MatchColumn
  <2>5. renamed \subseteq keys
    OBVIOUS
  <2> HIDE DEF renamed, from, t, keys
  <2>6. Only(ColumnKeeping, t.ops) /\ t.matched \subseteq keys
    <3>1. CASE c.name \in keys
      BY <2>1, <2>4, <3>1
    <3>2. CASE c.name \notin keys /\ renamed # {}
      BY <2>2, <2>4, <2>5, <3>2
    <3>3. CASE c.name \notin keys /\ renamed = {}
      BY <2>3, <2>4, <3>3
    <3> QED
      BY <3>1, <3>2, <3>3
  <2> QED
    BY <2>6 DEF t, keys
<1>3. TurnsKeep(turn, n, keys, ColumnKeeping)
  <2> HIDE DEF n, names, keys
  <2> QED
    BY <1>2 DEF TurnsKeep
<1>4. PICK g : /\ g = [k \in 0..n |-> g[k]] /\ g[0] = NothingMatched
               /\ \A k \in 1..n : /\ g[k] = AfterTurn(g[k - 1], turn[k][g[k - 1].matched])
                                  /\ g[k - 1].matched \in SUBSET keys
  <2> HIDE DEF n, turn, keys
  <2> QED
    BY <1>1, <1>3, TurnsTaken
<1> HIDE DEF n, names, keys
<1>5. Match([k \in 0..n |-> g[k]])
  <2>1. ASSUME NEW k \in 0..n, k # 0
        PROVE  /\ k - 1 \in 0..n
               /\ g[k] = AfterTurn(g[k - 1],
                            C!MatchColumn(C!Column(new, names[k]), old, g[k - 1].matched))
    <3>1. k \in 1..n
      BY <1>1, <2>1
    <3>2. /\ g[k] = AfterTurn(g[k - 1], turn[k][g[k - 1].matched])
          /\ g[k - 1].matched \in SUBSET keys
      BY <1>4, <3>1
    <3>3. turn[k][g[k - 1].matched] =
             C!MatchColumn(C!Column(new, names[k]), old, g[k - 1].matched)
      BY <3>1, <3>2
    <3>4. k - 1 \in 0..n
      BY <1>1, <3>1
    <3> HIDE DEF turn
    <3> QED
      BY <3>2, <3>3, <3>4
  <2> HIDE DEF turn
  <2> QED
    BY <1>4, <2>1 DEF NothingMatched, AfterTurn
<1>6. Match(match)
  <2> HIDE DEF Match
  <2> QED
    BY <1>5
<1> HIDE DEF match
<1>7. Only(ColumnKeeping, match[n].ops)
  <2>1. match[0] = NothingMatched
    BY <1>1, <1>6 DEF NothingMatched
  <2>2. ASSUME NEW k \in 1..n, match[k - 1].matched \in SUBSET keys
        PROVE  match[k] = AfterTurn(match[k - 1], turn[k][match[k - 1].matched])
    <3>1. k \in 0..n /\ k # 0
      BY <1>1
    <3>2. turn[k][match[k - 1].matched] =
             C!MatchColumn(C!Column(new, names[k]), old, match[k - 1].matched)
      BY <2>2
    <3> HIDE DEF turn
    <3> QED
      BY <1>6, <3>1, <3>2 DEF AfterTurn
  <2>3. TurnsBy(match, turn, n, keys)
    <3> HIDE DEF turn
    <3> QED
      BY <2>1, <2>2 DEF TurnsBy
  <2> HIDE DEF Match, turn
  <2> QED
    BY ONLY <1>1, <1>3, <2>1, <2>3, TurnsPlan
<1>8. C!MatchColumns(new, old) = match[n]
  BY <1>1 DEF C!MatchColumns, match, names
<1> QED
  BY <1>7, <1>8

(* Without enable_drop the plan drops no column, and a check only to       *)
(* replace it.                                                             *)
LEMMA COnlyKept ==
    ASSUME NEW new, NEW old, IsColumnSchema(new)
    PROVE  CKeptPlan(new, C!Diff(new, old, FALSE))
<1> DEFINE names == C!InOrder(C!CheckNames(new))
           n == Cardinality(C!CheckNames(new))
           q == [i \in 1..n |-> C!CheckOps(C!Check(new, names[i]), old)]
           columns == C!CompareColumns(new, old, FALSE)
           checks == C!CompareChecks(new, old, FALSE)
<1>1. n \in Nat /\ names \in [1..n -> C!CheckNames(new)] /\ DOMAIN names = 1..n
  BY ColumnNamesAreFinite, CInOrder
<1>2. CKeptPlan(new, columns)
  <2>1. columns = C!MatchColumns(new, old).ops \o <<>>
    BY DEF C!CompareColumns
  <2>2. Only(ColumnKeeping, columns)
    <3> HIDE DEF columns
    <3> QED
      BY <2>1, ColumnsOnlyKeep, OnlyShort, OnlyConcatenated
  <2> QED
    BY <2>2 DEF CKeptPlan, CKeptOp, Only
<1>3. ASSUME NEW i \in 1..n PROVE CKeptPlan(new, q[i])
  <2> DEFINE k == C!Check(new, names[i])
  <2>1. names[i] \in C!CheckNames(new)
    BY <1>1
  <2>2. k \in new.checks /\ k.name = names[i]
    <3> HIDE DEF names
    <3> QED
      BY <2>1 DEF C!CheckNames, C!Check, C!Named
  <2>3. "name" \in DOMAIN k
    <3> HIDE DEF k
    <3> QED
      BY <2>2 DEF IsColumnSchema
  <2>4. q[i] = C!CheckOps(k, old)
    OBVIOUS
  <2> HIDE DEF names, k, q
  <2>5. CKeptOp(new, C!AddCheck(k)) /\ CKeptOp(new, C!DropCheck(k.name))
    BY <2>1, <2>2, <2>3 DEF CKeptOp, C!AddCheck, C!DropCheck
  <2>6. /\ CKeptPlan(new, <<>>) /\ CKeptPlan(new, <<C!AddCheck(k)>>)
        /\ CKeptPlan(new, <<C!DropCheck(k.name), C!AddCheck(k)>>)
    BY <2>5, ShortLists DEF CKeptPlan
  <2> QED
    BY <2>4, <2>6 DEF C!CheckOps
<1>4. CKeptPlan(new, checks)
  <2>1. checks = SE!FlattenSeq(q) \o <<>>
    BY <1>1, CSorts DEF C!CompareChecks
  <2>2. q = [i \in 1..n |-> q[i]]
    OBVIOUS
  <2> HIDE DEF q, n, checks
  <2>3. \A i \in 1..n : IsList(q[i])
    BY <1>3 DEF CKeptPlan
  <2>4. /\ IsList(SE!FlattenSeq(q))
        /\ \A x \in EntriesOf(SE!FlattenSeq(q)) : \E i \in 1..n : x \in EntriesOf(q[i])
    BY <1>1, <2>2, <2>3, FlattenedList
  <2>5. CKeptPlan(new, SE!FlattenSeq(q))
    BY <1>3, <2>4 DEF CKeptPlan
  <2>6. /\ IsList(SE!FlattenSeq(q) \o <<>>)
        /\ EntriesOf(SE!FlattenSeq(q) \o <<>>) \subseteq EntriesOf(SE!FlattenSeq(q)) \cup {}
    BY <2>4, ShortLists, ConcatenatedList
  <2> QED
    BY <2>1, <2>5, <2>6 DEF CKeptPlan
<1> HIDE DEF columns, checks
<1>5. CKeptPlan(new, columns \o checks)
  <2>1. /\ IsList(columns \o checks)
        /\ EntriesOf(columns \o checks) \subseteq EntriesOf(columns) \cup EntriesOf(checks)
    BY <1>2, <1>4, ConcatenatedList DEF CKeptPlan
  <2> QED
    BY <1>2, <1>4, <2>1 DEF CKeptPlan
<1>6. CKeptPlan(new, SortDiffOps(columns \o checks))
  BY <1>5, SortedList DEF CKeptPlan
<1> QED
  BY <1>6, CSorts DEF C!Diff, columns, checks

(* A table in the database: its columns have data, its checks names.       *)
IsTable(t) ==
    /\ DOMAIN t = {"columns", "checks"}
    /\ \A c \in t.columns : "data" \in DOMAIN c
    /\ \A k \in t.checks : "name" \in DOMAIN k

DataIn(data, t) == \A n \in data : \E c \in t.columns : c.data = n

(* Such an operation keeps the data of every column, and every check that  *)
(* is not desired.                                                         *)
LEMMA CKeepsStay ==
    ASSUME NEW t, NEW op, NEW new, NEW data, IsTable(t), DataIn(data, t),
           CKeptOp(new, op), C!Accepts(t, op)
    PROVE  /\ IsTable(C!Effect(t, op)) /\ DataIn(data, C!Effect(t, op))
           /\ C!CheckNames(t) \ C!CheckNames(new) \subseteq C!CheckNames(C!Effect(t, op))
<1> DEFINE e == C!Effect(t, op)
<1>1. ASSUME NEW n, n \in C!ColumnNames(t)
      PROVE  C!Column(t, n) \in t.columns
  BY <1>1 DEF C!ColumnNames, C!Column
<1>2. ASSUME DOMAIN e = {"columns", "checks"}, NEW c, NEW d, c \in t.columns,
             "data" \in DOMAIN d, d.data = c.data, e.columns = (t.columns \ {c}) \cup {d}
      PROVE  (\A x \in e.columns : "data" \in DOMAIN x) /\ DataIn(data, e)
  <2> HIDE DEF e
  <2>1. \A x \in e.columns : "data" \in DOMAIN x
    BY <1>2 DEF IsTable
  <2>2. ASSUME NEW n \in data PROVE \E x \in e.columns : x.data = n
    <3>1. PICK x \in t.columns : x.data = n
      BY DEF DataIn
    <3> QED
      BY <1>2, <3>1
  <2> QED
    BY <2>1, <2>2 DEF DataIn
<1>3. CASE op.kind = "AddColumn"
  <2>1. e = [t EXCEPT !.columns = @ \cup {C!Filled(op.column, 0)}]
    BY <1>3 DEF C!Effect
  <2>2. "data" \in DOMAIN C!Filled(op.column, 0)
    BY DEF C!Filled
  <2> HIDE DEF e
  <2>3. /\ DOMAIN e = {"columns", "checks"} /\ e.checks = t.checks
        /\ e.columns = t.columns \cup {C!Filled(op.column, 0)}
    BY <2>1 DEF IsTable
  <2>4. IsTable(e) /\ DataIn(data, e)
    BY <2>2, <2>3 DEF IsTable, DataIn
  <2>5. C!CheckNames(t) \subseteq C!CheckNames(e)
    BY <2>3 DEF C!CheckNames, C!Named
  <2> QED
    BY <2>4, <2>5 DEF e
<1>4. CASE op.kind = "AlterColumn"
  <2> DEFINE c == C!Column(t, op.column.name)
             d == C!Altered(c, op)
  <2>1. c \in t.columns
    BY <1>1, <1>4 DEF C!Accepts
  <2>2. e = [t EXCEPT !.columns = (@ \ {c}) \cup {d}]
    BY <1>4 DEF C!Effect
  <2>3. "data" \in DOMAIN c
    BY <2>1 DEF IsTable
  <2>4. "data" \in DOMAIN d /\ d.data = c.data
    <3> HIDE DEF c
    <3> QED
      BY <2>3 DEF C!Altered
  <2> HIDE DEF c, d, e
  <2>5. /\ DOMAIN e = {"columns", "checks"} /\ e.checks = t.checks
        /\ e.columns = (t.columns \ {c}) \cup {d}
    BY <2>2 DEF IsTable
  <2>6. (\A x \in e.columns : "data" \in DOMAIN x) /\ DataIn(data, e)
    BY <1>2, <2>1, <2>4, <2>5 DEF e
  <2>7. C!CheckNames(t) \subseteq C!CheckNames(e)
    BY <2>5 DEF C!CheckNames, C!Named
  <2> QED
    BY <2>5, <2>6, <2>7 DEF e, IsTable
<1>5. CASE op.kind = "RenameColumn"
  <2> DEFINE c == C!Column(t, op.name)
             d == [c EXCEPT !.name = op.to]
             renamed(k) == [k EXCEPT !.reads = IF @ = op.name THEN op.to ELSE @]
  <2>1. c \in t.columns
    BY <1>1, <1>5 DEF C!Accepts
  <2>2. e = [columns |-> (t.columns \ {c}) \cup {d}, checks |-> {renamed(k) : k \in t.checks}]
    BY <1>5 DEF C!Effect
  <2>3. "data" \in DOMAIN c
    BY <2>1 DEF IsTable
  <2>4. "data" \in DOMAIN d /\ d.data = c.data
    <3> HIDE DEF c
    <3> QED
      BY <2>3
  <2>5. ASSUME NEW k \in t.checks PROVE "name" \in DOMAIN renamed(k) /\ renamed(k).name = k.name
    <3>1. "name" \in DOMAIN k
      BY DEF IsTable
    <3> QED
      BY <3>1
  <2> HIDE DEF c, d, e, renamed
  <2>6. /\ DOMAIN e = {"columns", "checks"} /\ e.columns = (t.columns \ {c}) \cup {d}
        /\ e.checks = {renamed(k) : k \in t.checks}
    BY <2>2
  <2>7. (\A x \in e.columns : "data" \in DOMAIN x) /\ DataIn(data, e)
    BY <1>2, <2>1, <2>4, <2>6 DEF e
  <2>8. C!CheckNames(t) \subseteq C!CheckNames(e)
    BY <2>5, <2>6 DEF C!CheckNames, C!Named
  <2>9. \A x \in e.checks : "name" \in DOMAIN x
    BY <2>5, <2>6
  <2> QED
    BY <2>6, <2>7, <2>8, <2>9 DEF e, IsTable
<1>6. CASE op.kind = "AddCheck"
  <2> DEFINE k == C!StoredCheck(op.check)
  <2>1. e = [t EXCEPT !.checks = @ \cup {k}]
    BY <1>6 DEF C!Effect
  <2>2. "name" \in DOMAIN op.check
    BY <1>6 DEF CKeptOp, ColumnKeeping
  <2>3. "name" \in DOMAIN k
    BY <2>2 DEF C!StoredCheck
  <2> HIDE DEF k, e
  <2>4. /\ DOMAIN e = {"columns", "checks"} /\ e.columns = t.columns
        /\ e.checks = t.checks \cup {k}
    BY <2>1 DEF IsTable
  <2>5. IsTable(e) /\ DataIn(data, e)
    BY <2>3, <2>4 DEF IsTable, DataIn
  <2>6. C!CheckNames(t) \subseteq C!CheckNames(e)
    BY <2>4 DEF C!CheckNames, C!Named
  <2> QED
    BY <2>5, <2>6 DEF e
<1>7. CASE op.kind = "DropCheck"
  <2> DEFINE k == C!Check(t, op.name)
  <2>1. k \in t.checks /\ k.name = op.name
    BY <1>7 DEF C!Accepts, C!CheckNames, C!Check, C!Named
  <2>2. e = [t EXCEPT !.checks = @ \ {k}]
    BY <1>7 DEF C!Effect
  <2>3. op.name \in C!CheckNames(new)
    BY <1>7 DEF CKeptOp, ColumnKeeping
  <2> HIDE DEF k, e
  <2>4. /\ DOMAIN e = {"columns", "checks"} /\ e.columns = t.columns
        /\ e.checks = t.checks \ {k}
    BY <2>2 DEF IsTable
  <2>5. IsTable(e) /\ DataIn(data, e)
    BY <2>4 DEF IsTable, DataIn
  <2>6. \A n \in C!CheckNames(t) : n # op.name => n \in C!CheckNames(e)
    BY <2>1, <2>4 DEF C!CheckNames, C!Named
  <2> QED
    BY <2>3, <2>5, <2>6 DEF e
<1> QED
  BY <1>3, <1>4, <1>5, <1>6, <1>7 DEF CKeptOp, ColumnKeeping

CKeeps ==
    /\ \E in \in ColumnPairs : current = in[1] /\ desired = in[2]
    /\ enableDrop \in BOOLEAN
    /\ ~enableDrop =>
           /\ CKeptPlan(desired, ops) /\ IsTable(db)
           /\ DataIn(C!ColumnNames(current), db)
           /\ C!CheckNames(current) \ C!CheckNames(desired) \subseteq C!CheckNames(db)

(* The run starts with no plan, and with what the export has.              *)
LEMMA CInitKeeps ==
    C!Init => CKeeps
<1> SUFFICES ASSUME C!Init PROVE CKeeps
  OBVIOUS
<1>1. /\ \E in \in ColumnPairs : current = in[1] /\ desired = in[2]
      /\ enableDrop \in BOOLEAN /\ ops = <<>> /\ db = C!DatabaseOf(current)
  BY DEF C!Init
<1>2. IsColumnSchema(current)
  BY <1>1, ColumnsAssumption
<1>3. /\ DOMAIN db = {"columns", "checks"} /\ db.checks = current.checks
      /\ db.columns = {C!Filled(c, c.name) : c \in current.columns}
  BY <1>1 DEF C!DatabaseOf
<1>4. IsTable(db)
  <2>1. \A c \in db.columns : "data" \in DOMAIN c
    BY <1>3 DEF C!Filled
  <2>2. \A k \in db.checks : "name" \in DOMAIN k
    BY <1>2, <1>3 DEF IsColumnSchema
  <2> QED
    BY <1>3, <2>1, <2>2 DEF IsTable
<1>5. DataIn(C!ColumnNames(current), db)
  <2> SUFFICES ASSUME NEW c \in current.columns PROVE \E d \in db.columns : d.data = c.name
    BY DEF DataIn, C!ColumnNames
  <2>1. C!Filled(c, c.name).data = c.name
    BY DEF C!Filled
  <2> QED
    BY <1>3, <2>1
<1>6. C!CheckNames(current) = C!CheckNames(db)
  BY <1>3 DEF C!CheckNames, C!Named
<1>7. CKeptPlan(desired, ops)
  BY <1>1, ShortLists DEF CKeptPlan
<1> QED
  BY <1>1, <1>4, <1>5, <1>6, <1>7 DEF CKeeps

(* Planning plans such operations, and applying them keeps data and        *)
(* checks.                                                                 *)
LEMMA CNextKeeps ==
    CKeeps /\ C!Next => CKeeps'
<1> SUFFICES ASSUME CKeeps, C!Next PROVE CKeeps'
  OBVIOUS
<1>1. current' = current /\ desired' = desired /\ enableDrop' = enableDrop
  BY DEF C!Next, C!Plan, C!Fail, C!Apply, C!Reject, C!Finish, C!Terminated, C!vars
<1>2. CASE ops' = C!Diff(desired, current, enableDrop) /\ db' = db
  <2>1. IsColumnSchema(desired)
    BY ColumnsAssumption DEF CKeeps
  <2>2. ~enableDrop => CKeptPlan(desired, ops')
    <3>1. CKeptPlan(desired, C!Diff(desired, current, FALSE))
      BY <2>1, COnlyKept
    <3>2. ~enableDrop => enableDrop = FALSE
      BY DEF CKeeps
    <3> QED
      BY <1>2, <3>1, <3>2
  <2> QED
    BY <1>1, <1>2, <2>2 DEF CKeeps
<1>3. CASE /\ ops # <<>> /\ C!Accepts(db, Head(ops))
           /\ db' = C!Effect(db, Head(ops)) /\ ops' = Tail(ops)
  <2> SUFFICES ASSUME ~enableDrop
               PROVE  /\ CKeptPlan(desired, ops') /\ IsTable(db')
                      /\ DataIn(C!ColumnNames(current), db')
                      /\ C!CheckNames(current) \ C!CheckNames(desired) \subseteq C!CheckNames(db')
    BY <1>1 DEF CKeeps
  <2>1. /\ CKeptPlan(desired, ops) /\ IsTable(db) /\ DataIn(C!ColumnNames(current), db)
        /\ C!CheckNames(current) \ C!CheckNames(desired) \subseteq C!CheckNames(db)
    BY DEF CKeeps
  <2>2. CKeptOp(desired, Head(ops)) /\ CKeptPlan(desired, Tail(ops))
    <3> DEFINE S == EntriesOf(ops)
    <3>1. ops \in Seq(S) /\ \A x \in S : CKeptOp(desired, x)
      BY <2>1, ListIsSeq DEF CKeptPlan
    <3> HIDE DEF S
    <3>2. Head(ops) \in S /\ Tail(ops) \in Seq(S)
      BY <1>3, <3>1, TailList
    <3>3. IsList(Tail(ops)) /\ EntriesOf(Tail(ops)) \subseteq S
      BY <3>2, SeqIsList
    <3> QED
      BY <3>1, <3>2, <3>3 DEF CKeptPlan
  <2> DEFINE t == C!Effect(db, Head(ops))
  <2>3. /\ IsTable(t) /\ DataIn(C!ColumnNames(current), t)
        /\ C!CheckNames(db) \ C!CheckNames(desired) \subseteq C!CheckNames(t)
    BY <1>3, <2>1, <2>2, CKeepsStay
  <2> HIDE DEF t
  <2>4. C!CheckNames(current) \ C!CheckNames(desired) \subseteq C!CheckNames(t)
    BY <2>1, <2>3
  <2> QED
    BY <1>3, <2>2, <2>3, <2>4 DEF t
<1>4. CASE ops' = ops /\ db' = db
  BY <1>1, <1>4 DEF CKeeps
<1> QED
  BY <1>2, <1>3, <1>4
     DEF C!Next, C!Plan, C!Fail, C!Apply, C!Reject, C!Finish, C!Terminated, C!vars

(* With that nothing is lost.                                              *)
LEMMA CKeepsAll ==
    CKeeps => C!NothingLostWithoutDrop
BY DEF CKeeps, C!NothingLostWithoutDrop, DataIn

-------------------------------------------------------------------------------
(* Types, sequences and domains: without enable_drop they are created, get *)
(* labels and values, and a domain constraints.                            *)
ASetting(change) ==
    \/ /\ DOMAIN change = {"set", "to"}
       /\ change.set \in {"default", "not_null"}
    \/ DOMAIN change = {"add"}

AKeptOp(x) ==
    \/ x.kind = "AlterColumn" /\ x.of = "Column"
    \/ x.of \in {"Type", "Sequence", "Domain"} /\ x.kind = A!CreateKind[x.of]
    \/ x.of \in {"Type", "Sequence"} /\ x.kind = A!AlterKind[x.of]
    \/ x.of = "Domain" /\ x.kind = "AlterDomain" /\ ASetting(x.change)

AKeptPlan(s) == IsList(s) /\ \A x \in EntriesOf(s) : AKeptOp(x)

(* Two such plans after another are one.                                   *)
LEMMA AKeptConcatenated ==
    ASSUME NEW s, NEW t, AKeptPlan(s), AKeptPlan(t)
    PROVE  AKeptPlan(s \o t)
<1>1. IsList(s \o t) /\ EntriesOf(s \o t) \subseteq EntriesOf(s) \cup EntriesOf(t)
  BY ConcatenatedList DEF AKeptPlan
<1> QED
  BY <1>1 DEF AKeptPlan

(* The empty plan, and a plan of one such operation.                       *)
LEMMA AKeptShort ==
    AKeptPlan(<<>>) /\ \A x : AKeptOp(x) => AKeptPlan(<<x>>)
BY ShortLists DEF AKeptPlan

(* Many such plans after another are one.                                  *)
LEMMA AKeptFlattened ==
    ASSUME NEW n \in Nat, NEW q, q = [k \in 1..n |-> q[k]], \A k \in 1..n : AKeptPlan(q[k])
    PROVE  AKeptPlan(SE!FlattenSeq(q))
<1>1. \A k \in 1..n : IsList(q[k])
  BY DEF AKeptPlan
<1>2. /\ IsList(SE!FlattenSeq(q))
      /\ \A x \in EntriesOf(SE!FlattenSeq(q)) : \E k \in 1..n : x \in EntriesOf(q[k])
  BY <1>1, FlattenedList
<1> QED
  BY <1>2 DEF AKeptPlan

(* Creating an object, or its new form without enable_drop, keeps what     *)
(* there is.                                                               *)
LEMMA ACreated ==
    ASSUME NEW k \in {"Type", "Sequence", "Domain"}, NEW o
    PROVE  AKeptPlan(<<A!Create(k, o)>>) /\ AKeptPlan(A!Recreated(k, o, FALSE))
<1>1. AKeptOp(A!Create(k, o))
  BY DEF AKeptOp, A!Create
<1>2. AKeptPlan(<<A!Create(k, o)>>) /\ AKeptPlan(<<>>)
  BY <1>1, AKeptShort
<1>3. A!Recreated(k, o, FALSE) = <<>> \o <<A!Create(k, o)>>
  BY DEF A!Recreated
<1> QED
  BY <1>2, <1>3, AKeptConcatenated

(* type_changes without enable_drop.                                       *)
LEMMA AOnlyTypeOps ==
    ASSUME NEW new, NEW old, IsList(new), IsList(old)
    PROVE  AKeptPlan(A!TypeOps(new, old, FALSE))
<1>1. ASSUME NEW change PROVE AKeptOp(A!Alter("Type", change))
  BY DEF AKeptOp, A!Alter
<1>2. CASE A!SE!IsPrefix(old, new)
  <2> DEFINE n == Len(new) - Len(old)
             s == [i \in 1..n |-> A!Alter("Type", [add |-> new[Len(old) + i]])]
  <2>1. n \in Nat
    BY <1>2, ListIsSeq DEF A!SE!IsPrefix
  <2>2. s = [i \in 1..n |-> s[i]] /\ \A i \in 1..n : AKeptOp(s[i])
    BY <1>1
  <2>3. A!TypeOps(new, old, FALSE) = s
    BY <1>2 DEF A!TypeOps
  <2> HIDE DEF s, n
  <2>4. AKeptPlan(s)
    BY <2>1, <2>2, FunctionList DEF AKeptPlan
  <2> QED
    BY <2>3, <2>4
<1>3. CASE ~A!SE!IsPrefix(old, new)
  <2> DEFINE i == CHOOSE d \in DOMAIN old : A!Differences(new, old) = {d}
             s == <<A!Alter("Type", [rename |-> old[i], to |-> new[i]])>>
  <2>1. A!TypeOps(new, old, FALSE) \in {s, A!Recreated("Type", new, FALSE)}
    <3> HIDE DEF s
    <3> QED
      BY <1>3 DEF A!TypeOps, s
  <2>2. AKeptPlan(s)
    BY <1>1, AKeptShort
  <2>3. AKeptPlan(A!Recreated("Type", new, FALSE))
    BY ACreated
  <2> HIDE DEF s
  <2> QED
    BY <2>1, <2>2, <2>3
<1> QED
  BY <1>2, <1>3

(* sequence_changes without enable_drop.                                   *)
LEMMA AOnlySequenceOps ==
    ASSUME NEW new, NEW old
    PROVE  AKeptPlan(A!SequenceOps(new, old, FALSE))
<1> DEFINE changed == {f \in DOMAIN new : new[f] # old[f]}
           a == <<A!Alter("Sequence", A!F!Restrict(new, changed))>>
<1>1. AKeptPlan(a)
  <2>1. AKeptOp(A!Alter("Sequence", A!F!Restrict(new, changed)))
    BY DEF AKeptOp, A!Alter
  <2> QED
    BY <2>1, AKeptShort
<1>2. AKeptPlan(A!Recreated("Sequence", new, FALSE))
  BY ACreated
<1>3. A!SequenceOps(new, old, FALSE) \in {a, A!Recreated("Sequence", new, FALSE)}
  BY DEF A!SequenceOps
<1> HIDE DEF a
<1> QED
  BY <1>1, <1>2, <1>3

(* append_domain_constraint_changes without enable_drop: no constraint is  *)
(* dropped.                                                                *)
LEMMA AOnlyConstraintOps ==
    ASSUME NEW new, NEW old, IsList(new), IsList(old)
    PROVE  AKeptPlan(A!ConstraintOps(new, old, FALSE))
<1> DEFINE Replaced(c) ==
                IF c \in A!CheckNamed(old, c.name) THEN <<>>
                ELSE (IF A!CheckNamed(old, c.name) # {} THEN <<>> ELSE <<>>)
                     \o <<A!Alter("Domain", [add |-> c])>>
           at == {i \in DOMAIN old : A!CheckNamed(new, old[i].name) = {}}
           gone == Picked(old, at)
           n == Len(new)
           q == [i \in 1..n |-> Replaced(new[i])]
<1>1. n \in Nat /\ DOMAIN new = 1..n
  BY ListIsSeq
<1>2. PICK m \in Nat : DOMAIN gone = 1..m
  <2>1. at \subseteq DOMAIN old
    OBVIOUS
  <2> HIDE DEF at
  <2> QED
    BY <2>1, PickedList
<1> DEFINE r == [i \in 1..m |-> <<>>]
<1>3. A!ConstraintOps(new, old, FALSE) = SE!FlattenSeq(q) \o SE!FlattenSeq(r)
  BY <1>1, <1>2, ASorts DEF A!ConstraintOps
<1>4. ASSUME NEW c PROVE AKeptPlan(Replaced(c))
  <2>1. AKeptOp(A!Alter("Domain", [add |-> c]))
    BY DEF AKeptOp, ASetting, A!Alter, A!AlterKind
  <2>2. AKeptPlan(<<A!Alter("Domain", [add |-> c])>>) /\ AKeptPlan(<<>>)
    BY <2>1, AKeptShort
  <2>3. AKeptPlan(<<>> \o <<A!Alter("Domain", [add |-> c])>>)
    BY <2>2, AKeptConcatenated
  <2> QED
    BY <2>2, <2>3
<1>5. AKeptPlan(SE!FlattenSeq(q))
  <2>1. q = [i \in 1..n |-> q[i]] /\ \A i \in 1..n : AKeptPlan(q[i])
    <3> HIDE DEF Replaced
    <3> QED
      BY <1>4
  <2> HIDE DEF q, n
  <2> QED
    BY <1>1, <2>1, AKeptFlattened
<1>6. AKeptPlan(SE!FlattenSeq(r))
  <2>1. r = [i \in 1..m |-> r[i]] /\ \A i \in 1..m : AKeptPlan(r[i])
    BY AKeptShort
  <2> HIDE DEF r
  <2> QED
    BY <2>1, AKeptFlattened
<1> HIDE DEF q, r
<1> QED
  BY <1>3, <1>5, <1>6, AKeptConcatenated

(* domain_changes without enable_drop.                                     *)
LEMMA AOnlyDomainOps ==
    ASSUME NEW new, NEW old, IsList(new.checks), IsList(old.checks)
    PROVE  AKeptPlan(A!DomainOps(new, old, FALSE))
<1> DEFINE Set(f) == IF new[f] # old[f] THEN <<A!Alter("Domain", [set |-> f, to |-> new[f]])>>
                                        ELSE <<>>
           c == A!ConstraintOps(A!Named(new.checks), A!Named(old.checks), FALSE)
<1>1. ASSUME NEW f \in {"default", "not_null"} PROVE AKeptPlan(Set(f))
  <2>1. AKeptOp(A!Alter("Domain", [set |-> f, to |-> new[f]]))
    BY DEF AKeptOp, ASetting, A!Alter, A!AlterKind
  <2> QED
    BY <2>1, AKeptShort
<1>2. ASSUME NEW s, IsList(s) PROVE IsList(A!Named(s))
  <2> DEFINE at == {i \in DOMAIN s : s[i].name # A!None}
  <2>1. at \subseteq DOMAIN s /\ A!Named(s) = Picked(s, at)
    BY ASorts DEF A!Named
  <2> HIDE DEF at
  <2> QED
    BY <1>2, <2>1, PickedList
<1>3. AKeptPlan(c)
  BY <1>2, AOnlyConstraintOps
<1>4. AKeptPlan(A!Recreated("Domain", new, FALSE))
  BY ACreated
<1>5. AKeptPlan(Set("default") \o Set("not_null"))
  <2> HIDE DEF Set
  <2> QED
    BY <1>1, AKeptConcatenated
<1>6. A!DomainOps(new, old, FALSE) \in
         {A!Recreated("Domain", new, FALSE), (Set("default") \o Set("not_null")) \o c}
  <2> HIDE DEF c
  <2> QED
    BY DEF A!DomainOps, c
<1> HIDE DEF Set, c
<1>7. AKeptPlan((Set("default") \o Set("not_null")) \o c)
  BY <1>3, <1>5, AKeptConcatenated
<1> QED
  BY <1>4, <1>6, <1>7

(* Without enable_drop the plan has only such operations.                  *)
LEMMA AOnlyKept ==
    ASSUME NEW new, NEW old, IsAlteredSchema(new), IsAlteredSchema(old),
           "Column" \in DOMAIN new => "Column" \in DOMAIN old
    PROVE  AKeptPlan(A!Diff(new, old, FALSE))
<1> DEFINE c(k) == A!CompareAlterable(k, new, old, FALSE)
<1>1. ASSUME NEW k, k \in DOMAIN new, k \in DOMAIN old => AKeptPlan(A!OpsOf(k, new[k], old[k], FALSE)),
             k \notin DOMAIN old => AKeptPlan(<<A!Create(k, new[k])>>)
      PROVE  AKeptPlan(c(k))
  BY <1>1, AKeptShort DEF A!CompareAlterable
<1>2. ASSUME NEW k, k \notin DOMAIN new PROVE AKeptPlan(c(k))
  BY <1>2, AKeptShort DEF A!CompareAlterable
<1>3. AKeptPlan(c("Column"))
  <2>1. ASSUME "Column" \in DOMAIN new
        PROVE  AKeptPlan(A!OpsOf("Column", new["Column"], old["Column"], FALSE))
    <3> DEFINE op == [kind |-> "AlterColumn", of |-> "Column", table |-> 1, object |-> new["Column"]]
    <3>1. AKeptOp(op)
      BY DEF AKeptOp
    <3>2. A!OpsOf("Column", new["Column"], old["Column"], FALSE) = <<op>>
      BY DEF A!OpsOf, A!AlterKind
    <3> HIDE DEF op
    <3> QED
      BY <3>1, <3>2, AKeptShort
  <2> HIDE DEF c
  <2> QED
    BY <1>1, <1>2, <2>1
<1>4. AKeptPlan(c("Sequence"))
  <2>1. AKeptPlan(A!OpsOf("Sequence", new["Sequence"], old["Sequence"], FALSE))
    BY AOnlySequenceOps DEF A!OpsOf
  <2> HIDE DEF c
  <2> QED
    BY <1>1, <1>2, <2>1, ACreated
<1>5. AKeptPlan(c("Type"))
  <2>1. ASSUME "Type" \in DOMAIN new, "Type" \in DOMAIN old
        PROVE  AKeptPlan(A!OpsOf("Type", new["Type"], old["Type"], FALSE))
    <3>1. IsList(new["Type"]) /\ IsList(old["Type"])
      BY <2>1 DEF IsAlteredSchema
    <3> QED
      BY <3>1, AOnlyTypeOps DEF A!OpsOf
  <2> HIDE DEF c
  <2> QED
    BY <1>1, <1>2, <2>1, ACreated
<1>6. AKeptPlan(c("Domain"))
  <2>1. ASSUME "Domain" \in DOMAIN new, "Domain" \in DOMAIN old
        PROVE  AKeptPlan(A!OpsOf("Domain", new["Domain"], old["Domain"], FALSE))
    <3>1. IsList(new["Domain"].checks) /\ IsList(old["Domain"].checks)
      BY <2>1 DEF IsAlteredSchema
    <3> QED
      BY <3>1, AOnlyDomainOps DEF A!OpsOf
  <2> HIDE DEF c
  <2> QED
    BY <1>1, <1>2, <2>1, ACreated
<1>7. A!Diff(new, old, FALSE) = SortDiffOps(((c("Column") \o c("Sequence")) \o c("Type")) \o c("Domain"))
  BY ASorts DEF A!Diff
<1> HIDE DEF c
<1>8. AKeptPlan(c("Column") \o c("Sequence"))
  BY <1>3, <1>4, AKeptConcatenated
<1>9. AKeptPlan((c("Column") \o c("Sequence")) \o c("Type"))
  BY <1>5, <1>8, AKeptConcatenated
<1>10. AKeptPlan(((c("Column") \o c("Sequence")) \o c("Type")) \o c("Domain"))
  BY <1>6, <1>9, AKeptConcatenated
<1> QED
  BY <1>7, <1>10, SortedList DEF AKeptPlan

(* A database that has a domain has its fields, and its checks are a list. *)
IsAltered(d, had) ==
    /\ DOMAIN d = {"schema", "added", "row"}
    /\ had => /\ "Domain" \in DOMAIN d.schema /\ "checks" \in DOMAIN d.schema["Domain"]
              /\ IsList(d.schema["Domain"].checks)

ChecksOf(schema) == EntriesOf(schema["Domain"].checks)

AStays(d, e, had) ==
    /\ DOMAIN d.schema \subseteq DOMAIN e.schema
    /\ had => ChecksOf(d.schema) \subseteq ChecksOf(e.schema)

(* Such an operation keeps every object and every check of a domain.       *)
LEMMA AKeepsStay ==
    ASSUME NEW d, NEW op, NEW had \in BOOLEAN, IsAltered(d, had), AKeptOp(op), A!Accepts(d, op)
    PROVE  IsAltered(A!Effect(d, op), had) /\ AStays(d, A!Effect(d, op), had)
<1> DEFINE e == A!Effect(d, op)
<1>1. CASE \/ op.kind = "AlterColumn" /\ op.of = "Column"
           \/ op.of \in {"Type", "Sequence", "Domain"} /\ op.kind = A!CreateKind[op.of]
  <2>1. had => op.of # "Domain"
    <3>1. CASE op.kind = "AlterColumn" /\ op.of = "Column"
      BY <3>1
    <3>2. CASE op.of \in {"Type", "Sequence", "Domain"} /\ op.kind = A!CreateKind[op.of]
      <4>1. op.kind # "AlterColumn" /\ op.kind = A!CreateKind[op.of] /\ op.kind # A!DropKind[op.of]
        BY <3>2 DEF A!CreateKind, A!DropKind
      <4>2. op.of \notin DOMAIN d.schema
        BY <4>1 DEF A!Accepts
      <4> QED
        BY <4>2 DEF IsAltered
    <3> QED
      BY <1>1, <3>1, <3>2
  <2>2. e = [d EXCEPT !.schema = [k \in DOMAIN @ \cup {op.of} |->
                                     IF k = op.of THEN op.object ELSE @[k]]]
    <3>1. op.kind # A!DropKind[op.of]
      BY <1>1 DEF A!CreateKind, A!DropKind
    <3> QED
      BY <1>1, <3>1 DEF A!Effect
  <2> HIDE DEF e
  <2>3. /\ DOMAIN e = {"schema", "added", "row"}
        /\ e.schema = [k \in DOMAIN d.schema \cup {op.of} |->
                          IF k = op.of THEN op.object ELSE d.schema[k]]
    BY <2>2 DEF IsAltered
  <2>4. DOMAIN d.schema \subseteq DOMAIN e.schema
    BY <2>3
  <2>5. had => e.schema["Domain"] = d.schema["Domain"]
    BY <2>1, <2>3 DEF IsAltered
  <2> QED
    BY <2>3, <2>4, <2>5 DEF IsAltered, AStays, ChecksOf, e
<1>2. CASE \/ op.of \in {"Type", "Sequence"} /\ op.kind = A!AlterKind[op.of]
           \/ op.of = "Domain" /\ op.kind = "AlterDomain" /\ ASetting(op.change)
  <2> DEFINE s == [d.schema EXCEPT ![op.of] = A!Altered(op.of, @, op.change)]
  <2>1. op.kind # "AlterColumn" /\ op.kind # A!CreateKind[op.of] /\ op.kind # A!DropKind[op.of]
    BY <1>2 DEF A!CreateKind, A!AlterKind, A!DropKind
  <2>2. DOMAIN e = {"schema", "added", "row"} /\ e.schema = s
    BY <2>1 DEF A!Effect
  <2>3. DOMAIN s = DOMAIN d.schema
    OBVIOUS
  <2>4. CASE op.of # "Domain"
    <3>1. s["Domain"] = d.schema["Domain"]
      BY <2>4
    <3> HIDE DEF s, e
    <3> QED
      BY <2>2, <2>3, <3>1 DEF IsAltered, AStays, ChecksOf, e
  <2>5. CASE op.of = "Domain"
    <3> DEFINE o == d.schema["Domain"]
               x == A!AlteredDomain(o, op.change)
    <3>1. had => s["Domain"] = x
      BY <2>5 DEF A!Altered, IsAltered
    <3>2. had => "checks" \in DOMAIN o /\ IsList(o.checks)
      BY DEF IsAltered
    <3> HIDE DEF o
    <3>3. had => "checks" \in DOMAIN x /\ IsList(x.checks) /\ EntriesOf(o.checks) \subseteq EntriesOf(x.checks)
      <4> SUFFICES ASSUME had PROVE "checks" \in DOMAIN x /\ IsList(x.checks)
                                    /\ EntriesOf(o.checks) \subseteq EntriesOf(x.checks)
        OBVIOUS
      <4> HIDE DEF s, e
      <4>1. CASE DOMAIN op.change = {"set", "to"} /\ op.change.set \in {"default", "not_null"}
        <5>1. x = [o EXCEPT ![op.change.set] = op.change.to]
          BY <4>1 DEF A!AlteredDomain
        <5>2. op.change.set # "checks"
          BY <4>1
        <5> HIDE DEF x
        <5>3. DOMAIN x = DOMAIN o /\ x.checks = o.checks
          BY <3>2, <5>1, <5>2
        <5> QED
          BY <3>2, <5>3
      <4>2. CASE DOMAIN op.change = {"add"}
        <5>1. x = [o EXCEPT !.checks = Append(@, op.change.add)]
          BY <4>2 DEF A!AlteredDomain
        <5> HIDE DEF x
        <5>2. DOMAIN x = DOMAIN o /\ x.checks = Append(o.checks, op.change.add)
          BY <3>2, <5>1
        <5>3. IsList(x.checks) /\ EntriesOf(o.checks) \subseteq EntriesOf(x.checks)
          <6> DEFINE c == o.checks
                     new == op.change.add
                     S == EntriesOf(c) \cup {new}
          <6>1. c \in Seq(EntriesOf(c)) /\ Len(c) \in Nat /\ DOMAIN c = 1..Len(c)
            BY <3>2, ListIsSeq
          <6>2. c \in Seq(S) /\ new \in S
            BY <6>1
          <6> HIDE DEF S
          <6>3. Append(c, new) \in Seq(S)
            BY <6>2
          <6>4. \A i \in 1..Len(c) : i \in DOMAIN Append(c, new) /\ Append(c, new)[i] = c[i]
            BY <6>1, <6>2
          <6>5. EntriesOf(c) \subseteq EntriesOf(Append(c, new))
            <7> HIDE DEF c, new
            <7> QED
              BY <6>1, <6>4 DEF EntriesOf
          <6>6. IsList(Append(c, new))
            BY <6>3, SeqIsList
          <6> QED
            BY <5>2, <6>5, <6>6
        <5> QED
          BY <3>2, <5>2, <5>3
      <4> QED
        BY <1>2, <2>5, <4>1, <4>2 DEF ASetting
    <3> HIDE DEF s, e, x
    <3> QED
      BY <2>2, <2>3, <3>1, <3>3 DEF IsAltered, AStays, ChecksOf, e, o
  <2> QED
    BY <2>4, <2>5
<1> QED
  BY <1>1, <1>2 DEF AKeptOp

HadDomain == "Domain" \in DOMAIN current

AKeeps ==
    /\ \E in \in AlteredPairs : current = in[1] /\ desired = in[2]
    /\ enableDrop \in BOOLEAN
    /\ ~enableDrop =>
           /\ AKeptPlan(ops) /\ IsAltered(db, HadDomain)
           /\ DOMAIN current \subseteq DOMAIN db.schema
           /\ HadDomain => ChecksOf(current) \subseteq ChecksOf(db.schema)

(* The run starts with no plan, and with what the export has.              *)
LEMMA AInitKeeps ==
    A!Init => AKeeps
<1> SUFFICES ASSUME A!Init PROVE AKeeps
  OBVIOUS
<1>1. /\ \E in \in AlteredPairs : current = in[1] /\ desired = in[2]
      /\ enableDrop \in BOOLEAN /\ ops = <<>> /\ db = A!DatabaseOf(current)
  BY DEF A!Init
<1>2. IsAlteredSchema(current)
  BY <1>1, AlteredAssumption
<1>3. DOMAIN db = {"schema", "added", "row"} /\ db.schema = current
  BY <1>1 DEF A!DatabaseOf
<1>4. IsAltered(db, HadDomain)
  BY <1>2, <1>3 DEF IsAltered, HadDomain, IsAlteredSchema
<1>5. AKeptPlan(ops)
  BY <1>1, AKeptShort
<1> QED
  BY <1>1, <1>3, <1>4, <1>5 DEF AKeeps

(* Planning plans such operations, and applying them keeps objects and     *)
(* checks.                                                                 *)
LEMMA ANextKeeps ==
    AKeeps /\ A!Next => AKeeps'
<1> SUFFICES ASSUME AKeeps, A!Next PROVE AKeeps'
  OBVIOUS
<1>1. current' = current /\ desired' = desired /\ enableDrop' = enableDrop
  BY DEF A!Next, A!Plan, A!Fail, A!Apply, A!Reject, A!Finish, A!Terminated, A!vars
<1>2. HadDomain' = HadDomain /\ ChecksOf(current)' = ChecksOf(current)
  BY <1>1 DEF HadDomain
<1>3. CASE ops' = A!Diff(desired, current, enableDrop) /\ db' = db
  <2>1. /\ IsAlteredSchema(desired) /\ IsAlteredSchema(current)
        /\ "Column" \in DOMAIN desired => "Column" \in DOMAIN current
    BY AlteredAssumption DEF AKeeps
  <2>2. ~enableDrop => AKeptPlan(ops')
    <3>1. AKeptPlan(A!Diff(desired, current, FALSE))
      BY <2>1, AOnlyKept
    <3>2. ~enableDrop => enableDrop = FALSE
      BY DEF AKeeps
    <3> QED
      BY <1>3, <3>1, <3>2
  <2> QED
    BY <1>1, <1>2, <1>3, <2>2 DEF AKeeps
<1>4. CASE /\ ops # <<>> /\ A!Accepts(db, Head(ops))
           /\ db' = A!Effect(db, Head(ops)) /\ ops' = Tail(ops)
  <2> SUFFICES ASSUME ~enableDrop
               PROVE  /\ AKeptPlan(ops') /\ IsAltered(db', HadDomain)
                      /\ DOMAIN current \subseteq DOMAIN db'.schema
                      /\ HadDomain => ChecksOf(current) \subseteq ChecksOf(db'.schema)
    BY <1>1, <1>2 DEF AKeeps
  <2>1. /\ AKeptPlan(ops) /\ IsAltered(db, HadDomain) /\ DOMAIN current \subseteq DOMAIN db.schema
        /\ HadDomain => ChecksOf(current) \subseteq ChecksOf(db.schema)
    BY DEF AKeeps
  <2>2. AKeptOp(Head(ops)) /\ AKeptPlan(Tail(ops))
    <3> DEFINE S == EntriesOf(ops)
    <3>1. ops \in Seq(S) /\ \A x \in S : AKeptOp(x)
      BY <2>1, ListIsSeq DEF AKeptPlan
    <3> HIDE DEF S
    <3>2. Head(ops) \in S /\ Tail(ops) \in Seq(S)
      BY <1>4, <3>1, TailList
    <3>3. IsList(Tail(ops)) /\ EntriesOf(Tail(ops)) \subseteq S
      BY <3>2, SeqIsList
    <3> QED
      BY <3>1, <3>2, <3>3 DEF AKeptPlan
  <2>3. HadDomain \in BOOLEAN
    BY DEF HadDomain
  <2> DEFINE t == A!Effect(db, Head(ops))
  <2>4. IsAltered(t, HadDomain) /\ AStays(db, t, HadDomain)
    BY <1>4, <2>1, <2>2, <2>3, AKeepsStay
  <2> HIDE DEF t
  <2>5. /\ DOMAIN current \subseteq DOMAIN t.schema
        /\ HadDomain => ChecksOf(current) \subseteq ChecksOf(t.schema)
    BY <2>1, <2>4 DEF AStays
  <2> QED
    BY <1>4, <2>2, <2>4, <2>5 DEF t
<1>5. CASE ops' = ops /\ db' = db
  BY <1>1, <1>2, <1>5 DEF AKeeps
<1> QED
  BY <1>3, <1>4, <1>5
     DEF A!Next, A!Plan, A!Fail, A!Apply, A!Reject, A!Finish, A!Terminated, A!vars

(* With that nothing is lost.                                              *)
LEMMA AKeepsAll ==
    AKeeps => A!NothingLostWithoutDrop
BY DEF AKeeps, A!NothingLostWithoutDrop, HadDomain, ChecksOf, EntriesOf, A!F!Range

-------------------------------------------------------------------------------
(* The strengthening: what is planned and not applied yet keeps what there *)
(* is, and the database is of a shape in which that is so.                 *)
Keeps ==
    /\ part = "qualified tables" => TKeeps
    /\ part = "tables" => UKeeps
    /\ part = "columns" => CKeeps
    /\ part = "objects" => OKeeps
    /\ part = "altered" => AKeeps
    /\ part = "privileges" => VKeeps
    /\ part = "partitions" => PKeeps

(* Every part starts that way.                                             *)
LEMMA InitKeeps ==
    Init => Keeps
<1> SUFFICES ASSUME Init PROVE Keeps
  OBVIOUS
<1>1. CASE part = "qualified tables" /\ T!Init
  BY <1>1, TInitKeeps DEF Keeps
<1>2. CASE part = "tables" /\ U!Init
  BY <1>2, UInitKeeps DEF Keeps
<1>3. CASE part = "columns" /\ C!Init
  BY <1>3, CInitKeeps DEF Keeps
<1>4. CASE part = "objects" /\ O!Init
  BY <1>4, OInitKeeps DEF Keeps
<1>5. CASE part = "altered" /\ A!Init
  BY <1>5, AInitKeeps DEF Keeps
<1>6. CASE part = "privileges" /\ V!Init
  BY <1>6, VInitKeeps DEF Keeps
<1>7. CASE part = "partitions" /\ P!Init
  BY <1>7, PInitKeeps DEF Keeps
<1>8. CASE part \in {"indexes", "report"}
  BY <1>8 DEF Keeps
<1> QED
  BY <1>1, <1>2, <1>3, <1>4, <1>5, <1>6, <1>7, <1>8 DEF Init

(* Every step of every part, also a failure and a stutter, stays so.       *)
LEMMA NextKeeps ==
    Keeps /\ [Next]_vars => Keeps'
<1> SUFFICES ASSUME Keeps, [Next]_vars PROVE Keeps'
  OBVIOUS
<1>1. CASE part = "qualified tables" /\ T!Next /\ UNCHANGED part
  BY <1>1, TNextKeeps DEF Keeps
<1>2. CASE part = "tables" /\ U!Next /\ UNCHANGED part
  BY <1>2, UNextKeeps DEF Keeps
<1>3. CASE part = "columns" /\ C!Next /\ UNCHANGED part
  BY <1>3, CNextKeeps DEF Keeps
<1>4. CASE part = "objects" /\ O!Next /\ UNCHANGED part
  BY <1>4, ONextKeeps DEF Keeps
<1>5. CASE part = "altered" /\ A!Next /\ UNCHANGED part
  BY <1>5, ANextKeeps DEF Keeps
<1>6. CASE part = "privileges" /\ V!Next /\ UNCHANGED part
  BY <1>6, VNextKeeps DEF Keeps
<1>7. CASE part = "partitions" /\ P!Next /\ UNCHANGED part
  BY <1>7, PNextKeeps DEF Keeps
<1>8. CASE part \in {"indexes", "report"} /\ UNCHANGED part
  BY <1>8 DEF Keeps
<1>9. CASE UNCHANGED vars
  <2> DEFINE same == /\ part' = part /\ current' = current /\ desired' = desired
                     /\ enableDrop' = enableDrop /\ ops' = ops /\ db' = db /\ pc' = pc
  <2>1. same
    BY <1>9 DEF vars
  <2>2. T!vars' = T!vars /\ U!vars' = U!vars /\ C!vars' = C!vars /\ O!vars' = O!vars
        /\ A!vars' = A!vars /\ V!vars' = V!vars /\ P!vars' = P!vars
    BY <2>1 DEF T!vars, U!vars, C!vars, O!vars, A!vars, V!vars, P!vars
  <2>3. Keeps' = Keeps
    BY <2>1 DEF Keeps, TKeeps, UKeeps, CKeeps, OKeeps, AKeeps, VKeeps, PKeeps, HadDomain,
                T!Started, U!Started, V!NothingRevokedWithoutDrop,
                O!NothingLostWithoutDrop, P!NothingLostWithoutDrop
  <2> QED
    BY <2>3
<1> QED
  BY <1>1, <1>2, <1>3, <1>4, <1>5, <1>6, <1>7, <1>8, <1>9 DEF Next

(* Without enable_drop nothing is lost, whatever the names and whatever is *)
(* compared, also when the database stops the plan half way.               *)
THEOREM NothingLost == Spec => []NothingLostWithoutDrop
<1>1. Keeps => NothingLostWithoutDrop
  BY TKeepsAll, UKeepsAll, CKeepsAll, AKeepsAll
     DEF Keeps, NothingLostWithoutDrop, OKeeps, VKeeps, PKeeps
<1> QED
  BY <1>1, InitKeeps, NextKeeps, PTL DEF Spec

-------------------------------------------------------------------------------
(* What a plan leaves out for want of enable_drop.                         *)

(* Privileges report as OpOrder does.                                      *)
LEMMA VReports ==
    ASSUME NEW full, NEW emitted, Fewer(emitted, full)
    PROVE  V!AccountFor(full, emitted, V!Diagnostics(full, emitted, FALSE))
<1>1. V!Diagnostics(full, emitted, FALSE) = Skipped(full, emitted)
  BY DEF V!Diagnostics, V!Skipped, Skipped, V!SuppressedKinds, SuppressedKinds,
         V!SE!Contains, SE!Contains, V!SE!RemoveFirst, SE!RemoveFirst,
         V!SE!RemoveAt, SE!RemoveAt, V!SE!SelectInSeq, SE!SelectInSeq, V!SE!Min, SE!Min
<1>2. AccountFor(full, emitted, Skipped(full, emitted))
  BY SkippedAccounts
<1>3. \A s : V!AccountFor(full, emitted, s) <=> AccountFor(full, emitted, s)
  BY DEF V!AccountFor, AccountFor, V!Counts, Counts, V!Cardinality, Cardinality
<1> QED
  BY <1>1, <1>2, <1>3

(* So does ColumnDiff.                                                     *)
LEMMA CReports ==
    ASSUME NEW full, NEW emitted, Fewer(emitted, full)
    PROVE  C!AccountFor(full, emitted, C!Diagnostics(full, emitted, FALSE))
<1>1. C!Diagnostics(full, emitted, FALSE) = Skipped(full, emitted)
  BY DEF C!Diagnostics, C!Skipped, Skipped, C!SuppressedKinds, SuppressedKinds,
         C!SE!Contains, SE!Contains, C!SE!RemoveFirst, SE!RemoveFirst,
         C!SE!RemoveAt, SE!RemoveAt, C!SE!SelectInSeq, SE!SelectInSeq, C!SE!Min, SE!Min
<1>2. AccountFor(full, emitted, Skipped(full, emitted))
  BY SkippedAccounts
<1>3. \A s : C!AccountFor(full, emitted, s) <=> AccountFor(full, emitted, s)
  BY DEF C!AccountFor, AccountFor, C!Counts, Counts, C!Cardinality, Cardinality
<1> QED
  BY <1>1, <1>2, <1>3

(* So does ObjectDiff.                                                     *)
LEMMA OReports ==
    ASSUME NEW full, NEW emitted, Fewer(emitted, full)
    PROVE  O!AccountFor(full, emitted, O!Diagnostics(full, emitted, FALSE))
<1>1. O!Diagnostics(full, emitted, FALSE) = Skipped(full, emitted)
  BY DEF O!Diagnostics, O!Skipped, Skipped, O!SuppressedKinds, SuppressedKinds,
         O!SE!Contains, SE!Contains, O!SE!RemoveFirst, SE!RemoveFirst,
         O!SE!RemoveAt, SE!RemoveAt, O!SE!SelectInSeq, SE!SelectInSeq, O!SE!Min, SE!Min
<1>2. AccountFor(full, emitted, Skipped(full, emitted))
  BY SkippedAccounts
<1>3. \A s : O!AccountFor(full, emitted, s) <=> AccountFor(full, emitted, s)
  BY DEF O!AccountFor, AccountFor, O!Counts, Counts, O!Cardinality, Cardinality
<1> QED
  BY <1>1, <1>2, <1>3

(* So does AlterObjects.                                                   *)
LEMMA AReports ==
    ASSUME NEW full, NEW emitted, Fewer(emitted, full)
    PROVE  A!AccountFor(full, emitted, A!Diagnostics(full, emitted, FALSE))
<1>1. A!Diagnostics(full, emitted, FALSE) = Skipped(full, emitted)
  BY DEF A!Diagnostics, A!Skipped, Skipped, A!SuppressedKinds, SuppressedKinds,
         A!SE!Contains, SE!Contains, A!SE!RemoveFirst, SE!RemoveFirst,
         A!SE!RemoveAt, SE!RemoveAt, A!SE!SelectInSeq, SE!SelectInSeq, A!SE!Min, SE!Min
<1>2. AccountFor(full, emitted, Skipped(full, emitted))
  BY SkippedAccounts
<1>3. \A s : A!AccountFor(full, emitted, s) <=> AccountFor(full, emitted, s)
  BY DEF A!AccountFor, AccountFor, A!Counts, Counts, A!Cardinality, Cardinality
<1> QED
  BY <1>1, <1>2, <1>3

(* One privilege of compare_privileges, and the value of its recursion.    *)
VCompared(acc, p, old, drop) ==
    LET m == V!MatchPrivilege(p, old, acc.matched)
    IN IF m = 0
       THEN [acc EXCEPT !.ops = @ \o V!Change("Grant", p, p.operations, p.option)]
       ELSE [ops |-> acc.ops \o V!PrivilegeChanges(p, old[m], drop),
             matched |-> acc.matched \cup {m}]

VPassing(f, new, old, drop) ==
    f = [i \in 0..Len(new) |-> IF i = 0 THEN [ops |-> <<>>, matched |-> {}]
                               ELSE VCompared(f[i - 1], new[i], old, drop)]

VUnmatched(old, matched, drop) ==
    [i \in DOMAIN old |-> IF i \in matched \/ ~drop THEN <<>>
                          ELSE V!Change("Revoke", old[i], old[i].operations, FALSE)]

(* A privilege is matched with one of the current schema or none.          *)
LEMMA VMatches ==
    ASSUME NEW p, NEW old, NEW matched, IsList(old)
    PROVE  V!MatchPrivilege(p, old, matched) = 0
           \/ V!MatchPrivilege(p, old, matched) \in DOMAIN old
<1> DEFINE m == V!MatchPrivilege(p, old, matched)
           candidates == {j \in DOMAIN old \ matched : old[j].key = p.key}
<1>1. m = IF candidates = {} THEN 0 ELSE Smallest(candidates)
  BY DEF V!MatchPrivilege, V!Smallest, Smallest
<1>2. candidates \subseteq Nat /\ candidates \subseteq DOMAIN old
  BY ListIsSeq
<1> HIDE DEF m, candidates
<1>3. m = 0 \/ m \in DOMAIN old
  BY <1>1, <1>2, SmallestIsLeast
<1> QED
  BY <1>3 DEF m

(* The recursion of compare_privileges has a value, and the plan reads its *)
(* last one.                                                               *)
LEMMA VPassExists ==
    ASSUME NEW new, NEW old, IsList(new), IsList(old), NEW drop \in BOOLEAN
    PROVE  LET pass == CHOOSE f : VPassing(f, new, old, drop)
           IN /\ VPassing(pass, new, old, drop)
              /\ V!ComparePrivileges(new, old, drop) =
                    pass[Len(new)].ops \o SE!FlattenSeq(VUnmatched(old, pass[Len(new)].matched, drop))
<1> DEFINE n == Len(new)
           N == DOMAIN new
           O1 == DOMAIN old
           R == EntriesOf(new) \cup EntriesOf(old)
           all == UNION {r.operations : r \in R}
           names == {r.key : r \in R}
           options == BOOLEAN \cup {r.option : r \in R}
           G == [kind : {"Grant", "Revoke"}, key : names, operations : SUBSET all, option : options]
           Q == Seq(G)
           S == [ops : Q, matched : SUBSET O1]
           none == [ops |-> <<>>, matched |-> {}]
           H == [i \in 1..n |-> [acc \in S |-> VCompared(acc, new[i], old, drop)]]
           pass == CHOOSE f : VPassing(f, new, old, drop)
<1>1. n \in Nat /\ N = 1..n
  BY ListIsSeq
<1>2. <<>> \in Q /\ \A s, t \in Q : s \o t \in Q
  <2> HIDE DEF G
  <2> QED
    OBVIOUS
<1>3. ASSUME NEW kind \in {"Grant", "Revoke"}, NEW p, p.key \in names, NEW s \in SUBSET all,
             NEW option \in options
      PROVE  V!Change(kind, p, s, option) \in Q
  <2>1. [kind |-> kind, key |-> p.key, operations |-> s, option |-> option] \in G
    <3> HIDE DEF all, names, options
    <3> QED
      BY <1>3
  <2> HIDE DEF G
  <2> QED
    BY <2>1 DEF V!Change
<1>4. /\ \A r \in R : r.key \in names /\ r.operations \in SUBSET all /\ r.option \in options
      /\ TRUE \in options /\ FALSE \in options
      /\ (\A i \in N : new[i] \in R) /\ \A i \in O1 : old[i] \in R
  <2>1. (\A i \in N : new[i] \in R) /\ \A i \in O1 : old[i] \in R
    BY ListIsSeq
  <2> HIDE DEF R
  <2>2. TRUE \in options /\ FALSE \in options
    OBVIOUS
  <2>3. \A r \in R : r.key \in names /\ r.operations \in SUBSET all /\ r.option \in options
    OBVIOUS
  <2> HIDE DEF names, options, all
  <2> QED
    BY <2>1, <2>2, <2>3
<1> HIDE DEF R, all, names, options, G, Q
<1>5. ASSUME NEW i \in N, NEW m \in O1 PROVE V!PrivilegeChanges(new[i], old[m], drop) \in Q
  <2> DEFINE p == new[i]
             o == old[m]
             shared == p.operations \cap o.operations
             first == IF drop THEN V!Change("Revoke", o, o.operations \ p.operations, FALSE) ELSE <<>>
             second == V!Change("Grant", p, p.operations \ o.operations, p.option)
             third == IF p.option = o.option THEN <<>>
                      ELSE IF p.option THEN V!Change("Grant", p, shared, TRUE)
                      ELSE IF drop THEN V!Change("Revoke", o, shared, TRUE) ELSE <<>>
  <2>1. p.key \in names /\ o.key \in names /\ p.option \in options
        /\ shared \in SUBSET all /\ p.operations \ o.operations \in SUBSET all
        /\ o.operations \ p.operations \in SUBSET all
    BY <1>4
  <2> HIDE DEF p, o, shared
  <2>2. /\ V!Change("Revoke", o, o.operations \ p.operations, FALSE) \in Q
        /\ V!Change("Grant", p, p.operations \ o.operations, p.option) \in Q
        /\ V!Change("Grant", p, shared, TRUE) \in Q /\ V!Change("Revoke", o, shared, TRUE) \in Q
    BY <1>3, <1>4, <2>1
  <2>3. first \in Q /\ second \in Q /\ third \in Q
    BY <1>2, <2>2, Zenon
  <2>4. V!PrivilegeChanges(p, o, drop) = first \o second \o third
    BY Zenon DEF V!PrivilegeChanges, shared
  <2> HIDE DEF first, second, third
  <2> QED
    BY <1>2, <2>3, <2>4 DEF p, o
<1>6. \A u \in Q : \A v \in SUBSET O1 : [ops |-> u, matched |-> v] \in S
  OBVIOUS
<1>7. none \in S
  BY <1>2, <1>6
<1>8. ASSUME NEW i \in N, NEW acc \in S PROVE VCompared(acc, new[i], old, drop) \in S
  <2> DEFINE m == V!MatchPrivilege(new[i], old, acc.matched)
             g == V!Change("Grant", new[i], new[i].operations, new[i].option)
             c == V!PrivilegeChanges(new[i], old[m], drop)
  <2>1. acc.ops \in Q /\ acc.matched \in SUBSET O1
        /\ acc = [ops |-> acc.ops, matched |-> acc.matched]
    OBVIOUS
  <2>2. g \in Q
    BY <1>3, <1>4
  <2>3. m = 0 \/ m \in O1
    BY VMatches
  <2>4. VCompared(acc, new[i], old, drop) =
            IF m = 0 THEN [ops |-> acc.ops \o g, matched |-> acc.matched]
            ELSE [ops |-> acc.ops \o c, matched |-> acc.matched \cup {m}]
    <3>1. [acc EXCEPT !.ops = @ \o g] = [ops |-> acc.ops \o g, matched |-> acc.matched]
      <4>1. ASSUME NEW a, NEW u, NEW v, a = [ops |-> u, matched |-> v], NEW w
            PROVE  [a EXCEPT !.ops = w] = [ops |-> w, matched |-> v]
        BY <4>1
      <4>2. acc = [ops |-> acc.ops, matched |-> acc.matched]
        BY <2>1
      <4> HIDE DEF S, g
      <4> QED
        BY ONLY <4>1, <4>2
    <3> QED
      BY <3>1, Zenon DEF VCompared
  <2>5. m # 0 => c \in Q
    BY <1>5, <2>3
  <2> HIDE DEF S, O1, m, g, c
  <2> QED
    BY <1>2, <1>6, <2>1, <2>2, <2>3, <2>4, <2>5
<1> HIDE DEF S
<1>9. PICK g \in [0..n -> S] : Recurs(g, none, n, H)
  <2>1. H \in [1..n -> [S -> S]]
    BY <1>1, <1>8
  <2> HIDE DEF H, none
  <2> QED
    BY <1>1, <1>7, <2>1, RecursionSolved
<1>10. VPassing(g, new, old, drop)
  <2>1. ASSUME NEW i \in 0..n, i # 0 PROVE g[i] = VCompared(g[i - 1], new[i], old, drop)
    <3>1. i \in 1..n /\ g[i - 1] \in S
      BY <1>1, <2>1
    <3>2. g[i] = H[i][g[i - 1]]
      BY <1>9, <3>1 DEF Recurs
    <3> QED
      BY <3>1, <3>2
  <2>2. g[0] = none /\ g = [i \in 0..n |-> g[i]]
    BY <1>9 DEF Recurs
  <2> HIDE DEF H
  <2> QED
    BY <2>1, <2>2 DEF VPassing
<1>11. VPassing(pass, new, old, drop)
  BY <1>10
<1>12. V!ComparePrivileges(new, old, drop) =
          pass[n].ops \o SE!FlattenSeq(VUnmatched(old, pass[n].matched, drop))
  BY VSorts DEF V!ComparePrivileges, VPassing, VCompared, VUnmatched
<1> QED
  BY <1>11, <1>12

(* A change is of the kind asked for.                                      *)
LEMMA VChangeOnly ==
    ASSUME NEW kind, NEW p, NEW s, NEW option
    PROVE  Only({kind}, V!Change(kind, p, s, option))
<1>1. \A r : r.kind = kind => Only({kind}, <<r>>)
  <2> DEFINE one == {kind}
  <2>1. \A r : r.kind = kind => r.kind \in one
    OBVIOUS
  <2> HIDE DEF one
  <2>2. \A r : r.kind = kind => Only(one, <<r>>)
    BY <2>1, OnlyShort
  <2> QED
    BY <2>2 DEF one
<1>2. Only({kind}, <<>>)
  BY OnlyShort
<1> QED
  BY <1>1, <1>2 DEF V!Change

(* Of the changes of a privilege only revocations are left out.            *)
LEMMA VFewerChanges ==
    ASSUME NEW p, NEW o
    PROVE  Fewer(V!PrivilegeChanges(p, o, FALSE), V!PrivilegeChanges(p, o, TRUE))
<1> DEFINE shared == p.operations \cap o.operations
           revoke == V!Change("Revoke", o, o.operations \ p.operations, FALSE)
           grant == V!Change("Grant", p, p.operations \ o.operations, p.option)
           more == V!Change("Grant", p, shared, TRUE)
           less == V!Change("Revoke", o, shared, TRUE)
           third(drop) == IF p.option = o.option THEN <<>>
                          ELSE IF p.option THEN more ELSE IF drop THEN less ELSE <<>>
<1>1. V!PrivilegeChanges(p, o, FALSE) = <<>> \o grant \o third(FALSE)
  BY Zenon DEF V!PrivilegeChanges
<1>2. V!PrivilegeChanges(p, o, TRUE) = revoke \o grant \o third(TRUE)
  BY Zenon DEF V!PrivilegeChanges
<1>3. Only(SuppressedKinds, revoke) /\ Only(SuppressedKinds, less)
  <2>1. Only({"Revoke"}, revoke) /\ Only({"Revoke"}, less) /\ "Revoke" \in SuppressedKinds
    BY VChangeOnly DEF SuppressedKinds
  <2> HIDE DEF revoke, less
  <2> QED
    BY <2>1 DEF Only
<1>4. IsList(grant) /\ IsList(more)
  <2>1. Only({"Grant"}, grant) /\ Only({"Grant"}, more)
    BY VChangeOnly
  <2> HIDE DEF grant, more
  <2> QED
    BY <2>1 DEF Only
<1> HIDE DEF revoke, grant, more, less
<1>5. /\ Fewer(<<>>, revoke) /\ Fewer(<<>>, less) /\ Fewer(<<>>, <<>>)
      /\ Fewer(grant, grant) /\ Fewer(more, more)
  BY <1>3, <1>4, FewerNone, FewerItself, ShortLists
<1>6. Fewer(third(FALSE), third(TRUE))
  BY <1>5, Zenon
<1> HIDE DEF third
<1>7. Fewer(<<>> \o grant, revoke \o grant)
  BY <1>5, FewerConcatenated
<1>8. Fewer((<<>> \o grant) \o third(FALSE), (revoke \o grant) \o third(TRUE))
  BY <1>6, <1>7, FewerConcatenated
<1> QED
  BY <1>1, <1>2, <1>8

(* Privileges: without enable_drop the plan lacks revocations only.        *)
LEMMA VFewer ==
    ASSUME NEW new, NEW old, IsList(new), IsList(old)
    PROVE  Fewer(V!Diff(new, old, FALSE), V!Diff(new, old, TRUE))
<1> DEFINE n == Len(new)
           f == CHOOSE g : VPassing(g, new, old, FALSE)
           t == CHOOSE g : VPassing(g, new, old, TRUE)
           Alike(a, b) == /\ a.matched = b.matched /\ Fewer(a.ops, b.ops)
                          /\ a = [ops |-> a.ops, matched |-> a.matched]
                          /\ b = [ops |-> b.ops, matched |-> b.matched]
           alike == {k \in Nat : k <= n => Alike(f[k], t[k])}
<1>1. n \in Nat /\ DOMAIN new = 1..n
  BY ListIsSeq
<1>2. /\ VPassing(f, new, old, FALSE) /\ VPassing(t, new, old, TRUE)
      /\ V!ComparePrivileges(new, old, FALSE) =
            f[n].ops \o SE!FlattenSeq(VUnmatched(old, f[n].matched, FALSE))
      /\ V!ComparePrivileges(new, old, TRUE) =
            t[n].ops \o SE!FlattenSeq(VUnmatched(old, t[n].matched, TRUE))
  BY VPassExists
<1> HIDE DEF f, t
<1>3. f[0] = [ops |-> <<>>, matched |-> {}] /\ t[0] = [ops |-> <<>>, matched |-> {}]
      /\ \A k \in 1..n : /\ f[k] = VCompared(f[k - 1], new[k], old, FALSE)
                         /\ t[k] = VCompared(t[k - 1], new[k], old, TRUE)
  BY <1>1, <1>2 DEF VPassing
<1>4. 0 \in alike
  <2>1. Fewer(<<>>, <<>>)
    BY ShortLists, FewerItself
  <2> QED
    BY <1>3, <2>1
<1>5. ASSUME NEW a, NEW b, NEW p, Alike(a, b)
      PROVE  Alike(VCompared(a, p, old, FALSE), VCompared(b, p, old, TRUE))
  <2> DEFINE m == V!MatchPrivilege(p, old, a.matched)
             g == V!Change("Grant", p, p.operations, p.option)
             c == V!PrivilegeChanges(p, old[m], FALSE)
             d == V!PrivilegeChanges(p, old[m], TRUE)
             x == VCompared(a, p, old, FALSE)
             y == VCompared(b, p, old, TRUE)
  <2>1. V!MatchPrivilege(p, old, b.matched) = m
    BY <1>5
  <2>2. ASSUME NEW r, NEW u, NEW v, r = [ops |-> u, matched |-> v], NEW w
        PROVE  [r EXCEPT !.ops = w] = [ops |-> w, matched |-> v]
    BY <2>2
  <2>3. Fewer(c, d) /\ Fewer(g, g)
    <3>1. IsList(g)
      BY VChangeOnly DEF Only
    <3> HIDE DEF c, d, g
    <3> QED
      BY <3>1, FewerItself, VFewerChanges DEF c, d
  <2>4. CASE m = 0
    <3>1. x = [a EXCEPT !.ops = @ \o g] /\ y = [b EXCEPT !.ops = @ \o g]
      BY <2>1, <2>4, Zenon DEF VCompared
    <3> HIDE DEF g, x, y, m
    <3>2. x = [ops |-> a.ops \o g, matched |-> a.matched]
          /\ y = [ops |-> b.ops \o g, matched |-> b.matched]
      BY <1>5, <2>2, <3>1
    <3>3. Fewer(a.ops \o g, b.ops \o g)
      BY <1>5, <2>3, FewerConcatenated
    <3>4. Alike(x, y)
      BY <1>5, <3>2, <3>3
    <3> HIDE DEF Alike
    <3> QED
      BY <3>4 DEF x, y
  <2>5. CASE m # 0
    <3>1. x = [ops |-> a.ops \o c, matched |-> a.matched \cup {m}]
          /\ y = [ops |-> b.ops \o d, matched |-> b.matched \cup {m}]
      BY <2>1, <2>5, Zenon DEF VCompared
    <3> HIDE DEF c, d, x, y, m
    <3>2. Fewer(a.ops \o c, b.ops \o d)
      BY <1>5, <2>3, FewerConcatenated
    <3>3. Alike(x, y)
      BY <1>5, <3>1, <3>2
    <3> HIDE DEF Alike
    <3> QED
      BY <3>3 DEF x, y
  <2> QED
    BY <2>4, <2>5
<1>6. ASSUME NEW k \in Nat, k \in alike PROVE k + 1 \in alike
  <2>1. CASE k + 1 <= n
    <3>1. k + 1 \in 1..n /\ (k + 1) - 1 = k /\ k <= n
      BY <2>1
    <3>2. Alike(f[k], t[k])
      BY <1>6, <3>1
    <3> HIDE DEF Alike
    <3>3. Alike(VCompared(f[k], new[k + 1], old, FALSE), VCompared(t[k], new[k + 1], old, TRUE))
      BY <1>5, <3>2
    <3>4. f[k + 1] = VCompared(f[k], new[k + 1], old, FALSE)
          /\ t[k + 1] = VCompared(t[k], new[k + 1], old, TRUE)
      BY <1>3, <3>1
    <3>5. Alike(f[k + 1], t[k + 1])
      BY ONLY <3>3, <3>4
    <3> QED
      BY <3>5
  <2>2. CASE ~(k + 1 <= n)
    BY <2>2
  <2> QED
    BY <2>1, <2>2
<1>7. n \in alike
  <2> HIDE DEF alike
  <2> QED
    BY <1>1, <1>4, <1>6, NatSetInduction
<1> DEFINE matched == f[n].matched
           q == VUnmatched(old, matched, FALSE)
           r == VUnmatched(old, matched, TRUE)
<1>8. Fewer(f[n].ops, t[n].ops) /\ t[n].matched = matched
  BY <1>1, <1>7
<1>9. Fewer(SE!FlattenSeq(q), SE!FlattenSeq(r))
  <2>1. Len(old) \in Nat /\ DOMAIN old = 1..Len(old)
    BY ListIsSeq
  <2> HIDE DEF matched
  <2>2. q = [i \in 1..Len(old) |-> q[i]] /\ r = [i \in 1..Len(old) |-> r[i]]
    BY <2>1 DEF VUnmatched
  <2>3. ASSUME NEW i \in 1..Len(old) PROVE Fewer(q[i], r[i])
    <3> DEFINE c == V!Change("Revoke", old[i], old[i].operations, FALSE)
    <3>1. Only({"Revoke"}, c) /\ "Revoke" \in SuppressedKinds
      BY VChangeOnly DEF SuppressedKinds
    <3>2. q[i] = <<>> /\ (r[i] = <<>> \/ r[i] = c)
      BY <2>1 DEF VUnmatched
    <3> HIDE DEF c, q, r
    <3>3. Fewer(<<>>, c) /\ Fewer(<<>>, <<>>)
      BY <3>1, FewerNone, FewerItself, ShortLists DEF Only
    <3> QED
      BY <3>2, <3>3
  <2> HIDE DEF q, r
  <2> QED
    BY <2>1, <2>2, <2>3, FewerFlattened
<1>10. Fewer(V!ComparePrivileges(new, old, FALSE), V!ComparePrivileges(new, old, TRUE))
  <2> HIDE DEF q, r
  <2>1. Fewer(f[n].ops \o SE!FlattenSeq(q), t[n].ops \o SE!FlattenSeq(r))
    BY <1>8, <1>9, FewerConcatenated
  <2> QED
    BY <1>2, <1>8, <2>1 DEF q, r
<1> QED
  BY <1>10, VSorts, FewerSorted DEF V!Diff

(* What goes from a table is dropped.                                      *)
LEMMA CGoneOnly ==
    ASSUME NEW S, IsFiniteSet(S), S \subseteq Nat
    PROVE  LET gone == C!InOrder(S)
           IN /\ Only(SuppressedKinds, [i \in DOMAIN gone |-> C!DropColumn(gone[i])])
              /\ Only(SuppressedKinds, [i \in DOMAIN gone |-> C!DropCheck(gone[i])])
<1> DEFINE gone == C!InOrder(S)
           n == Cardinality(S)
           s == [i \in 1..n |-> C!DropColumn(gone[i])]
           t == [i \in 1..n |-> C!DropCheck(gone[i])]
<1>1. n \in Nat /\ DOMAIN gone = 1..n
  BY CInOrder
<1>2. \A i \in 1..n : s[i].kind \in SuppressedKinds /\ t[i].kind \in SuppressedKinds
  BY DEF C!DropColumn, C!DropCheck, SuppressedKinds
<1>3. s = [i \in 1..n |-> s[i]] /\ t = [i \in 1..n |-> t[i]]
  OBVIOUS
<1>4. Only(SuppressedKinds, s) /\ Only(SuppressedKinds, t)
  <2> HIDE DEF s, t, n
  <2> QED
    BY <1>1, <1>2, <1>3, FunctionList DEF Only
<1> QED
  BY <1>1, <1>4

(* Columns and checks: without enable_drop the plan lacks drops only.      *)
LEMMA CFewer ==
    ASSUME NEW new, NEW old, IsColumnSchema(new), IsColumnSchema(old)
    PROVE  Fewer(C!Diff(new, old, FALSE), C!Diff(new, old, TRUE))
<1> DEFINE names == C!InOrder(C!CheckNames(new))
           n == Cardinality(C!CheckNames(new))
           q == [i \in 1..n |-> C!CheckOps(C!Check(new, names[i]), old)]
           M == C!MatchColumns(new, old)
           S == C!ColumnNames(old) \ (C!ColumnNames(new) \cup M.matched)
           K == C!CheckNames(old) \ C!CheckNames(new)
           s == C!InOrder(S)
           t == C!InOrder(K)
           dropped == [i \in DOMAIN s |-> C!DropColumn(s[i])]
           unchecked == [i \in DOMAIN t |-> C!DropCheck(t[i])]
<1>1. n \in Nat /\ DOMAIN names = 1..n
  BY ColumnNamesAreFinite, CInOrder
<1>2. Only(SuppressedKinds, dropped) /\ Only(SuppressedKinds, unchecked)
  <2>1. IsFiniteSet(S) /\ S \subseteq Nat /\ IsFiniteSet(K) /\ K \subseteq Nat
    <3>1. /\ IsFiniteSet(C!ColumnNames(old)) /\ C!ColumnNames(old) \subseteq Nat
          /\ IsFiniteSet(C!CheckNames(old)) /\ C!CheckNames(old) \subseteq Nat
          /\ S \subseteq C!ColumnNames(old) /\ K \subseteq C!CheckNames(old)
      BY ColumnNamesAreFinite
    <3> HIDE DEF S, K
    <3> QED
      BY <3>1, FS_Subset
  <2> HIDE DEF S, K
  <2> QED
    BY <2>1, CGoneOnly
<1>3. Fewer(C!CompareColumns(new, old, FALSE), C!CompareColumns(new, old, TRUE))
  <2>1. IsList(M.ops)
    BY ColumnsOnlyKeep DEF Only
  <2>2. C!CompareColumns(new, old, FALSE) = M.ops \o <<>>
        /\ C!CompareColumns(new, old, TRUE) = M.ops \o dropped
    BY DEF C!CompareColumns
  <2> HIDE DEF M, dropped
  <2> QED
    BY <1>2, <2>1, <2>2, FewerWithoutEnd
<1>4. Fewer(C!CompareChecks(new, old, FALSE), C!CompareChecks(new, old, TRUE))
  <2>1. IsList(SE!FlattenSeq(q))
    <3>1. q = [i \in 1..n |-> q[i]] /\ \A i \in 1..n : IsList(q[i])
      BY ShortLists DEF C!CheckOps
    <3> HIDE DEF q, n
    <3> QED
      BY <1>1, <3>1, FlattenedList
  <2>2. C!CompareChecks(new, old, FALSE) = SE!FlattenSeq(q) \o <<>>
        /\ C!CompareChecks(new, old, TRUE) = SE!FlattenSeq(q) \o unchecked
    BY <1>1, CSorts DEF C!CompareChecks
  <2> HIDE DEF q, unchecked
  <2> QED
    BY <1>2, <2>1, <2>2, FewerWithoutEnd
<1>5. Fewer(C!CompareColumns(new, old, FALSE) \o C!CompareChecks(new, old, FALSE),
            C!CompareColumns(new, old, TRUE) \o C!CompareChecks(new, old, TRUE))
  BY <1>3, <1>4, FewerConcatenated
<1> QED
  BY <1>5, CSorts, FewerSorted DEF C!Diff

(* The other objects: without enable_drop the plan lacks drops only.       *)
LEMMA OFewer ==
    ASSUME NEW new, NEW old
    PROVE  Fewer(O!Diff(new, old, FALSE), O!Diff(new, old, TRUE))
<1> DEFINE q == [i \in 1..11 |-> O!CompareKind(O!Kinds[i], new, old, FALSE)]
           r == [i \in 1..11 |-> O!CompareKind(O!Kinds[i], new, old, TRUE)]
<1>1. DOMAIN O!Kinds = 1..11
  BY DEF O!Kinds
<1>2. ASSUME NEW i \in 1..11 PROVE Fewer(q[i], r[i])
  <2> DEFINE k == O!Kinds[i]
             c == <<O!Create(k, new[k])>>
             a == <<O!Alter(k, new[k])>>
             d == <<O!Drop(k)>>
  <2>1. O!DropKind[k] \in SuppressedKinds
    BY DEF O!Kinds, O!DropKind, SuppressedKinds
  <2>2. Only(SuppressedKinds, d)
    BY <2>1, OnlyShort DEF O!Drop
  <2>3. /\ Fewer(<<>>, <<>>) /\ Fewer(c, c) /\ Fewer(a, a) /\ Fewer(<<>>, d)
        /\ Fewer(<<>> \o c, d \o c)
    <3>1. IsList(<<>>) /\ IsList(c) /\ IsList(a)
      BY ShortLists
    <3> HIDE DEF c, a, d
    <3> QED
      BY <2>2, <3>1, FewerItself, FewerNone, FewerConcatenated
  <2>4. k \in DOMAIN new /\ k \in DOMAIN old =>
            Fewer(O!Changed(k, new[k], old[k], FALSE), O!Changed(k, new[k], old[k], TRUE))
    <3>1. O!Recreate(k, new[k], FALSE) = <<>> \o c /\ O!Recreate(k, new[k], TRUE) = d \o c
      BY DEF O!Recreate
    <3>2. ASSUME NEW drop \in BOOLEAN
          PROVE  O!Changed(k, new[k], old[k], drop) =
                    IF new[k] = old[k] \/ k = "Schema" THEN <<>>
                    ELSE IF k = "Comment" THEN c
                    ELSE IF k \in O!Alterable /\ new[k].core = old[k].core THEN a
                    ELSE O!Recreate(k, new[k], drop)
      BY DEF O!Changed
    <3> HIDE DEF k, c, a, d
    <3> QED
      BY <2>3, <3>1, <3>2
  <2>5. ASSUME NEW drop \in BOOLEAN
        PROVE  O!CompareKind(k, new, old, drop) =
                 IF k \in O!There(new)
                 THEN IF k \in O!There(old) THEN O!Changed(k, new[k], old[k], drop) ELSE c
                 ELSE IF k \in O!There(old) /\ drop THEN d ELSE <<>>
    BY DEF O!CompareKind
  <2>6. q[i] = O!CompareKind(k, new, old, FALSE) /\ r[i] = O!CompareKind(k, new, old, TRUE)
    OBVIOUS
  <2>7. (k \in O!There(new) => k \in DOMAIN new) /\ (k \in O!There(old) => k \in DOMAIN old)
    BY DEF O!There
  <2> HIDE DEF k, q, r, c, a, d
  <2> QED
    BY <2>3, <2>4, <2>5, <2>6, <2>7
<1>3. O!Compare(new, old, FALSE) = SE!FlattenSeq(q) /\ O!Compare(new, old, TRUE) = SE!FlattenSeq(r)
  BY <1>1, OSorts DEF O!Compare
<1>4. Fewer(SE!FlattenSeq(q), SE!FlattenSeq(r))
  <2>1. q = [i \in 1..11 |-> q[i]] /\ r = [i \in 1..11 |-> r[i]] /\ 11 \in Nat
    OBVIOUS
  <2> HIDE DEF q, r
  <2> QED
    BY <1>2, <2>1, FewerFlattened
<1> QED
  BY <1>3, <1>4, OSorts, FewerSorted DEF O!Diff

AlteredKinds == {"Type", "Sequence", "Domain", "Column"}

(* Objects made anew are dropped only with enable_drop.                    *)
LEMMA AFewerMade ==
    ASSUME NEW k \in AlteredKinds, NEW o
    PROVE  /\ Fewer(A!Recreated(k, o, FALSE), A!Recreated(k, o, TRUE))
           /\ Fewer(<<>>, <<A!Drop(k)>>) /\ Fewer(<<A!Create(k, o)>>, <<A!Create(k, o)>>)
<1> DEFINE c == <<A!Create(k, o)>>
           d == <<A!Drop(k)>>
<1>1. A!Drop(k).kind \in SuppressedKinds
  BY DEF A!Drop, A!DropKind, SuppressedKinds, AlteredKinds
<1>2. Only(SuppressedKinds, d)
  BY <1>1, OnlyShort
<1>3. IsList(c)
  BY ShortLists
<1>4. A!Recreated(k, o, FALSE) = <<>> \o c /\ A!Recreated(k, o, TRUE) = d \o c
  BY DEF A!Recreated
<1> HIDE DEF c, d
<1>5. Fewer(<<>>, d) /\ Fewer(c, c)
  BY <1>2, <1>3, FewerNone, FewerItself
<1> QED
  BY <1>4, <1>5, FewerConcatenated DEF c, d

(* Where every check of the old domain is one of the new, none is dropped. *)
LEMMA ASameConstraints ==
    ASSUME NEW new, NEW old, IsList(new), IsList(old), EntriesOf(old) \subseteq EntriesOf(new),
           \A c, d \in EntriesOf(new) : c.name = d.name => c = d
    PROVE  A!ConstraintOps(new, old, TRUE) = A!ConstraintOps(new, old, FALSE)
<1> DEFINE Replaced(c, drop) ==
                IF c \in A!CheckNamed(old, c.name) THEN <<>>
                ELSE (IF A!CheckNamed(old, c.name) # {}
                      THEN IF drop THEN <<A!Alter("Domain", [drop |-> c.name])>> ELSE <<>>
                      ELSE <<>>)
                     \o <<A!Alter("Domain", [add |-> c])>>
           at == {i \in DOMAIN old : A!CheckNamed(new, old[i].name) = {}}
           gone == Picked(old, at)
           n == Len(new)
           q(drop) == [i \in 1..n |-> Replaced(new[i], drop)]
           r(drop) == [i \in DOMAIN gone |->
                            IF drop THEN <<A!Alter("Domain", [drop |-> gone[i].name])>> ELSE <<>>]
<1>1. n \in Nat /\ DOMAIN new = 1..n /\ \A i \in 1..n : new[i] \in EntriesOf(new)
  BY ListIsSeq
<1>2. \A s, name : A!CheckNamed(s, name) = {c \in EntriesOf(s) : c.name = name}
  BY DEF A!CheckNamed, A!F!Range, EntriesOf
<1>3. ASSUME NEW drop \in BOOLEAN
      PROVE  A!ConstraintOps(new, old, drop) = SE!FlattenSeq(q(drop)) \o SE!FlattenSeq(r(drop))
  BY <1>1, ASorts DEF A!ConstraintOps
<1>4. q(TRUE) = q(FALSE)
  <2>1. ASSUME NEW i \in 1..n PROVE Replaced(new[i], TRUE) = Replaced(new[i], FALSE)
    <3> DEFINE c == new[i]
    <3>1. c \in EntriesOf(new)
      BY <1>1
    <3> HIDE DEF c
    <3>2. c \in A!CheckNamed(old, c.name) \/ A!CheckNamed(old, c.name) = {}
      BY <1>2, <3>1
    <3>3. Replaced(c, TRUE) = Replaced(c, FALSE)
      BY <3>2, Zenon
    <3> QED
      BY <3>3 DEF c
  <2> HIDE DEF Replaced, n
  <2> QED
    BY <2>1
<1>5. r(TRUE) = r(FALSE)
  <2>1. at = {}
    <3>1. ASSUME NEW i \in DOMAIN old PROVE A!CheckNamed(new, old[i].name) # {}
      <4>1. old[i] \in EntriesOf(new)
        BY DEF EntriesOf
      <4> QED
        BY <1>2, <4>1
    <3> QED
      BY <3>1
  <2>2. EntriesOf(gone) = {}
    <3>1. at \subseteq DOMAIN old
      OBVIOUS
    <3> HIDE DEF at
    <3>2. EntriesOf(gone) = {old[i] : i \in at}
      BY <3>1, PickedEntries
    <3> QED
      BY <2>1, <3>2
  <2> HIDE DEF gone
  <2>3. DOMAIN gone = {}
    BY <2>2 DEF EntriesOf
  <2> QED
    BY <2>3
<1> HIDE DEF q, r
<1> QED
  BY <1>3, <1>4, <1>5

(* type_changes: a new type lacks the drop of the old one.                 *)
LEMMA AFewerTypeOps ==
    ASSUME NEW new, NEW old, IsList(new), IsList(old)
    PROVE  Fewer(A!TypeOps(new, old, FALSE), A!TypeOps(new, old, TRUE))
<1>1. IsList(A!TypeOps(new, old, FALSE))
  BY AOnlyTypeOps DEF AKeptPlan
<1>2. \/ A!TypeOps(new, old, FALSE) = A!TypeOps(new, old, TRUE)
      \/ /\ A!TypeOps(new, old, FALSE) = A!Recreated("Type", new, FALSE)
         /\ A!TypeOps(new, old, TRUE) = A!Recreated("Type", new, TRUE)
  BY Zenon DEF A!TypeOps
<1>3. Fewer(A!Recreated("Type", new, FALSE), A!Recreated("Type", new, TRUE))
  BY AFewerMade DEF AlteredKinds
<1> QED
  BY <1>1, <1>2, <1>3, FewerItself

(* sequence_changes: a new sequence lacks the drop of the old one.         *)
LEMMA AFewerSequenceOps ==
    ASSUME NEW new, NEW old
    PROVE  Fewer(A!SequenceOps(new, old, FALSE), A!SequenceOps(new, old, TRUE))
<1>1. IsList(A!SequenceOps(new, old, FALSE))
  BY AOnlySequenceOps DEF AKeptPlan
<1>2. \/ A!SequenceOps(new, old, FALSE) = A!SequenceOps(new, old, TRUE)
      \/ /\ A!SequenceOps(new, old, FALSE) = A!Recreated("Sequence", new, FALSE)
         /\ A!SequenceOps(new, old, TRUE) = A!Recreated("Sequence", new, TRUE)
  BY Zenon DEF A!SequenceOps
<1>3. Fewer(A!Recreated("Sequence", new, FALSE), A!Recreated("Sequence", new, TRUE))
  BY AFewerMade DEF AlteredKinds
<1> QED
  BY <1>1, <1>2, <1>3, FewerItself

(* domain_changes, where no check of the domain goes or changes.           *)
LEMMA AFewerDomainOps ==
    ASSUME NEW new, NEW old, IsList(new.checks), IsList(old.checks),
           EntriesOf(old.checks) \subseteq EntriesOf(new.checks),
           \A c, d \in EntriesOf(new.checks) : c.name = d.name /\ c.name # A!None => c = d
    PROVE  Fewer(A!DomainOps(new, old, FALSE), A!DomainOps(new, old, TRUE))
<1>1. ASSUME NEW s, IsList(s)
      PROVE  /\ IsList(A!Named(s))
             /\ EntriesOf(A!Named(s)) = {c \in EntriesOf(s) : c.name # A!None}
  <2> DEFINE at == {i \in DOMAIN s : s[i].name # A!None}
  <2>1. at \subseteq DOMAIN s /\ A!Named(s) = Picked(s, at)
    BY ASorts DEF A!Named
  <2>2. {s[i] : i \in at} = {c \in EntriesOf(s) : c.name # A!None}
    BY DEF EntriesOf
  <2> HIDE DEF at
  <2>3. IsList(Picked(s, at)) /\ EntriesOf(Picked(s, at)) = {s[i] : i \in at}
    BY <1>1, <2>1, PickedList, PickedEntries
  <2> QED
    BY <2>1, <2>2, <2>3
<1>2. A!ConstraintOps(A!Named(new.checks), A!Named(old.checks), TRUE)
         = A!ConstraintOps(A!Named(new.checks), A!Named(old.checks), FALSE)
  <2>1. /\ IsList(A!Named(new.checks)) /\ IsList(A!Named(old.checks))
        /\ EntriesOf(A!Named(new.checks)) = {c \in EntriesOf(new.checks) : c.name # A!None}
        /\ EntriesOf(A!Named(old.checks)) = {c \in EntriesOf(old.checks) : c.name # A!None}
    BY <1>1
  <2>2. EntriesOf(A!Named(old.checks)) \subseteq EntriesOf(A!Named(new.checks))
    BY <2>1
  <2>3. \A c, d \in EntriesOf(A!Named(new.checks)) : c.name = d.name => c = d
    BY <2>1
  <2> QED
    BY <2>1, <2>2, <2>3, ASameConstraints
<1>3. IsList(A!DomainOps(new, old, FALSE))
  BY AOnlyDomainOps DEF AKeptPlan
<1>4. \/ A!DomainOps(new, old, FALSE) = A!DomainOps(new, old, TRUE)
      \/ /\ A!DomainOps(new, old, FALSE) = A!Recreated("Domain", new, FALSE)
         /\ A!DomainOps(new, old, TRUE) = A!Recreated("Domain", new, TRUE)
  BY <1>2, Zenon DEF A!DomainOps
<1>5. Fewer(A!Recreated("Domain", new, FALSE), A!Recreated("Domain", new, TRUE))
  BY AFewerMade DEF AlteredKinds
<1> QED
  BY <1>3, <1>4, <1>5, FewerItself

(* What can be altered: without enable_drop the plan lacks drops only.     *)
LEMMA AFewer ==
    ASSUME NEW new, NEW old, IsAlteredSchema(new), IsAlteredSchema(old),
           "Domain" \in DOMAIN new \cap DOMAIN old =>
                EntriesOf(old["Domain"].checks) \subseteq EntriesOf(new["Domain"].checks)
    PROVE  Fewer(A!Diff(new, old, FALSE), A!Diff(new, old, TRUE))
<1> DEFINE f(k) == A!CompareAlterable(k, new, old, FALSE)
           t(k) == A!CompareAlterable(k, new, old, TRUE)
<1>1. ASSUME NEW k \in AlteredKinds,
             k \in DOMAIN new /\ k \in DOMAIN old =>
                Fewer(A!OpsOf(k, new[k], old[k], FALSE), A!OpsOf(k, new[k], old[k], TRUE))
      PROVE  Fewer(f(k), t(k))
  <2>1. /\ Fewer(<<>>, <<A!Drop(k)>>) /\ Fewer(<<>>, <<>>)
        /\ Fewer(<<A!Create(k, new[k])>>, <<A!Create(k, new[k])>>)
    BY AFewerMade, ShortLists, FewerItself
  <2> QED
    BY <1>1, <2>1, Zenon DEF A!CompareAlterable
<1>2. Fewer(f("Column"), t("Column"))
  <2> DEFINE c == <<[kind |-> A!AlterKind["Column"], of |-> "Column", table |-> 1, object |-> new["Column"]]>>
  <2>1. A!OpsOf("Column", new["Column"], old["Column"], FALSE) = c
        /\ A!OpsOf("Column", new["Column"], old["Column"], TRUE) = c
    BY DEF A!OpsOf
  <2>2. IsList(c)
    BY ShortLists
  <2> HIDE DEF c, f, t
  <2>3. Fewer(c, c)
    BY <2>2, FewerItself
  <2> QED
    BY <1>1, <2>1, <2>3 DEF AlteredKinds
<1>3. Fewer(f("Sequence"), t("Sequence"))
  <2>1. ASSUME NEW drop
        PROVE  A!OpsOf("Sequence", new["Sequence"], old["Sequence"], drop)
                  = A!SequenceOps(new["Sequence"], old["Sequence"], drop)
    BY DEF A!OpsOf
  <2> HIDE DEF f, t
  <2> QED
    BY <1>1, <2>1, AFewerSequenceOps DEF AlteredKinds
<1>4. Fewer(f("Type"), t("Type"))
  <2>1. ASSUME NEW drop
        PROVE  A!OpsOf("Type", new["Type"], old["Type"], drop)
                  = A!TypeOps(new["Type"], old["Type"], drop)
    BY DEF A!OpsOf
  <2>2. "Type" \in DOMAIN new /\ "Type" \in DOMAIN old =>
            Fewer(A!TypeOps(new["Type"], old["Type"], FALSE), A!TypeOps(new["Type"], old["Type"], TRUE))
    BY AFewerTypeOps DEF IsAlteredSchema
  <2> HIDE DEF f, t
  <2> QED
    BY <1>1, <2>1, <2>2 DEF AlteredKinds
<1>5. Fewer(f("Domain"), t("Domain"))
  <2>1. ASSUME NEW drop
        PROVE  A!OpsOf("Domain", new["Domain"], old["Domain"], drop)
                  = A!DomainOps(new["Domain"], old["Domain"], drop)
    BY DEF A!OpsOf
  <2>2. "Domain" \in DOMAIN new /\ "Domain" \in DOMAIN old =>
            Fewer(A!DomainOps(new["Domain"], old["Domain"], FALSE),
                  A!DomainOps(new["Domain"], old["Domain"], TRUE))
    BY AFewerDomainOps DEF IsAlteredSchema
  <2> HIDE DEF f, t
  <2> QED
    BY <1>1, <2>1, <2>2 DEF AlteredKinds
<1>6. Fewer(((f("Column") \o f("Sequence")) \o f("Type")) \o f("Domain"),
            ((t("Column") \o t("Sequence")) \o t("Type")) \o t("Domain"))
  <2> HIDE DEF f, t
  <2> QED
    BY <1>2, <1>3, <1>4, <1>5, FewerConcatenated
<1> DEFINE x == ((f("Column") \o f("Sequence")) \o f("Type")) \o f("Domain")
           y == ((t("Column") \o t("Sequence")) \o t("Type")) \o t("Domain")
<1>7. A!Diff(new, old, FALSE) = SortDiffOps(x) /\ A!Diff(new, old, TRUE) = SortDiffOps(y)
  BY ASorts DEF A!Diff
<1> HIDE DEF x, y
<1> QED
  BY <1>6, <1>7, FewerSorted DEF x, y

(* What SkippedAreReported needs of the states: the inputs that are        *)
(* compared and, of a plan, what is left of it.                            *)
Compares ==
    /\ part = "columns" => \E in \in ColumnPairs : current = in[1] /\ desired = in[2]
    /\ part = "altered" => \E in \in AlteredPairs : current = in[1] /\ desired = in[2]
    /\ part = "privileges" => \E in \in PrivilegePairs : current = in[1] /\ desired = in[2]
    /\ part = "report" => Fewer(ops, current)

(* Every part starts that way.                                             *)
LEMMA InitCompares ==
    Init => Compares
<1> SUFFICES ASSUME Init PROVE Compares
  OBVIOUS
<1>1. CASE part = "report" /\ ReportInit
  <2>1. IsList(current) /\ ops = current
    BY <1>1, ListsAssumption DEF ReportInit
  <2>2. Fewer(current, current)
    BY <2>1, FewerItself
  <2> QED
    BY <1>1, <2>1, <2>2 DEF Compares
<1>2. CASE part = "columns" /\ C!Init
  BY <1>2 DEF Compares, C!Init
<1>3. CASE part = "altered" /\ A!Init
  BY <1>3 DEF Compares, A!Init
<1>4. CASE part = "privileges" /\ V!Init
  BY <1>4 DEF Compares, V!Init
<1>5. CASE part \in {"qualified tables", "tables", "indexes", "objects", "partitions"}
  BY <1>5 DEF Compares
<1> QED
  BY <1>1, <1>2, <1>3, <1>4, <1>5 DEF Init

(* Leaving out a destructive operation leaves fewer.                       *)
LEMMA LeaveOutLeavesFewer ==
    ASSUME NEW s, NEW t, Fewer(s, t), NEW i \in DOMAIN s, s[i].kind \in SuppressedKinds
    PROVE  Fewer(SubSeq(s, 1, i - 1) \o SubSeq(s, i + 1, Len(s)), t)
<1> DEFINE u == SubSeq(s, 1, i - 1) \o SubSeq(s, i + 1, Len(s))
<1>1. IsList(s) /\ IsList(t)
  BY DEF Fewer
<1>2. IsList(u) /\ \A x : Counts(s, x) = Counts(u, x) + IF s[i] = x THEN 1 ELSE 0
  BY <1>1, CountsWithout, ShortLists
<1> HIDE DEF u
<1>3. \A x : Counts(u, x) \in Nat
  BY <1>2, CountsInList
<1>4. ASSUME NEW x
      PROVE  /\ Counts(u, x) <= Counts(t, x)
             /\ x.kind \notin SuppressedKinds => Counts(u, x) = Counts(t, x)
  <2>1. /\ Counts(s, x) \in Nat /\ Counts(t, x) \in Nat /\ Counts(s, x) <= Counts(t, x)
        /\ x.kind \notin SuppressedKinds => Counts(s, x) = Counts(t, x)
    BY DEF Fewer
  <2>2. x.kind \notin SuppressedKinds => s[i] # x
    OBVIOUS
  <2> QED
    BY <1>2, <1>3, <2>1, <2>2
<1>5. Fewer(u, t)
  BY <1>1, <1>2, <1>3, <1>4 DEF Fewer
<1> QED
  BY <1>5 DEF u

(* No step changes what is compared, and leaving out leaves fewer.         *)
LEMMA NextCompares ==
    Compares /\ [Next]_vars => Compares'
<1> SUFFICES ASSUME Compares, [Next]_vars PROVE Compares'
  OBVIOUS
<1>1. CASE part = "columns" /\ C!Next /\ UNCHANGED part
  BY <1>1 DEF Compares, C!Next, C!Plan, C!Fail, C!Apply, C!Reject, C!Finish, C!Terminated, C!vars
<1>2. CASE part = "altered" /\ A!Next /\ UNCHANGED part
  BY <1>2 DEF Compares, A!Next, A!Plan, A!Fail, A!Apply, A!Reject, A!Finish, A!Terminated, A!vars
<1>3. CASE part = "privileges" /\ V!Next /\ UNCHANGED part
  BY <1>3 DEF Compares, V!Next, V!Plan, V!Fail, V!Apply, V!Reject, V!Finish, V!Terminated, V!vars
<1>4. CASE part = "report" /\ LeaveOut /\ UNCHANGED part
  <2>1. Fewer(ops, current) /\ current' = current
    BY <1>4 DEF Compares, LeaveOut
  <2>2. PICK i \in DOMAIN ops : /\ ops[i].kind \in SuppressedKinds
                                /\ ops' = SubSeq(ops, 1, i - 1) \o SubSeq(ops, i + 1, Len(ops))
    BY <1>4 DEF LeaveOut
  <2>3. Fewer(SubSeq(ops, 1, i - 1) \o SubSeq(ops, i + 1, Len(ops)), current)
    BY <2>1, <2>2, LeaveOutLeavesFewer
  <2>4. Fewer(ops', current')
    BY <2>1, <2>2, <2>3
  <2> QED
    BY <1>4, <2>4 DEF Compares
<1>5. CASE part = "report" /\ NothingToLeaveOut /\ UNCHANGED part
  BY <1>5 DEF Compares, NothingToLeaveOut
<1>6. CASE part \in {"qualified tables", "tables", "indexes", "objects", "partitions"}
           /\ UNCHANGED part
  BY <1>6 DEF Compares
<1>7. CASE UNCHANGED vars
  BY <1>7 DEF Compares, vars
<1> QED
  BY <1>1, <1>2, <1>3, <1>4, <1>5, <1>6, <1>7 DEF Next

(* What a plan leaves out for want of enable_drop is reported as skipped,  *)
(* as often as it is left out and nothing else, whatever is compared.      *)
THEOREM LeftOutIsReported == Spec => []SkippedAreReported
<1>1. Compares => SkippedAreReported
  <2> SUFFICES ASSUME Compares PROVE SkippedAreReported
    OBVIOUS
  <2>1. part = "columns" => C!SkippedAreReported
    <3> SUFFICES ASSUME part = "columns" PROVE C!SkippedAreReported
      OBVIOUS
    <3>1. IsColumnSchema(desired) /\ IsColumnSchema(current)
      BY ColumnsAssumption DEF Compares
    <3> QED
      BY <3>1, CFewer, CReports DEF C!SkippedAreReported
  <2>2. part = "objects" => O!SkippedAreReported
    BY OFewer, OReports DEF O!SkippedAreReported
  <2>3. part = "altered" /\ DomainChecksStay => A!SkippedAreReported
    <3> SUFFICES ASSUME part = "altered", DomainChecksStay PROVE A!SkippedAreReported
      OBVIOUS
    <3>1. IsAlteredSchema(desired) /\ IsAlteredSchema(current)
      BY AlteredAssumption DEF Compares
    <3>2. "Domain" \in DOMAIN desired \cap DOMAIN current =>
            EntriesOf(current["Domain"].checks) \subseteq EntriesOf(desired["Domain"].checks)
      BY DEF DomainChecksStay, F!Range, EntriesOf
    <3> QED
      BY <3>1, <3>2, AFewer, AReports DEF A!SkippedAreReported
  <2>4. part = "privileges" => V!SkippedAreReported
    <3> SUFFICES ASSUME part = "privileges" PROVE V!SkippedAreReported
      OBVIOUS
    <3>1. IsList(desired) /\ IsList(current)
      BY ListsAssumption DEF Compares
    <3> QED
      BY <3>1, VFewer, VReports DEF V!SkippedAreReported
  <2>5. part = "report" => AccountFor(current, ops, Skipped(current, ops))
    BY SkippedAccounts DEF Compares
  <2> QED
    BY <2>1, <2>2, <2>3, <2>4, <2>5 DEF SkippedAreReported
<1> QED
  BY <1>1, InitCompares, NextCompares, PTL DEF Spec

===============================================================================
