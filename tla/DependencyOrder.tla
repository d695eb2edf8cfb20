---------------------------- MODULE DependencyOrder ----------------------------
(***************************************************************************)
(* Dependency order inside a priority group: what topological_sort in      *)
(* core/src/ordering.rs returns, as a function of its arguments.           *)
(*                                                                         *)
(* Entries are numbered by their original index; deps[i] is the set of     *)
(* entries that must come before entry i.  KahnSort models the loop.       *)
(***************************************************************************)
EXTENDS Naturals, Sequences, FiniteSets

(* Entries outside `done` all of whose dependencies are in it.             *)
ReadyEntries(deps, done) == {i \in DOMAIN deps \ done : deps[i] \subseteq done}

EntriesOf(s) == {s[q] : q \in DOMAIN s}

IsList(s) == s \in Seq(EntriesOf(s))

Smallest(S) == CHOOSE i \in S : \A j \in S : i <= j

(* The elements of S by size: the one at r has r elements up to it.        *)
InOrder(S) ==
    [r \in 1..Cardinality(S) |->
        CHOOSE i \in S : Cardinality({j \in S : j <= i}) = r]

(* The items at the given positions, in the order they stand in.           *)
Picked(s, at) == [r \in 1..Cardinality(at) |-> s[InOrder(at)[r]]]

(* One turn of the loop takes the smallest ready entry, if there is one.   *)
EmitNext(deps, s) ==
    LET ready == ReadyEntries(deps, EntriesOf(s))
    IN IF ready = {} THEN s ELSE Append(s, Smallest(ready))

(* What the loop has emitted after k turns.                                *)
EmittedAfter(deps) ==
    LET after[k \in 0..Len(deps)] ==
            IF k = 0 THEN <<>> ELSE EmitNext(deps, after[k - 1])
    IN after

Emitted(deps) == EmittedAfter(deps)[Len(deps)]

(* Entries never ready, on a cycle or behind one, follow in their order.   *)
TopologicalSort(deps) ==
    Emitted(deps) \o InOrder(DOMAIN deps \ EntriesOf(Emitted(deps)))

(* Items in dependency order, ties in the order they are given in.         *)
SortByDependency(items, deps) ==
    [i \in DOMAIN items |-> items[TopologicalSort(deps)[i]]]
===============================================================================
