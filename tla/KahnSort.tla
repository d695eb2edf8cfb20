------------------------------- MODULE KahnSort -------------------------------
(***************************************************************************)
(* topological_sort of core/src/ordering.rs, which puts CreateTable and    *)
(* CreateView operations in dependency order: Kahn's algorithm over the    *)
(* counters `remaining_dependencies`, with the entries it could not place  *)
(* appended in their original order.                                       *)
(*                                                                         *)
(* An entry is its index in `entries`; a group's entries keep the order of *)
(* the operations, so the code's (original_index, idx) order on `ready` is *)
(* the order of idx.                                                       *)
(***************************************************************************)
EXTENDS DependencyOrder, FiniteSets

CONSTANTS N, Inputs

ASSUME NAssumption == N \in Nat

Entry == 1..N

(* Dependency graphs; the callers leave out an entry's edge to itself.     *)
Graph == {g \in [Entry -> SUBSET Entry] : \A i \in Entry : i \notin g[i]}

ASSUME InputsAssumption == Inputs \subseteq Graph

VARIABLES
    deps,       \* dependencies
    remaining,  \* remaining_dependencies
    ready,
    visited,
    ordered,    \* ordered_indexes
    placed,     \* how many of them the loop itself emitted
    pc

vars == <<deps, remaining, ready, visited, ordered, placed, pc>>

Init ==
    /\ deps \in Inputs
    /\ remaining = [i \in Entry |-> Cardinality(deps[i])]
    /\ ready = {i \in Entry : remaining[i] = 0}
    /\ visited = {}
    /\ ordered = <<>>
    /\ placed = 0
    /\ pc = "loop"

(* reverse_edges[i]                                                        *)
Dependents(i) == {j \in Entry : i \in deps[j]}

(* Mutants: a dependent is released by its first dependency; the counter   *)
(* is compared before it is decremented.                                   *)
ReleasedByAny(i) == {j \in Dependents(i) : remaining[j] >= 1}
ReleasedTooLate(i) == {j \in Dependents(i) : remaining[j] = 0}

(* The dependents whose last dependency is entry i.                        *)
Released(i) == {j \in Dependents(i) : remaining[j] = 1}

Decremented(i) ==
    [j \in Entry |-> IF j \in Dependents(i) /\ remaining[j] # 0
                     THEN remaining[j] - 1 ELSE remaining[j]]

(* Mutant: the last of `ready` is taken.                                   *)
IsLast(i) == i \in ready /\ \A j \in ready : j <= i

(* BTreeSet::pop_first                                                     *)
IsFirst(i) == i \in ready /\ \A j \in ready : i <= j
ReadyAfterPop(i) == ready \ {i}

(* One turn of the loop emits the entry it took ...                        *)
Emit(i) ==
    /\ visited' = visited \cup {i}
    /\ ordered' = Append(ordered, i)
    /\ placed' = placed + 1
    /\ ready' = ReadyAfterPop(i) \cup Released(i)
    /\ remaining' = Decremented(i)

(* ... or passes over it if it has seen it before.                         *)
Skip(i) ==
    /\ ready' = ReadyAfterPop(i)
    /\ UNCHANGED <<remaining, visited, ordered, placed>>

Turn ==
    /\ pc = "loop"
    /\ \E i \in Entry : IsFirst(i) /\ IF i \in visited THEN Skip(i) ELSE Emit(i)
    /\ UNCHANGED <<deps, pc>>

(* Increasing(S) holds the one enumeration of S in original order.         *)
Increasing(S) ==
    {s \in [1..Cardinality(S) -> S] : \A a, b \in DOMAIN s : a < b => s[a] < s[b]}

(* Mutant: what the loop did not reach is not returned.                    *)
ReturnPlacedOnly ==
    /\ pc = "loop"
    /\ ready = {}
    /\ pc' = "done"
    /\ UNCHANGED <<deps, remaining, ready, visited, ordered, placed>>

(* After the loop the unvisited entries are appended in original order;    *)
(* there are none when every entry was emitted.                            *)
Return ==
    /\ pc = "loop"
    /\ ready = {}
    /\ \E rest \in Increasing(Entry \ visited) : ordered' = ordered \o rest
    /\ pc' = "done"
    /\ UNCHANGED <<deps, remaining, ready, visited, placed>>

Terminated == pc = "done" /\ UNCHANGED vars

Next == Turn \/ Return \/ Terminated

Spec == Init /\ [][Next]_vars

-------------------------------------------------------------------------------
(* Properties                                                              *)

Before(q) == {ordered[r] : r \in 1..(q - 1)}

TypeOK ==
    /\ deps \in Inputs
    /\ remaining \in [Entry -> Nat]
    /\ ready \subseteq Entry
    /\ visited \subseteq Entry
    /\ ordered \in Seq(Entry)
    /\ placed \in Nat
    /\ pc \in {"loop", "done"}

(* Whatever the loop emits comes after everything it depends on: a table   *)
(* after the tables its foreign keys name, a view after what it reads.     *)
DependenciesFirst ==
    \A q \in 1..placed : deps[ordered[q]] \subseteq Before(q)

(* No operation is lost or doubled by the sort, on any graph.              *)
EveryEntryOnce ==
    pc = "done" => /\ Len(ordered) = N
                   /\ \A i \in Entry : \E q \in 1..N : ordered[q] = i

(* What makes the counters work: remaining[i] counts the dependencies of i *)
(* not yet visited, `ready` holds exactly the unvisited entries that wait  *)
(* for nothing, what was visited was emitted, and the rest is at the end.  *)
IInv ==
    /\ TypeOK
    /\ \A i \in Entry : remaining[i] = Cardinality(deps[i] \ visited)
    /\ \A i \in visited : deps[i] \subseteq visited
    /\ ready = {i \in Entry \ visited : deps[i] \subseteq visited}
    /\ placed <= Len(ordered)
    /\ visited = {ordered[q] : q \in 1..placed}
    /\ \A q, r \in 1..placed : ordered[q] = ordered[r] => q = r
    /\ pc = "loop" => placed = Len(ordered)
    /\ pc = "done" =>
          /\ ready = {}
          /\ Entry \ visited = {ordered[q] : q \in (placed + 1)..Len(ordered)}
    /\ DependenciesFirst
    /\ EveryEntryOnce

(* An entry gives up its place to the original order only if it waits for  *)
(* another such entry: without a cycle the order is a dependency order.    *)
OnlyCyclesAreLeft ==
    pc = "done" =>
        \A q \in (placed + 1)..Len(ordered) :
            \E r \in (placed + 1)..Len(ordered) : ordered[r] \in deps[ordered[q]]

(* The counters agree with the set definition of readiness, ties included. *)
ComputesTopologicalSort ==
    pc = "done" => ordered = TopologicalSort(deps)
===============================================================================
