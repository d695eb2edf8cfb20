----------------------------- MODULE ViewPlanning -----------------------------
(***************************************************************************)
(* Changing views that read other views: the rebuild set and the orders    *)
(* the diff engine computes (core/src/diff/view_rebuild.rs, compare_views  *)
(* of core/src/diff/compare_remaining.rs, core/src/ordering.rs), the       *)
(* CREATE OR REPLACE shortcut of the PostgreSQL and MySQL generators, and  *)
(* a database that refuses to drop a view another one reads.               *)
(*                                                                         *)
(* A view is a number: its name order, which is the order of the engine's  *)
(* maps, and its place in both schemas.  Tables under the views, names     *)
(* with schemas and materialized views are left out.                       *)
(***************************************************************************)
EXTENDS OpOrder

CONSTANTS
    NumViews,       \* views a schema may have
    Fuses,          \* the generator knows CREATE OR REPLACE VIEW
    Inputs          \* <<current, desired>> pairs of schemas

ASSUME NumViewsAssumption == NumViews \in Nat
ASSUME FusesAssumption == Fuses \in BOOLEAN

View == 1..NumViews

(* What a view reads in a place the token scan recognizes and in one it    *)
(* misses; how many output columns it has; and whether it has neither a column list    *)
(* nor a check option nor a security option.                               *)
Definition == [reads : SUBSET View, missed : SUBSET View, columns : Nat, plain : BOOLEAN]

IsSchema(s) == \E vs \in SUBSET View : s \in [vs -> Definition]

ASSUME InputsAssumption == \A in \in Inputs : IsSchema(in[1]) /\ IsSchema(in[2])

CreateView(v, def) == [kind |-> "CreateView", view |-> v, def |-> def]
DropView(v, def) == [kind |-> "DropView", view |-> v, def |-> def]
ReplaceView(v, def) == [kind |-> "ReplaceView", view |-> v, def |-> def]

-------------------------------------------------------------------------------
(* core/src/diff/view_rebuild.rs                                           *)

(* changed_view_roots                                                      *)
ChangedRoots(current, desired) ==
    {v \in DOMAIN current \cap DOMAIN desired : current[v] # desired[v]}

(* build_dependency_graph: only what extract_relation_references finds.    *)
DependencyGraph(schema) ==
    [v \in DOMAIN schema |-> (schema[v].reads \cap DOMAIN schema) \ {v}]

(* Mutants: only the views that read a changed one themselves are rebuilt; *)
(* what a changed view reads is rebuilt, not what reads it.                *)
DirectDependents(roots, graph) ==
    roots \cup {v \in DOMAIN graph : graph[v] \cap roots # {}}

ClosureOfReads(roots, graph) == roots \cup UNION {graph[v] : v \in roots \cap DOMAIN graph}

(* expand_rebuild_closure, one generation of dependents at a time.         *)
RebuildClosure(roots, graph) ==
    LET after[n \in 0..Cardinality(DOMAIN graph)] ==
            IF n = 0 THEN roots
            ELSE after[n - 1] \cup {v \in DOMAIN graph : graph[v] \cap after[n - 1] # {}}
    IN after[Cardinality(DOMAIN graph)]

(* topological_order                                                       *)
TopologicalOrder(nodes, graph) ==
    LET views == InOrder(nodes)
        deps == [i \in DOMAIN views |->
                    {j \in DOMAIN views \ {i} : views[j] \in graph[views[i]]}]
    IN SortByDependency(views, deps)

DropOrder(current, rebuilt) ==
    SE!Reverse(TopologicalOrder(rebuilt, DependencyGraph(current)))

CreateOrder(desired, rebuilt) ==
    TopologicalOrder(rebuilt \cap DOMAIN desired, DependencyGraph(desired))

-------------------------------------------------------------------------------
(* core/src/diff/compare_remaining.rs: compare_views                       *)

Creates(views, desired) == [i \in DOMAIN views |-> CreateView(views[i], desired[views[i]])]
Drops(views, current) == [i \in DOMAIN views |-> DropView(views[i], current[views[i]])]

(* Mutant: a rebuilt view is recreated only if its own definition changed. *)
CompareViewsRecreatesChanged(current, desired, enableDrop) ==
    LET rebuilt == RebuildClosure(ChangedRoots(current, desired), DependencyGraph(current))
        changed == rebuilt \cap ChangedRoots(current, desired)
    IN (IF enableDrop THEN Drops(DropOrder(current, rebuilt), current) ELSE <<>>)
       \o Creates(CreateOrder(desired, changed), desired)

CompareViews(current, desired, enableDrop) ==
    LET rebuilt == RebuildClosure(ChangedRoots(current, desired), DependencyGraph(current))
        added == (DOMAIN desired \ DOMAIN current) \ rebuilt
        removed == (DOMAIN current \ DOMAIN desired) \ rebuilt
    IN (IF enableDrop THEN Drops(DropOrder(current, rebuilt), current) ELSE <<>>)
       \o Creates(CreateOrder(desired, rebuilt), desired)
       \o Creates(InOrder(added), desired)
       \o (IF enableDrop THEN Drops(InOrder(removed), current) ELSE <<>>)

-------------------------------------------------------------------------------
(* core/src/ordering.rs: DropView operations keep their order, CreateView  *)
(* operations are sorted by the same token scan.                           *)

SortCreateViews(creates) ==
    LET deps == [i \in DOMAIN creates |->
                    {j \in DOMAIN creates \ {i} : creates[j].view \in creates[i].def.reads}]
    IN SortByDependency(creates, deps)

SortViewOps(ops) ==
    OfKinds(ops, {"DropView"}) \o SortCreateViews(OfKinds(ops, {"CreateView"}))

-------------------------------------------------------------------------------
(* generate_ddl: optimize_drop_create_view on adjacent operations          *)

(* Mutant: any CREATE that follows a DROP replaces the dropped view.       *)
FusesAnyPair(drop, create) == drop.kind = "DropView" /\ create.kind = "CreateView"

FusesPair(drop, create) ==
    /\ drop.kind = "DropView"
    /\ create.kind = "CreateView"
    /\ drop.view = create.view
    /\ create.def.plain

(* Drops precede creates, so at most one pair of neighbours qualifies.     *)
Generate(ops) ==
    LET at == {i \in 1..(Len(ops) - 1) : Fuses /\ FusesPair(ops[i], ops[i + 1])}
    IN IF at = {} THEN ops
       ELSE LET i == CHOOSE i \in at : TRUE
            IN SubSeq(ops, 1, i - 1)
               \o <<ReplaceView(ops[i + 1].view, ops[i + 1].def)>>
               \o SubSeq(ops, i + 2, Len(ops))

PlanFor(current, desired, enableDrop) ==
    Generate(SortViewOps(CompareViews(current, desired, enableDrop)))

-------------------------------------------------------------------------------
(* The database and a run of the plan on it                                *)

VARIABLES
    current,        \* the exported views
    desired,        \* the desired views
    enableDrop,     \* DiffConfig.enable_drop
    ops,            \* what is left of the plan
    db,             \* the database
    pc

vars == <<current, desired, enableDrop, ops, db, pc>>

ReadBy(def) == def.reads \cup def.missed

(* What the database accepts.  A replaced view may only gain columns, as   *)
(* PostgreSQL has it.                                                      *)
Accepts(op) ==
    CASE op.kind = "CreateView" ->
            op.view \notin DOMAIN db /\ ReadBy(op.def) \subseteq DOMAIN db
      [] op.kind = "ReplaceView" ->
            /\ ReadBy(op.def) \subseteq DOMAIN db
            /\ op.view \in DOMAIN db => op.def.columns >= db[op.view].columns
      [] op.kind = "DropView" ->
            op.view \in DOMAIN db /\ \A v \in DOMAIN db : op.view \notin ReadBy(db[v])

Effect(op) ==
    IF op.kind = "DropView" THEN [v \in DOMAIN db \ {op.view} |-> db[v]]
    ELSE [v \in DOMAIN db \cup {op.view} |-> IF v = op.view THEN op.def ELSE db[v]]

Init ==
    /\ \E in \in Inputs : current = in[1] /\ desired = in[2]
    /\ enableDrop \in BOOLEAN
    /\ ops = <<>>
    /\ db = current
    /\ pc = "diff"

Plan ==
    /\ pc = "diff"
    /\ ops' = PlanFor(current, desired, enableDrop)
    /\ pc' = "apply"
    /\ UNCHANGED <<current, desired, enableDrop, db>>

Apply ==
    /\ pc = "apply"
    /\ ops # <<>>
    /\ Accepts(Head(ops))
    /\ db' = Effect(Head(ops))
    /\ ops' = Tail(ops)
    /\ UNCHANGED <<current, desired, enableDrop, pc>>

(* The plan stops at a statement the database refuses.                     *)
Reject ==
    /\ pc = "apply"
    /\ ops # <<>>
    /\ ~Accepts(Head(ops))
    /\ pc' = "rejected"
    /\ UNCHANGED <<current, desired, enableDrop, ops, db>>

Finish ==
    /\ pc = "apply"
    /\ ops = <<>>
    /\ pc' = "done"
    /\ UNCHANGED <<current, desired, enableDrop, ops, db>>

Terminated == pc \in {"done", "rejected"} /\ UNCHANGED vars

Next == Plan \/ Apply \/ Reject \/ Finish \/ Terminated

Spec == Init /\ [][Next]_vars

-------------------------------------------------------------------------------
(* Properties                                                              *)

(* No view reads itself, however indirectly, or one that is not there.     *)
Acyclic(schema) ==
    \A vs \in SUBSET DOMAIN schema :
        vs # {} => \E v \in vs : ReadBy(schema[v]) \cap vs = {}
Complete(schema) == \A v \in DOMAIN schema : ReadBy(schema[v]) \subseteq DOMAIN schema

(* Schemas the order can be found for: a database could hold either, the   *)
(* token scan misses no view that comes or changes (view_rebuild.rs:205),  *)
(* and no plain definition loses columns                                   *)
(* (dialect-postgres/src/generator.rs:57).                                 *)
Rebuildable(cur, des) ==
    LET rebuilt == RebuildClosure(ChangedRoots(cur, des), DependencyGraph(cur))
        remade == rebuilt \cup (DOMAIN des \ DOMAIN cur)
    IN /\ Complete(cur) /\ Acyclic(cur) /\ Complete(des) /\ Acyclic(des)
       /\ \A v \in DOMAIN cur : cur[v].missed \cap remade = {}
       /\ \A v \in DOMAIN des : des[v].missed \cap remade = {}
       /\ \A v \in DOMAIN cur \cap DOMAIN des :
             des[v].plain => des[v].columns >= cur[v].columns

(* The rebuild set is closed and well ordered: the database refuses only   *)
(* to drop a removed view that another view still reads, outside the       *)
(* rebuild set, and, without enable_drop, to create a view it already has  *)
(* (DESIGN.md, safety case S11).                                           *)
RebuildAccepted ==
    pc = "rejected" =>
        \/ Head(ops).kind = "DropView" /\ Head(ops).view \notin DOMAIN desired
        \/ Head(ops).kind = "CreateView" /\ ~enableDrop

(* A plan that ran to its end leaves the desired views; views that exist   *)
(* only in the database are gone with enable_drop and untouched without,   *)
(* those that read a changed view included.                                *)
AppliedMatchesDesired ==
    pc = "done" =>
        db = [v \in DOMAIN desired \cup (IF enableDrop THEN {} ELSE DOMAIN current) |->
                IF v \in DOMAIN desired THEN desired[v] ELSE current[v]]

(* An unchanged view is rebuilt only when it reads, directly or not, a     *)
(* changed one: a set of views that reads no changed view and nothing      *)
(* outside itself stays in place throughout the run.                       *)
UnaffectedStayInPlace ==
    LET kept == DOMAIN current \cap DOMAIN desired
        changed == {v \in kept : current[v] # desired[v]}
    IN \A vs \in SUBSET (DOMAIN current \ changed) :
          (\A v \in vs : ReadBy(current[v]) \subseteq vs)
             => \A v \in vs \cap kept : v \in DOMAIN db /\ db[v] = current[v]
===============================================================================
