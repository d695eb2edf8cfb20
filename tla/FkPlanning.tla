------------------------------ MODULE FkPlanning ------------------------------
(***************************************************************************)
(* Tables that reference each other: the operations the diff engine plans  *)
(* to create and drop them (core/src/diff/compare.rs, core/src/diff/       *)
(* cycle.rs, core/src/ordering.rs), applied one at a time to a database    *)
(* that enforces foreign keys.                                             *)
(*                                                                         *)
(* A table is its place in declaration order.  A schema maps its tables to *)
(* the foreign keys they carry; a key is the table it references and       *)
(* whether the constraint has a name.  Table renames, the search path and  *)
(* everything in a table but its keys are left out.                        *)
(***************************************************************************)
EXTENDS DependencyOrder, FiniteSets

CONSTANTS
    NumTables,      \* tables a schema may have
    Inputs          \* <<current, desired>> pairs of schemas

ASSUME NumTablesAssumption == NumTables \in Nat

Table == 1..NumTables
ForeignKey == [to : Table, named : BOOLEAN]
IsSchema(s) == \E ts \in SUBSET Table : s \in [ts -> SUBSET ForeignKey]

ASSUME InputsAssumption == \A in \in Inputs : IsSchema(in[1]) /\ IsSchema(in[2])

CreateTable(t, keys) == [kind |-> "CreateTable", table |-> t, keys |-> keys]
AddForeignKey(t, k) == [kind |-> "AddForeignKey", table |-> t, keys |-> {k}]
DropForeignKey(t, k) == [kind |-> "DropForeignKey", table |-> t, keys |-> {k}]
DropTable(t) == [kind |-> "DropTable", table |-> t, keys |-> {}]

-------------------------------------------------------------------------------
(* core/src/diff/cycle.rs                                                  *)

Without(schema, tables) == [t \in DOMAIN schema \ tables |-> schema[t]]

(* build_fk_dependency_graph                                               *)
FkGraph(schema) ==
    [t \in DOMAIN schema |-> ({k.to : k \in schema[t]} \cap DOMAIN schema) \ {t}]

(* can_reach, by ever longer paths.                                        *)
CanReach(graph, s, t) ==
    LET within[n \in 0..Cardinality(DOMAIN graph)] ==
            IF n = 0 THEN {s}
            ELSE within[n - 1] \cup UNION {graph[u] : u \in within[n - 1]}
    IN t \in within[Cardinality(DOMAIN graph)]

(* Mutant: only two tables that reference each other count as a cycle.     *)
MutualKeys(schema, t) ==
    {k \in schema[t] : k.to \in FkGraph(schema)[t] /\ t \in FkGraph(schema)[k.to]}

(* The keys of table t whose edge find_cyclic_edges finds on a cycle.      *)
CyclicKeys(schema, t) ==
    {k \in schema[t] : /\ k.to \in FkGraph(schema)[t]
                       /\ CanReach(FkGraph(schema), k.to, t)}

(* The order in which a table declares its keys, which is left open: a     *)
(* fixed one for every set of keys.                                        *)
Declared(keys) ==
    CHOOSE order \in [1..Cardinality(keys) -> keys] :
        \A i, j \in DOMAIN order : order[i] = order[j] => i = j

OnEachKey(t, keys, Op(_, _)) ==
    [i \in DOMAIN Declared(keys) |-> Op(t, Declared(keys)[i])]

(* The lists of the tables, one after another.                             *)
OnEachTable(tables, lists) ==
    LET order == InOrder(tables)
        upto[n \in 0..Len(order)] ==
            IF n = 0 THEN <<>> ELSE upto[n - 1] \o lists[order[n]]
    IN upto[Len(order)]

OfKind(ops, kind) == Picked(ops, {i \in DOMAIN ops : ops[i].kind = kind})

(* The tables to be created, with their keys.                              *)
Creating(ops) ==
    LET creates == OfKind(ops, "CreateTable")
        position(t) == CHOOSE p \in DOMAIN creates : creates[p].table = t
    IN [t \in {creates[p].table : p \in DOMAIN creates} |-> creates[position(t)].keys]

Retained(ops) ==
    [p \in DOMAIN ops |->
        IF ops[p].kind = "CreateTable"
        THEN [ops[p] EXCEPT !.keys = @ \ CyclicKeys(Creating(ops), ops[p].table)]
        ELSE ops[p]]

MovedKeys(ops) ==
    LET created == DOMAIN Creating(ops)
    IN OnEachTable(created,
           [t \in created |-> OnEachKey(t, CyclicKeys(Creating(ops), t), AddForeignKey)])

(* Mutant: the keys taken out of the tables are never added.               *)
ForgetMovedKeys(ops) == Retained(ops)

(* apply_create_cycle_fallback: keys on a cycle of tables to be created    *)
(* become operations of their own at the end of the plan.                  *)
ApplyCreateCycleFallback(ops) == Retained(ops) \o MovedKeys(ops)

(* Mutant: the tables are dropped with every key still in place.           *)
NoDropForeignKeys(dropped) == <<>>

(* drop_fk_ops_for_drop_table_cycles: a key without a name is passed over. *)
DropForeignKeys(dropped) ==
    LET named(t) == {k \in CyclicKeys(dropped, t) : k.named}
    IN OnEachTable(DOMAIN dropped,
           [t \in DOMAIN dropped |-> OnEachKey(t, named(t), DropForeignKey)])

-------------------------------------------------------------------------------
(* core/src/diff/compare.rs                                                *)

(* compare_tables.  compare_table, which looks at a table of both schemas, *)
(* compares columns, checks and partitions: never keys.                    *)
CompareTables(current, desired, enableDrop) ==
    LET created == InOrder(DOMAIN desired \ DOMAIN current)
        dropped == Without(current, DOMAIN desired)
        gone == InOrder(DOMAIN dropped)
    IN [i \in DOMAIN created |-> CreateTable(created[i], desired[created[i]])]
       \o IF enableDrop
          THEN DropForeignKeys(dropped) \o [i \in DOMAIN gone |-> DropTable(gone[i])]
          ELSE <<>>

-------------------------------------------------------------------------------
(* core/src/ordering.rs                                                    *)

(* sort_create_tables                                                      *)
SortCreateTables(creates) ==
    LET deps == [i \in DOMAIN creates |->
                    {j \in DOMAIN creates \ {i} :
                        \E k \in creates[i].keys : k.to = creates[j].table}]
    IN SortByDependency(creates, deps)

(* sort_diff_ops, on the four priority groups modelled here.               *)
SortTableOps(ops) ==
    OfKind(ops, "DropForeignKey") \o OfKind(ops, "DropTable")
    \o SortCreateTables(OfKind(ops, "CreateTable")) \o OfKind(ops, "AddForeignKey")

(* DiffEngine::diff                                                        *)
Diff(current, desired, enableDrop) ==
    SortTableOps(ApplyCreateCycleFallback(
        CompareTables(current, desired, enableDrop)))

-------------------------------------------------------------------------------
(* The database and a run of the plan on it                                *)

VARIABLES
    current,        \* the exported schema
    desired,        \* the desired schema
    enableDrop,     \* DiffConfig.enable_drop
    ops,            \* what is left of the plan
    db,             \* the database
    pc

vars == <<current, desired, enableDrop, ops, db, pc>>

Targets(keys) == {k.to : k \in keys}

(* What a database that enforces foreign keys accepts.                     *)
Accepts(op) ==
    CASE op.kind = "CreateTable" ->
            /\ op.table \notin DOMAIN db
            /\ Targets(op.keys) \subseteq DOMAIN db \cup {op.table}
      [] op.kind = "AddForeignKey" ->
            {op.table} \cup Targets(op.keys) \subseteq DOMAIN db
      [] op.kind = "DropForeignKey" ->
            op.table \in DOMAIN db /\ op.keys \subseteq db[op.table]
      [] op.kind = "DropTable" ->
            /\ op.table \in DOMAIN db
            /\ \A t \in DOMAIN db \ {op.table} : op.table \notin Targets(db[t])

Effect(op) ==
    CASE op.kind = "CreateTable" ->
            [t \in DOMAIN db \cup {op.table} |-> IF t = op.table THEN op.keys ELSE db[t]]
      [] op.kind = "AddForeignKey" -> [db EXCEPT ![op.table] = @ \cup op.keys]
      [] op.kind = "DropForeignKey" -> [db EXCEPT ![op.table] = @ \ op.keys]
      [] op.kind = "DropTable" -> Without(db, {op.table})

Init ==
    /\ \E in \in Inputs : current = in[1] /\ desired = in[2]
    /\ enableDrop \in BOOLEAN
    /\ ops = <<>>
    /\ db = current
    /\ pc = "diff"

Plan ==
    /\ pc = "diff"
    /\ ops' = Diff(current, desired, enableDrop)
    /\ pc' = "apply"
    /\ UNCHANGED <<current, desired, enableDrop, db>>

Apply ==
    /\ pc = "apply"
    /\ ops # <<>>
    /\ Accepts(Head(ops))
    /\ db' = Effect(Head(ops))
    /\ ops' = Tail(ops)
    /\ UNCHANGED <<current, desired, enableDrop, pc>>

(* The plan stops at a statement the database refuses.                     *)
Reject ==
    /\ pc = "apply"
    /\ ops # <<>>
    /\ ~Accepts(Head(ops))
    /\ pc' = "rejected"
    /\ UNCHANGED <<current, desired, enableDrop, ops, db>>

Finish ==
    /\ pc = "apply"
    /\ ops = <<>>
    /\ pc' = "done"
    /\ UNCHANGED <<current, desired, enableDrop, ops, db>>

Terminated == pc \in {"done", "rejected"} /\ UNCHANGED vars

Next == Plan \/ Apply \/ Reject \/ Finish \/ Terminated

Spec == Init /\ [][Next]_vars

-------------------------------------------------------------------------------
(* Properties                                                              *)

(* What the theorems ask of the schemas: every key references a table of   *)
(* its schema, and a table of both has the same keys in both, since no     *)
(* operation is planned for one that differs (compare.rs:159).             *)
ReferencesExist(schema) ==
    \A t \in DOMAIN schema : Targets(schema[t]) \subseteq DOMAIN schema
SameKeys(cur, des) == \A t \in DOMAIN cur \cap DOMAIN des : cur[t] = des[t]

(* Whatever the graph of foreign keys, cycles and references to tables     *)
(* that stay included, the database refuses nothing but the drop of a      *)
(* table that another one still references.                                *)
OnlyDropTableRefused == pc = "rejected" => Head(ops).kind = "DropTable"

(* A plan that ran to its end leaves the desired tables with the desired   *)
(* keys: those taken out of CREATE TABLE are back.  What the desired       *)
(* schema does not name is gone with enable_drop and untouched without.    *)
AppliedMatchesDesired ==
    pc = "done" =>
        db = [t \in DOMAIN desired \cup (IF enableDrop THEN {} ELSE DOMAIN current) |->
                IF t \in DOMAIN desired THEN desired[t] ELSE current[t]]

(* When the first table is dropped no named key is left on a cycle of      *)
(* tables to be dropped: some order of the drops would succeed unless the  *)
(* keys in the way cannot be named.                                        *)
NamedCyclesAreBroken ==
    pc = "apply" /\ ops # <<>> /\ Head(ops).kind = "DropTable" =>
        LET dropped == Without(db, DOMAIN desired)
        IN \A t \in DOMAIN dropped : \A k \in CyclicKeys(dropped, t) : ~k.named
===============================================================================
