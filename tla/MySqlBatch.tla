------------------------------- MODULE MySqlBatch ------------------------------
(***************************************************************************)
(* What the MySQL generator (dialect-mysql/src/generator.rs) makes of a    *)
(* plan: consecutive operations on a table are one batch, the changes of   *)
(* its columns are merged into one CHANGE COLUMN each, which defines the   *)
(* column anew, and come after everything else.  Each statement commits.   *)
(*                                                                         *)
(* The operations come from ColumnDiff, with those of the indexes of the   *)
(* table: the server accepts an index [name, column, types] only on a      *)
(* column of one of the types.                                             *)
(***************************************************************************)
EXTENDS OpOrder
LOCAL F == INSTANCE Functions

CONSTANT Inputs          \* <<current, desired>> pairs

VARIABLES current, desired, enableDrop, ops, db, pc

Core == INSTANCE ColumnDiff

-------------------------------------------------------------------------------
(* generator.rs                                                            *)

(* upsert_column_change and MergedColumnChange.apply: what is not set is   *)
(* {}.                                                                     *)
Merged(batch) ==
    LET altered == SelectSeq(batch, LAMBDA op : op.kind = "AlterColumn")
        Set(op, a) == IF a \in op.changes THEN {op.column[a]} ELSE {}
    IN [i \in DOMAIN altered |->
            [name |-> altered[i].column.name, type |-> Set(altered[i], "type"),
             notNull |-> Set(altered[i], "notNull"), default |-> Set(altered[i], "default")]]

The(S) == CHOOSE x \in S : TRUE

(* Mutant: the default is not written.                                     *)
ChangeColumnPlain(change) ==
    [kind |-> "ChangeColumn", name |-> change.name, type |-> The(change.type),
     notNull |-> TRUE \in change.notNull, default |-> {}]

(* MergedColumnChange.render_change_column: NOT NULL when that is what     *)
(* changes, and DEFAULT when the default changes, DEFAULT NULL when there  *)
(* is none any more: each is printed whatever the other is.                *)
ChangeColumn(change) ==
    [kind |-> "ChangeColumn", name |-> change.name, type |-> The(change.type),
     notNull |-> TRUE \in change.notNull, default |-> change.default]

(* Mutant: the columns are changed first.                                  *)
TableBatchChangesFirst(batch) ==
    LET changes == Merged(batch)
    IN [i \in DOMAIN changes |-> ChangeColumn(changes[i])]
       \o SelectSeq(batch, LAMBDA op : op.kind # "AlterColumn")

(* emit_table_batch: everything else in the order of the plan, then the    *)
(* columns.  Plans hold no operation on primary keys and no change of      *)
(* AUTO_INCREMENT (compare_table), which would come last.                  *)
TableBatch(batch) ==
    LET changes == Merged(batch)
    IN SelectSeq(batch, LAMBDA op : op.kind # "AlterColumn")
       \o [i \in DOMAIN changes |-> ChangeColumn(changes[i])]

(* generate_ddl: all operations are on one table.                          *)
Generate(plan) == TableBatch(plan)

(* render_change_column needs a type.                                      *)
Generates(plan) == \A i \in DOMAIN plan : plan[i].kind = "AlterColumn" => "type" \in plan[i].changes

-------------------------------------------------------------------------------
(* The indexes of the table in the plan: compare_indexes and               *)
(* push_index_update_ops.                                                  *)
IndexOps(new, old, drop) ==
    LET AddIndex(k) == [kind |-> "AddIndex", table |-> 1, index |-> k]
        DropIndex(k) == [kind |-> "DropIndex", table |-> 1, index |-> k]
        gone == IF drop THEN SE!SetToSeq(old.indexes \ new.indexes) ELSE <<>>
        added == SE!SetToSeq(new.indexes \ old.indexes)
    IN [i \in DOMAIN gone |-> DropIndex(gone[i])] \o [i \in DOMAIN added |-> AddIndex(added[i])]

CorePlan(new, old, drop) ==
    SortDiffOps(Core!CompareColumns(new, old, drop) \o Core!CompareChecks(new, old, drop)
                \o IndexOps(new, old, drop))

Comparable(new, old) == Generates(CorePlan(new, old, FALSE))
Diff(new, old, drop) == Generate(CorePlan(new, old, drop))

-------------------------------------------------------------------------------
(* The table in the database: ColumnDiff's, and its indexes.               *)

DatabaseOf(exported) ==
    [columns |-> Core!DatabaseOf(exported).columns, checks |-> exported.checks,
     indexes |-> exported.indexes]
Exported(t) ==
    [columns |-> Core!Exported(t).columns, checks |-> t.checks, indexes |-> t.indexes]

IndexFits(t, k) ==
    k.column \in Core!ColumnNames(t) /\ Core!Column(t, k.column).type \in k.types

(* MySQL takes NULL for no default of a NOT NULL column.                   *)
NotNullDefaultNull(s) == s.notNull /\ s.default = {Core!NoDefault}

Accepts(t, s) ==
    CASE s.kind = "ChangeColumn" ->
            /\ s.name \in Core!ColumnNames(t)
            /\ ~NotNullDefaultNull(s)
            /\ \A k \in t.indexes : k.column = s.name => s.type \in k.types
      [] s.kind = "AddIndex" ->
            IndexFits(t, s.index) /\ \A k \in t.indexes : k.name # s.index.name
      [] s.kind = "DropIndex" -> s.index \in t.indexes
      [] s.kind = "DropColumn" ->
            /\ s.name \in Core!ColumnNames(t)
            /\ \A k \in t.indexes : k.column # s.name
      [] OTHER -> Core!Accepts(t, s)

WithTable(t, u) == [t EXCEPT !.columns = u.columns, !.checks = u.checks]

Effect(t, s) ==
    CASE s.kind = "ChangeColumn" ->
            LET c == Core!Column(t, s.name)
                default == IF s.default = {} THEN Core!NoDefault ELSE Core!Stored(The(s.default))
                new == [c EXCEPT !.type = s.type, !.notNull = s.notNull,
                                 !.default = default, !.identity = FALSE]
            IN [t EXCEPT !.columns = (@ \ {c}) \cup {new}]
      [] s.kind = "AddIndex" -> [t EXCEPT !.indexes = @ \cup {s.index}]
      [] s.kind = "DropIndex" -> [t EXCEPT !.indexes = @ \ {s.index}]
      [] s.kind = "RenameColumn" ->
            [WithTable(t, Core!Effect(t, s)) EXCEPT
                !.indexes = {[k EXCEPT !.column = IF @ = s.name THEN s.to ELSE @] : k \in t.indexes}]
      [] OTHER -> WithTable(t, Core!Effect(t, s))

INSTANCE PlanRun

-------------------------------------------------------------------------------
(* Properties                                                              *)

Matches(t) ==
    /\ \A c \in desired.columns : \E d \in t.columns :
            d.name = c.name /\ Core!Attributes(d) = Core!Attributes(c)
    /\ desired.indexes \subseteq t.indexes

(* An index changes, and enable_drop does not let the old one go.          *)
IndexKept ==
    ~enableDrop /\ \E k \in desired.indexes : \E l \in current.indexes : k.name = l.name /\ k # l

(* A column loses its default and becomes NOT NULL in one.                 *)
DefaultGoesAsNotNullComes ==
    \E c \in desired.columns : \E d \in current.columns :
        /\ d.name \in {c.name} \cup c.from
        /\ c.notNull /\ ~d.notNull
        /\ c.default = Core!NoDefault /\ d.default # Core!NoDefault

(* A plan that runs to its end leaves the table with every desired column, *)
(* attribute by attribute, and every desired index.                        *)
AppliedMatchesDesired == pc = "done" => Matches(db)

(* MySQL commits statement by statement: wherever a run is interrupted,    *)
(* the next one generates a plan for what it left, which the database      *)
(* accepts to the end and which leaves what is desired.  Not when an index *)
(* may not be dropped, nor when a column loses its default and becomes NOT *)
(* NULL: no run gets past these.                                           *)
RerunCompletes ==
    pc = "apply" /\ ~IndexKept /\ ~DefaultGoesAsNotNullComes =>
        LET old == Exported(db)
            plan == Diff(desired, old, enableDrop)
            run[i \in 0..Len(plan)] ==
                IF i = 0 THEN {db}
                ELSE {Effect(t, plan[i]) : t \in {u \in run[i - 1] : Accepts(u, plan[i])}}
        IN /\ Comparable(desired, old)
           /\ \E t \in run[Len(plan)] : Matches(t)

(* The database refuses nothing but a changed index that was not dropped,  *)
(* which cannot be had, and NOT NULL DEFAULT NULL, which the generator     *)
(* prints for a change that could: a column that loses its default and     *)
(* becomes NOT NULL (dialect-mysql/src/generator.rs:859).                  *)
OnlyKnownRefused ==
    pc = "rejected" =>
        \/ Head(ops).kind = "AddIndex" /\ IndexKept
        \/ /\ Head(ops).kind = "ChangeColumn" /\ NotNullDefaultNull(Head(ops))
           /\ DefaultGoesAsNotNullComes
===============================================================================
