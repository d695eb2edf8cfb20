-------------------------------- MODULE OpOrder --------------------------------
(***************************************************************************)
(* The operations of a plan: their order (core/src/ordering.rs) and what   *)
(* is left out of a plan without enable_drop (core/src/diff/               *)
(* enable_drop.rs).  An operation is a record with its kind; those on an   *)
(* existing table name it in the field table.  CREATE TABLE and CREATE     *)
(* VIEW are also sorted by dependency: FkPlanning and ViewPlanning.        *)
(***************************************************************************)
EXTENDS DependencyOrder
SE == INSTANCE SequencesExt

(* PriorityGroup and priority_group                                        *)
PriorityGroups == <<
    {"DropPolicy"}, {"DropTrigger"}, {"DropView", "DropMaterializedView"},
    {"DropForeignKey"}, {"DropIndex"}, {"DropTable"}, {"DropSequence"},
    {"DropDomain"}, {"DropType"}, {"DropFunction"}, {"DropSchema"},
    {"DropExtension"}, {"CreateExtension"}, {"CreateSchema"}, {"CreateType"},
    {"AlterType"}, {"CreateDomain"}, {"AlterDomain"}, {"CreateSequence"},
    {"AlterSequence"}, {"CreateTable"},
    {"RenameTable", "RenameColumn", "AlterColumn", "AddColumn", "DropColumn",
     "SetPrimaryKey", "DropPrimaryKey", "AddCheck", "DropCheck", "AddExclusion",
     "DropExclusion", "AddPartition", "DropPartition", "AlterTableOptions"},
    {"AddForeignKey"}, {"CreateView"}, {"CreateMaterializedView"},
    {"AddIndex", "RenameIndex"}, {"CreateTrigger", "CreateFunction"},
    {"CreatePolicy"}, {"SetComment", "DropComment"}, {"Grant", "Revoke"} >>

TableScoped == 22

(* TableSubPriority and table_sub_priority                                 *)
TableSubPriorities == <<
    {"RenameTable"}, {"RenameColumn"}, {"AlterColumn"}, {"AddColumn"},
    {"DropColumn"}, {"SetPrimaryKey", "DropPrimaryKey"},
    {"AddCheck", "DropCheck", "AddExclusion", "DropExclusion"},
    {"AddPartition", "DropPartition"}, {"AlterTableOptions"} >>

(* The operations of some kinds, and those on a table, in their order.     *)
OfKinds(ops, kinds) == Picked(ops, {i \in DOMAIN ops : ops[i].kind \in kinds})
OnTable(ops, t) == Picked(ops, {i \in DOMAIN ops : ops[i].table = t})

(* The tables operations name, in the order of their first operation.      *)
TablesOf(ops) ==
    LET first == {i \in DOMAIN ops : \A j \in 1..(i - 1) : ops[j].table # ops[i].table}
    IN [k \in 1..Cardinality(first) |-> Picked(ops, first)[k].table]

(* The operations on one table, and on all of them, table by table.        *)
BySubPriority(ops) ==
    SE!FlattenSeq([g \in DOMAIN TableSubPriorities |-> OfKinds(ops, TableSubPriorities[g])])

SortTableScoped(ops) ==
    LET tables == TablesOf(ops)
    IN SE!FlattenSeq([i \in DOMAIN tables |-> BySubPriority(OnTable(ops, tables[i]))])

(* Group by group.                                                         *)
SortDiffOps(ops) ==
    SE!FlattenSeq([g \in DOMAIN PriorityGroups |->
        IF g = TableScoped THEN SortTableScoped(OfKinds(ops, PriorityGroups[g]))
                           ELSE OfKinds(ops, PriorityGroups[g])])

-------------------------------------------------------------------------------
(* What a plan leaves out: without enable_drop the engine also makes the   *)
(* plan with it and reports the destructive operations only that plan has. *)

(* Mutant: a kind is missing from the list.                                *)
SuppressedKindsForget == {"DropTable", "DropColumn", "DropIndex", "DropForeignKey", "DropCheck"}

(* SUPPRESSED_OP_KINDS                                                     *)
SuppressedKinds == {
    "DropTable", "DropView", "DropMaterializedView", "DropSequence", "DropTrigger",
    "DropFunction", "DropType", "DropDomain", "DropExtension", "DropSchema", "DropPolicy",
    "DropColumn", "DropIndex", "DropForeignKey", "DropCheck", "DropExclusion",
    "DropPrimaryKey", "DropPartition", "DropComment", "Revoke"}

(* Mutants: an operation is looked for among all that are emitted, or not  *)
(* at all.                                                                 *)
SkippedAll(full, emitted) == SelectSeq(full, LAMBDA op : op.kind \in SuppressedKinds)

SkippedAsSet(full, emitted) ==
    SelectSeq(full, LAMBDA op : op.kind \in SuppressedKinds /\ ~SE!Contains(emitted, op))

(* from_enable_drop: every emitted operation accounts for one of the plan. *)
Skipped(full, emitted) ==
    LET Visit(acc, op) ==
            IF op.kind \notin SuppressedKinds THEN acc
            ELSE IF SE!Contains(acc.emitted, op)
            THEN [acc EXCEPT !.emitted = SE!RemoveFirst(@, op)]
            ELSE [acc EXCEPT !.skipped = Append(@, op)]
        after[i \in 0..Len(full)] ==
            IF i = 0 THEN [emitted |-> emitted, skipped |-> <<>>]
            ELSE Visit(after[i - 1], full[i])
    IN after[Len(full)].skipped

(* diff_with_diagnostics, of the plan with enable_drop and the plan.       *)
Diagnostics(full, emitted, enableDrop) ==
    IF enableDrop THEN <<>> ELSE Skipped(full, emitted)

(* What a plan is made of, with how often.                                 *)
Counts(ops, op) == Cardinality({i \in DOMAIN ops : ops[i] = op})

(* The plan and the report together are the plan with enable_drop.         *)
AccountFor(full, emitted, skipped) ==
    \A i \in DOMAIN (full \o emitted) :
        LET op == (full \o emitted)[i]
        IN Counts(full, op) = Counts(emitted, op) + Counts(skipped, op)
===============================================================================
