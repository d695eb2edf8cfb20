------------------------------- MODULE ObjectDiff -------------------------------
(***************************************************************************)
(* Everything that is no table, index or view: what                        *)
(* core/src/diff/compare_remaining.rs plans for it, the order              *)
(* core/src/ordering.rs puts the operations in, and the plan on a database *)
(* that refuses to drop what is used and to create what uses something     *)
(* that is not there.  Tables take part as what the others use.            *)
(*                                                                         *)
(* A schema has at most one object of a kind.  It maps the kinds it has to *)
(* [core, detail, uses]: the part of the definition that cannot be altered *)
(* in place, the part that can, and the kinds of the objects it needs.  A  *)
(* comment whose core is NoText says that there is none.                   *)
(***************************************************************************)
EXTENDS OpOrder
F == INSTANCE Functions

CONSTANT Inputs          \* <<current, desired>> pairs

(* In the order compare_objects and compare_remaining_objects visit them.  *)
Kinds == <<"Table", "MaterializedView", "Sequence", "Trigger", "Function", "Type",
           "Domain", "Extension", "Schema", "Comment", "Policy">>

(* Kinds altered in place; AlterObjects has what their changes are.        *)
Alterable == {"Table", "Sequence", "Type", "Domain"}

CreateKind == [
    Table |-> "CreateTable", MaterializedView |-> "CreateMaterializedView",
    Sequence |-> "CreateSequence", Trigger |-> "CreateTrigger", Function |-> "CreateFunction",
    Type |-> "CreateType", Domain |-> "CreateDomain", Extension |-> "CreateExtension",
    Schema |-> "CreateSchema", Comment |-> "SetComment", Policy |-> "CreatePolicy"]
AlterKind == [Table |-> "AlterColumn", Sequence |-> "AlterSequence", Type |-> "AlterType",
              Domain |-> "AlterDomain"]
DropKind == [
    Table |-> "DropTable", MaterializedView |-> "DropMaterializedView",
    Sequence |-> "DropSequence", Trigger |-> "DropTrigger", Function |-> "DropFunction",
    Type |-> "DropType", Domain |-> "DropDomain", Extension |-> "DropExtension",
    Schema |-> "DropSchema", Comment |-> "DropComment", Policy |-> "DropPolicy"]

Create(k, o) == [kind |-> CreateKind[k], of |-> k, object |-> o]
Alter(k, o) == [kind |-> AlterKind[k], of |-> k, object |-> o, table |-> 1]
Drop(k) == [kind |-> DropKind[k], of |-> k]

-------------------------------------------------------------------------------
(* compare_remaining.rs                                                    *)

NoText == "no text"
There(s) == {k \in DOMAIN s : k = "Comment" => s[k].core # NoText}

(* An object that cannot be altered is dropped and created; without        *)
(* enable_drop only the creation is planned.                               *)
Recreate(k, new, enableDrop) ==
    (IF enableDrop THEN <<Drop(k)>> ELSE <<>>) \o <<Create(k, new)>>

(* Mutants: what can be altered is not compared; an object is never found   *)
(* equal to its old form.                                                  *)
ChangedInCoreOnly(k, new, old, enableDrop) ==
    IF new.core = old.core THEN <<>> ELSE Recreate(k, new, enableDrop)

ChangedAlways(k, new, old, enableDrop) ==
    IF k = "Schema" THEN <<>>
    ELSE IF k \in Alterable /\ new.core = old.core THEN <<Alter(k, new)>>
    ELSE Recreate(k, new, enableDrop)

(* compare_materialized_views, compare_triggers, compare_functions,        *)
(* compare_extensions, compare_policies and, for what can be altered,      *)
(* compare_sequences, compare_types, compare_domains: an object of both    *)
(* schemas.  Schemas are never changed; a comment is set again.            *)
Changed(k, new, old, enableDrop) ==
    IF new = old \/ k = "Schema" THEN <<>>
    ELSE IF k = "Comment" THEN <<Create(k, new)>>
    ELSE IF k \in Alterable /\ new.core = old.core THEN <<Alter(k, new)>>
    ELSE Recreate(k, new, enableDrop)

(* Mutant: comments of the current schema alone are dropped, whatever      *)
(* enable_drop says.                                                       *)
CompareKindDropsComments(k, new, old, enableDrop) ==
    IF k \in There(new)
    THEN IF k \in There(old) THEN Changed(k, new[k], old[k], enableDrop)
                             ELSE <<Create(k, new[k])>>
    ELSE IF k \in There(old) /\ (enableDrop \/ k = "Comment") THEN <<Drop(k)>> ELSE <<>>

(* compare_comments goes through its cases by what is there of the texts.  *)
CompareKind(k, new, old, enableDrop) ==
    IF k \in There(new)
    THEN IF k \in There(old) THEN Changed(k, new[k], old[k], enableDrop)
                             ELSE <<Create(k, new[k])>>
    ELSE IF k \in There(old) /\ enableDrop THEN <<Drop(k)>> ELSE <<>>

(* compare_remaining_objects, after compare_tables                         *)
Compare(new, old, enableDrop) ==
    SE!FlattenSeq([i \in DOMAIN Kinds |-> CompareKind(Kinds[i], new, old, enableDrop)])

(* Mutant: operations run in the order of the comparison.                  *)
DiffUnsorted(new, old, enableDrop) == Compare(new, old, enableDrop)

Diff(new, old, enableDrop) == SortDiffOps(Compare(new, old, enableDrop))

-------------------------------------------------------------------------------
(* The database: triggers, policies and comments go with their table, any  *)
(* other use of an object keeps it from being dropped.                     *)

BelongToTable == {"Trigger", "Policy", "Comment"}

GoesWith(k, u, d) == k = "Table" /\ u \in BelongToTable /\ k \in d[u].uses

Needs(op) == op.object.uses

Accepts(d, op) ==
    CASE op.kind = "SetComment" -> Needs(op) \subseteq DOMAIN d
      [] op.kind = DropKind[op.of] ->
            /\ op.of \in DOMAIN d
            /\ \A u \in DOMAIN d \ {op.of} : op.of \in d[u].uses => GoesWith(op.of, u, d)
      [] op.kind = CreateKind[op.of] -> op.of \notin DOMAIN d /\ Needs(op) \subseteq DOMAIN d
      [] OTHER -> op.of \in DOMAIN d /\ Needs(op) \subseteq DOMAIN d

Effect(d, op) ==
    IF op.kind = DropKind[op.of]
    THEN F!Restrict(d, {u \in DOMAIN d \ {op.of} : ~GoesWith(op.of, u, d)})
    ELSE [k \in DOMAIN d \cup {op.of} |-> IF k = op.of THEN op.object ELSE d[k]]

DatabaseOf(exported) == F!Restrict(exported, There(exported))

Comparable(new, old) == TRUE

VARIABLES current, desired, enableDrop, ops, db, pc

INSTANCE PlanRun

-------------------------------------------------------------------------------
(* Properties                                                              *)

(* A plan that runs to its end leaves every desired object as desired and, *)
(* with enable_drop, no other; without, the others are untouched.          *)
AppliedMatchesDesired ==
    pc = "done" =>
        /\ \A k \in There(desired) : k \in DOMAIN db /\ (k = "Schema" \/ db[k] = desired[k])
        /\ \A k \in DOMAIN db \ There(desired) : ~enableDrop /\ db[k] = current[k]

(* A second run finds nothing to do.                                       *)
SecondRunIsEmpty == pc = "done" => Diff(desired, db, enableDrop) = <<>>

(* Without enable_drop no object disappears, also when the plan stops half *)
(* way.                                                                    *)
NothingLostWithoutDrop == ~enableDrop => There(current) \subseteq DOMAIN db

(* The order of the groups suits every use: what the database refuses is   *)
(* the new form of an object whose old form enable_drop does not let go.   *)
OnlyRecreationRefused ==
    pc = "rejected" =>
        /\ ~enableDrop
        /\ Head(ops).kind = CreateKind[Head(ops).of]
        /\ Head(ops).of \in DOMAIN current \cap DOMAIN desired

(* Whatever the plan leaves out for want of enable_drop is reported as     *)
(* skipped, and nothing else is.                                           *)
SkippedAreReported ==
    pc = "diff" =>
        LET full == Diff(desired, current, TRUE)
            emitted == Diff(desired, current, FALSE)
        IN AccountFor(full, emitted, Diagnostics(full, emitted, FALSE))
===============================================================================
