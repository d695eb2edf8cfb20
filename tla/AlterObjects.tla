------------------------------ MODULE AlterObjects ------------------------------
(***************************************************************************)
(* What can be altered in place: enum types, sequences and domains         *)
(* (compare_sequences, compare_types and compare_domains of                *)
(* core/src/diff/compare_remaining.rs with the changes they compute).      *)
(* A schema maps some of the kinds to a definition: the labels of an enum  *)
(* type in order, the fields of a sequence, the type, default, NOT NULL    *)
(* and checks of a domain, and the default of a column of the enum type.   *)
(* The database also has the label a row of the table holds and the labels *)
(* added by the transaction the plan runs in.                              *)
(***************************************************************************)
EXTENDS OpOrder
F == INSTANCE Functions

CONSTANT Inputs          \* <<current, desired>> pairs

None == "none"           \* a field without a value, a check without a name

CreateKind == [Type |-> "CreateType", Sequence |-> "CreateSequence",
               Domain |-> "CreateDomain", Column |-> "AddColumn"]
AlterKind == [Type |-> "AlterType", Sequence |-> "AlterSequence",
              Domain |-> "AlterDomain", Column |-> "AlterColumn"]
DropKind == [Type |-> "DropType", Sequence |-> "DropSequence",
             Domain |-> "DropDomain", Column |-> "DropColumn"]

Create(k, o) == [kind |-> CreateKind[k], of |-> k, object |-> o]
Drop(k) == [kind |-> DropKind[k], of |-> k]
Alter(k, change) == [kind |-> AlterKind[k], of |-> k, change |-> change]
Recreated(k, o, enableDrop) == (IF enableDrop THEN <<Drop(k)>> ELSE <<>>) \o <<Create(k, o)>>

-------------------------------------------------------------------------------
(* type_changes: labels appended to the list are added, one label that     *)
(* differs is renamed, anything else is a new type.                        *)

Differences(new, old) == {i \in DOMAIN old : new[i] # old[i]}

(* Mutants: a label is renamed in a list that differs elsewhere too; the   *)
(* added labels are only looked for, not their place.                      *)
TypeOpsRenameFirst(new, old, enableDrop) ==
    IF Len(new) = Len(old)
    THEN LET i == CHOOSE d \in Differences(new, old) : TRUE
         IN <<Alter("Type", [rename |-> old[i], to |-> new[i]])>>
    ELSE Recreated("Type", new, enableDrop)

TypeOpsAnywhere(new, old, enableDrop) ==
    LET added == SelectSeq(new, LAMBDA l : ~SE!Contains(old, l))
    IN [i \in DOMAIN added |-> Alter("Type", [add |-> added[i]])]

TypeOps(new, old, enableDrop) ==
    IF SE!IsPrefix(old, new)
    THEN [i \in 1 .. Len(new) - Len(old) |-> Alter("Type", [add |-> new[Len(old) + i]])]
    ELSE IF Len(new) = Len(old) /\ \E i \in DOMAIN old : Differences(new, old) = {i}
    THEN LET i == CHOOSE d \in DOMAIN old : Differences(new, old) = {d}
         IN <<Alter("Type", [rename |-> old[i], to |-> new[i]])>>
    ELSE Recreated("Type", new, enableDrop)

-------------------------------------------------------------------------------
(* sequence_changes: one ALTER SEQUENCE with the fields that differ.  It   *)
(* cannot take a value away from these fields, nor change the owner.       *)

Unsettable == {"data_type", "increment", "start", "cache"}

SequenceOps(new, old, enableDrop) ==
    LET changed == {f \in DOMAIN new : new[f] # old[f]}
    IN IF "owned_by" \in changed \/ \E f \in changed \cap Unsettable : new[f] = None
       THEN Recreated("Sequence", new, enableDrop)
       ELSE <<Alter("Sequence", F!Restrict(new, changed))>>

-------------------------------------------------------------------------------
(* domain_changes                                                          *)

Named(checks) == Picked(checks, {i \in DOMAIN checks : checks[i].name # None})

CheckNamed(checks, name) == {c \in F!Range(checks) : c.name = name}

(* Mutants: a changed constraint is added before its old form is dropped;  *)
(* constraints of the current domain alone are always dropped.             *)
ConstraintOpsAddFirst(new, old, enableDrop) ==
    SE!FlattenSeq([i \in DOMAIN new |->
        IF new[i] \in CheckNamed(old, new[i].name) THEN <<>>
        ELSE <<Alter("Domain", [add |-> new[i]])>>
             \o (IF CheckNamed(old, new[i].name) # {} /\ enableDrop
                 THEN <<Alter("Domain", [drop |-> new[i].name])>> ELSE <<>>)])

ConstraintOpsDropAlways(new, old, enableDrop) ==
    LET gone == SelectSeq(old, LAMBDA c : c \notin F!Range(new))
        added == SelectSeq(new, LAMBDA c : c \notin F!Range(old))
    IN [i \in DOMAIN gone |-> Alter("Domain", [drop |-> gone[i].name])]
       \o [i \in DOMAIN added |-> Alter("Domain", [add |-> added[i]])]

(* append_domain_constraint_changes: by name; a constraint is only dropped *)
(* with enable_drop, also when it is to be replaced.                       *)
ConstraintOps(new, old, enableDrop) ==
    LET Drops(name) ==
            IF enableDrop THEN <<Alter("Domain", [drop |-> name])>> ELSE <<>>
        Replaced(c) ==
            IF c \in CheckNamed(old, c.name) THEN <<>>
            ELSE (IF CheckNamed(old, c.name) # {} THEN Drops(c.name) ELSE <<>>)
                 \o <<Alter("Domain", [add |-> c])>>
        gone == Picked(old, {i \in DOMAIN old : CheckNamed(new, old[i].name) = {}})
    IN SE!FlattenSeq([i \in DOMAIN new |-> Replaced(new[i])])
       \o SE!FlattenSeq([i \in DOMAIN gone |-> Drops(gone[i].name)])

(* Mutant: a domain found different gets its default and NOT NULL anew.    *)
DomainOpsSetAlways(new, old, enableDrop) ==
    LET Set(f) == <<Alter("Domain", [set |-> f, to |-> new[f]])>>
    IN IF new.data_type # old.data_type
       THEN Recreated("Domain", new, enableDrop)
       ELSE Set("default") \o Set("not_null")
            \o ConstraintOps(Named(new.checks), Named(old.checks), enableDrop)

DomainOps(new, old, enableDrop) ==
    LET Set(f) == IF new[f] # old[f] THEN <<Alter("Domain", [set |-> f, to |-> new[f]])>>
                                     ELSE <<>>
        unnamed == Named(new.checks) # new.checks \/ Named(old.checks) # old.checks
    IN IF new.data_type # old.data_type \/ (unnamed /\ new.checks # old.checks)
       THEN Recreated("Domain", new, enableDrop)
       ELSE Set("default") \o Set("not_null")
            \o ConstraintOps(Named(new.checks), Named(old.checks), enableDrop)

-------------------------------------------------------------------------------
(* compare_sequences, compare_types, compare_domains; the column is        *)
(* altered by compare_columns (ColumnDiff).                                *)

OpsOf(k, new, old, enableDrop) ==
    CASE k = "Type" -> TypeOps(new, old, enableDrop)
      [] k = "Sequence" -> SequenceOps(new, old, enableDrop)
      [] k = "Domain" -> DomainOps(new, old, enableDrop)
      [] k = "Column" -> <<[kind |-> AlterKind[k], of |-> k, table |-> 1, object |-> new]>>

CompareAlterable(k, new, old, enableDrop) ==
    IF k \in DOMAIN new
    THEN IF k \notin DOMAIN old THEN <<Create(k, new[k])>>
         ELSE IF new[k] = old[k] THEN <<>>
         ELSE OpsOf(k, new[k], old[k], enableDrop)
    ELSE IF k \in DOMAIN old /\ enableDrop THEN <<Drop(k)>> ELSE <<>>

Diff(new, old, enableDrop) ==
    SortDiffOps(CompareAlterable("Column", new, old, enableDrop)
                \o CompareAlterable("Sequence", new, old, enableDrop)
                \o CompareAlterable("Type", new, old, enableDrop)
                \o CompareAlterable("Domain", new, old, enableDrop))

-------------------------------------------------------------------------------
(* PostgreSQL: an added label is the last one and cannot be used before    *)
(* the transaction that adds it commits; a type in use is not dropped.     *)

Labels(d) == IF "Type" \in DOMAIN d.schema THEN F!Range(d.schema["Type"]) ELSE {}

DatabaseOf(exported) ==
    [schema |-> exported, added |-> {},
     row |-> IF "Type" \in DOMAIN exported THEN Head(exported["Type"]) ELSE None]

AlterAccepted(d, k, change) ==
    CASE "add" \in DOMAIN change /\ k = "Type" -> change.add \notin Labels(d)
      [] "rename" \in DOMAIN change -> change.rename \in Labels(d) /\ change.to \notin Labels(d)
      [] "add" \in DOMAIN change /\ k = "Domain" ->
            change.add.name = None \/ CheckNamed(d.schema[k].checks, change.add.name) = {}
      [] "drop" \in DOMAIN change -> CheckNamed(d.schema[k].checks, change.drop) # {}
      [] OTHER -> TRUE

Accepts(d, op) ==
    CASE op.kind = "AlterColumn" -> op.object \in Labels(d) \ d.added
      [] op.kind = CreateKind[op.of] -> op.of \notin DOMAIN d.schema
      [] op.kind = DropKind[op.of] ->
            op.of \in DOMAIN d.schema /\ (op.of = "Type" => "Column" \notin DOMAIN d.schema)
      [] OTHER -> op.of \in DOMAIN d.schema /\ AlterAccepted(d, op.of, op.change)

(* render_alter_sequence: ALTER SEQUENCE sets the fields it names.         *)
AlteredSequence(o, change) ==
    [f \in DOMAIN o |-> IF f \in DOMAIN change THEN change[f] ELSE o[f]]

(* render_alter_type: ADD VALUE appends, RENAME VALUE replaces.            *)
AlteredType(o, change) ==
    IF "add" \in DOMAIN change THEN Append(o, change.add)
    ELSE SE!ReplaceAll(o, change.rename, change.to)

(* render_alter_domain                                                     *)
AlteredDomain(o, change) ==
    CASE "set" \in DOMAIN change -> [o EXCEPT ![change.set] = change.to]
      [] "add" \in DOMAIN change -> [o EXCEPT !.checks = Append(@, change.add)]
      [] "drop" \in DOMAIN change ->
            [o EXCEPT !.checks = SelectSeq(@, LAMBDA c : c.name # change.drop)]

Altered(k, o, change) ==
    CASE k = "Sequence" -> AlteredSequence(o, change)
      [] k = "Type" -> AlteredType(o, change)
      [] k = "Domain" -> AlteredDomain(o, change)

Effect(d, op) ==
    CASE op.kind = "AlterColumn" \/ op.kind = CreateKind[op.of] ->
            [d EXCEPT !.schema = [k \in DOMAIN @ \cup {op.of} |->
                                      IF k = op.of THEN op.object ELSE @[k]]]
      [] op.kind = DropKind[op.of] ->
            [d EXCEPT !.schema = F!Restrict(@, DOMAIN @ \ {op.of})]
      [] OTHER ->
            LET s == [d.schema EXCEPT ![op.of] = Altered(op.of, @, op.change)]
            IN [schema |-> s,
                added |-> d.added \cup (IF op.of = "Type" /\ "add" \in DOMAIN op.change
                                        THEN {op.change.add} ELSE {}),
                row |-> IF "rename" \in DOMAIN op.change /\ d.row = op.change.rename
                        THEN op.change.to ELSE d.row]

Comparable(new, old) == TRUE

VARIABLES current, desired, enableDrop, ops, db, pc

INSTANCE PlanRun

-------------------------------------------------------------------------------
(* Properties                                                              *)

(* Constraints of a domain have no order unless one has no name.           *)
SameObject(k, o, p) ==
    IF k = "Domain"
    THEN [o EXCEPT !.checks = F!Range(@)] = [p EXCEPT !.checks = F!Range(@)]
    ELSE o = p

(* A plan that runs to its end leaves every desired object as desired: the *)
(* labels in their order, every field of a sequence, every constraint of a *)
(* domain; without enable_drop a domain may keep constraints.              *)
AppliedMatchesDesired ==
    pc = "done" =>
        \A k \in DOMAIN desired :
            /\ k \in DOMAIN db.schema
            /\ \/ SameObject(k, db.schema[k], desired[k])
               \/ /\ k = "Domain" /\ ~enableDrop
                  /\ F!Range(desired[k].checks) \subseteq F!Range(db.schema[k].checks)
                  /\ [db.schema[k] EXCEPT !.checks = <<>>] = [desired[k] EXCEPT !.checks = <<>>]

(* A second run finds nothing to do.                                       *)
SecondRunIsEmpty == pc = "done" => Diff(desired, db.schema, enableDrop) = <<>>

(* No step of the plan touches the label a row holds as long as the        *)
(* desired type has it; a label it does not have is at most renamed to the *)
(* one in its place.                                                       *)
RowKeepsItsLabel ==
    {"Type", "Column"} \subseteq DOMAIN current \cap DOMAIN db.schema =>
        LET held == Head(current["Type"])
        IN /\ db.row \in Labels(db)
           /\ db.row # held =>
                 held \notin F!Range(desired["Type"]) /\ db.row = Head(desired["Type"])

(* Without enable_drop no object and no constraint of a domain disappears. *)
NothingLostWithoutDrop ==
    ~enableDrop =>
        /\ DOMAIN current \subseteq DOMAIN db.schema
        /\ "Domain" \in DOMAIN current =>
              F!Range(current["Domain"].checks) \subseteq F!Range(db.schema["Domain"].checks)

(* What the database refuses redefines something: it drops a type that is  *)
(* in use, or the name is taken and enable_drop is not set.                *)
OnlyRedefinitionRefused ==
    pc = "rejected" =>
        LET op == Head(ops)
        IN \/ op.kind = "DropType" /\ "Column" \in DOMAIN current
           \/ /\ ~enableDrop
              /\ op.of \in DOMAIN current
              /\ \/ op.kind = CreateKind[op.of]
                 \/ /\ op.kind = "AlterDomain"
                    /\ CheckNamed(current["Domain"].checks, op.change.add.name) # {}

(* Whatever the plan leaves out for want of enable_drop is reported as     *)
(* skipped, and nothing else is.                                           *)
SkippedAreReported ==
    pc = "diff" =>
        LET full == Diff(desired, current, TRUE)
            emitted == Diff(desired, current, FALSE)
        IN AccountFor(full, emitted, Diagnostics(full, emitted, FALSE))
===============================================================================
