------------------------------- MODULE ColumnDiff ------------------------------
(***************************************************************************)
(* The inside of one table: compare_columns and compare_checks             *)
(* (core/src/diff/compare.rs), the order of what they plan, and the plan   *)
(* on a table that holds data.                                             *)
(*                                                                         *)
(* A name is a number: compare_columns visits columns in the order of      *)
(* their names.  An expression is its value and whether the database has   *)
(* spelled it: what is read back is not written as it was declared.        *)
(***************************************************************************)
EXTENDS OpOrder

CONSTANT Inputs          \* <<current, desired>> pairs

Unnamed == 0
NoDefault == [value |-> "none", stored |-> FALSE]

(* A schema is the columns and the checks of the table.  A column is       *)
(* [name, from, type, notNull, default, identity], from the set of at most *)
(* one old name; a check is [name, reads, expr], reads the column its      *)
(* expression names.                                                       *)
Column(schema, n) == CHOOSE c \in schema.columns : c.name = n
ColumnNames(schema) == {c.name : c \in schema.columns}
Named(schema) == {k \in schema.checks : k.name # Unnamed}
CheckNames(schema) == {k.name : k \in Named(schema)}
Check(schema, n) == CHOOSE k \in Named(schema) : k.name = n

AddColumn(c) == [kind |-> "AddColumn", table |-> 1, column |-> c]
DropColumn(n) == [kind |-> "DropColumn", table |-> 1, name |-> n]
RenameColumn(n, to) == [kind |-> "RenameColumn", table |-> 1, name |-> n, to |-> to]
AlterColumn(c, changes) == [kind |-> "AlterColumn", table |-> 1, column |-> c, changes |-> changes]
AddCheck(k) == [kind |-> "AddCheck", table |-> 1, check |-> k]
DropCheck(n) == [kind |-> "DropCheck", table |-> 1, name |-> n]

-------------------------------------------------------------------------------
(* core/src/diff/policy.rs                                                 *)

(* Mutant: only expressions written alike are equivalent.                  *)
WrittenAlike(e, g) == e = g

(* exprs_equivalent: equal, or equivalent for the dialect's policy, which  *)
(* sees through the database's spelling.                                   *)
ExprsEquivalent(e, g) == e = g \/ e.value = g.value

-------------------------------------------------------------------------------
(* compare.rs                                                              *)

(* column_changes: identity, generation and collation are not looked at.   *)
ColumnChanges(new, old) ==
    {a \in {"type", "notNull"} : new[a] # old[a]}
    \cup IF ExprsEquivalent(new.default, old.default) THEN {} ELSE {"default"}

AlterOps(new, old) ==
    IF ColumnChanges(new, old) = {} THEN <<>>
    ELSE <<AlterColumn(new, ColumnChanges(new, old))>>

(* Mutants: a renamed column is not compared any further; annotations are  *)
(* ignored.                                                                *)
MatchRenamesOnly(new, old, matched) ==
    LET renamed == new.from \cap (ColumnNames(old) \ matched)
        from == CHOOSE n \in renamed : TRUE
    IN IF new.name \in ColumnNames(old)
       THEN [matched |-> {new.name}, ops |-> AlterOps(new, Column(old, new.name))]
       ELSE IF renamed # {}
       THEN [matched |-> renamed, ops |-> <<RenameColumn(from, new.name)>>]
       ELSE [matched |-> {}, ops |-> <<AddColumn(new)>>]

MatchByNameOnly(new, old, matched) ==
    IF new.name \in ColumnNames(old)
    THEN [matched |-> {new.name}, ops |-> AlterOps(new, Column(old, new.name))]
    ELSE [matched |-> {}, ops |-> <<AddColumn(new)>>]

(* One turn of compare_columns: the columns of the current table it marks  *)
(* as matched and the operations it adds.  A column of the same name is    *)
(* taken whether or not it is matched already.                             *)
MatchColumn(new, old, matched) ==
    LET renamed == new.from \cap (ColumnNames(old) \ matched)
        from == CHOOSE n \in renamed : TRUE
    IN IF new.name \in ColumnNames(old)
       THEN [matched |-> {new.name}, ops |-> AlterOps(new, Column(old, new.name))]
       ELSE IF renamed # {}
       THEN [matched |-> renamed,
             ops |-> <<RenameColumn(from, new.name)>> \o AlterOps(new, Column(old, from))]
       ELSE [matched |-> {}, ops |-> <<AddColumn(new)>>]

MatchColumns(new, old) ==
    LET names == InOrder(ColumnNames(new))
        match[i \in 0..Len(names)] ==
            IF i = 0 THEN [matched |-> {}, ops |-> <<>>]
            ELSE LET turn == MatchColumn(Column(new, names[i]), old, match[i - 1].matched)
                 IN [matched |-> match[i - 1].matched \cup turn.matched,
                     ops |-> match[i - 1].ops \o turn.ops]
    IN match[Len(names)]

(* Mutants: a renamed column is dropped under its old name; columns are    *)
(* dropped without being asked for.                                        *)
CompareColumnsDropsRenamed(new, old, enableDrop) ==
    LET gone == InOrder(ColumnNames(old) \ ColumnNames(new))
    IN MatchColumns(new, old).ops
       \o IF enableDrop THEN [i \in DOMAIN gone |-> DropColumn(gone[i])] ELSE <<>>

CompareColumnsDropsAlways(new, old, enableDrop) ==
    LET gone == InOrder(ColumnNames(old)
                    \ (ColumnNames(new) \cup MatchColumns(new, old).matched))
    IN MatchColumns(new, old).ops \o [i \in DOMAIN gone |-> DropColumn(gone[i])]

CompareColumns(new, old, enableDrop) ==
    LET gone == InOrder(ColumnNames(old)
                    \ (ColumnNames(new) \cup MatchColumns(new, old).matched))
    IN MatchColumns(new, old).ops
       \o IF enableDrop THEN [i \in DOMAIN gone |-> DropColumn(gone[i])] ELSE <<>>

(* Mutant: two checks on the same column are the same.                     *)
ChecksReadAlike(k, l) == k.reads = l.reads

(* checks_equivalent                                                       *)
ChecksEquivalent(k, l) == k.reads = l.reads /\ ExprsEquivalent(k.expr, l.expr)

(* Mutant: the changed check is added before the old one is dropped.       *)
CheckOpsAddFirst(k, old) ==
    IF k.name \notin CheckNames(old) THEN <<AddCheck(k)>>
    ELSE IF ChecksEquivalent(k, Check(old, k.name)) THEN <<>>
    ELSE <<AddCheck(k), DropCheck(k.name)>>

(* A named check: new, the same, or changed.  The drop of a changed check  *)
(* always pairs with its add (check_drop_add_keys_match compares the name  *)
(* with itself) and is planned without enable_drop.                        *)
CheckOps(k, old) ==
    IF k.name \notin CheckNames(old) THEN <<AddCheck(k)>>
    ELSE IF ChecksEquivalent(k, Check(old, k.name)) THEN <<>>
    ELSE <<DropCheck(k.name), AddCheck(k)>>

(* Mutant: a check that only disappears is dropped without enable_drop.    *)
CompareChecksDropsAlways(new, old, enableDrop) ==
    LET names == InOrder(CheckNames(new))
        gone == InOrder(CheckNames(old) \ CheckNames(new))
    IN SE!FlattenSeq([i \in DOMAIN names |-> CheckOps(Check(new, names[i]), old)])
       \o [i \in DOMAIN gone |-> DropCheck(gone[i])]

(* compare_checks: checks without a name are left out on both sides.       *)
CompareChecks(new, old, enableDrop) ==
    LET names == InOrder(CheckNames(new))
        gone == InOrder(CheckNames(old) \ CheckNames(new))
    IN SE!FlattenSeq([i \in DOMAIN names |-> CheckOps(Check(new, names[i]), old)])
       \o IF enableDrop THEN [i \in DOMAIN gone |-> DropCheck(gone[i])] ELSE <<>>

Diff(new, old, enableDrop) ==
    SortDiffOps(CompareColumns(new, old, enableDrop) \o CompareChecks(new, old, enableDrop))

-------------------------------------------------------------------------------
(* The table in the database: a schema whose columns also hold data, the   *)
(* name they had when the run began or 0.  Dropping a column takes the     *)
(* checks that read it along, renaming it rewrites them.                   *)

Stored(e) == IF e = NoDefault THEN e ELSE [e EXCEPT !.stored = TRUE]
Filled(c, data) ==
    [name |-> c.name, type |-> c.type, notNull |-> c.notNull,
     default |-> Stored(c.default), identity |-> c.identity, data |-> data]
StoredCheck(k) == [k EXCEPT !.expr = Stored(@)]

DatabaseOf(exported) ==
    [columns |-> {Filled(c, c.name) : c \in exported.columns}, checks |-> exported.checks]

Exported(t) ==
    [columns |-> {[name |-> c.name, from |-> {}, type |-> c.type, notNull |-> c.notNull,
                   default |-> c.default, identity |-> c.identity] : c \in t.columns},
     checks |-> t.checks]

Accepts(t, op) ==
    CASE op.kind = "AddColumn" -> op.column.name \notin ColumnNames(t)
      [] op.kind = "AlterColumn" -> op.column.name \in ColumnNames(t)
      [] op.kind = "DropColumn" -> op.name \in ColumnNames(t)
      [] op.kind = "RenameColumn" -> op.name \in ColumnNames(t) /\ op.to \notin ColumnNames(t)
      [] op.kind = "AddCheck" ->
            op.check.name \notin CheckNames(t) /\ op.check.reads \in ColumnNames(t)
      [] op.kind = "DropCheck" -> op.name \in CheckNames(t)

Altered(c, op) ==
    [c EXCEPT !.type = IF "type" \in op.changes THEN op.column.type ELSE @,
              !.notNull = IF "notNull" \in op.changes THEN op.column.notNull ELSE @,
              !.default = IF "default" \in op.changes THEN Stored(op.column.default) ELSE @]

Effect(t, op) ==
    CASE op.kind = "AddColumn" -> [t EXCEPT !.columns = @ \cup {Filled(op.column, 0)}]
      [] op.kind = "AlterColumn" ->
            LET c == Column(t, op.column.name)
            IN [t EXCEPT !.columns = (@ \ {c}) \cup {Altered(c, op)}]
      [] op.kind = "DropColumn" ->
            [columns |-> t.columns \ {Column(t, op.name)},
             checks |-> {k \in t.checks : k.reads # op.name}]
      [] op.kind = "RenameColumn" ->
            LET c == Column(t, op.name)
            IN [columns |-> (t.columns \ {c}) \cup {[c EXCEPT !.name = op.to]},
                checks |-> {[k EXCEPT !.reads = IF @ = op.name THEN op.to ELSE @] : k \in t.checks}]
      [] op.kind = "AddCheck" -> [t EXCEPT !.checks = @ \cup {StoredCheck(op.check)}]
      [] op.kind = "DropCheck" -> [t EXCEPT !.checks = @ \ {Check(t, op.name)}]

Comparable(new, old) == TRUE

VARIABLES current, desired, enableDrop, ops, db, pc

INSTANCE PlanRun

-------------------------------------------------------------------------------
(* Properties                                                              *)

Attributes(c) == <<c.type, c.notNull, c.default.value, c.identity>>

(* A plan that runs to its end leaves the table with every desired column, *)
(* attribute by attribute, and every desired check; with enable_drop it    *)
(* has nothing else, without it what else it had is untouched.             *)
AppliedMatchesDesired ==
    pc = "done" =>
        /\ \A c \in desired.columns : \E d \in db.columns :
            d.name = c.name /\ Attributes(d) = Attributes(c)
        /\ \A k \in desired.checks : \E l \in db.checks :
            l.reads = k.reads /\ l.expr.value = k.expr.value
        /\ \A d \in db.columns :
            d.name \notin ColumnNames(desired) =>
                ~enableDrop /\ d = Filled(Column(current, d.name), d.name)
        /\ \A l \in db.checks :
            l.name \notin CheckNames(desired) => ~enableDrop /\ l.name \in CheckNames(current)

(* A second run finds nothing to do, although the database spells          *)
(* expressions its own way.                                                *)
SecondRunIsEmpty == pc = "done" => Diff(desired, Exported(db), enableDrop) = <<>>

(* The data of a column follow its name, or its annotation when there was  *)
(* no column of its name.                                                  *)
DataFollowsRenames ==
    pc = "done" =>
        \A d \in db.columns :
            LET new == {c \in desired.columns : c.name = d.name}
                old == (UNION {c.from : c \in new}) \cap ColumnNames(current)
            IN d.data = IF d.name \in ColumnNames(current) THEN d.name
                        ELSE IF old # {} THEN CHOOSE n \in old : TRUE ELSE 0

(* Without enable_drop no column's data are lost, and a check is gone only *)
(* when the desired schema has one of its name, also when the plan stops   *)
(* half way.                                                               *)
NothingLostWithoutDrop ==
    ~enableDrop =>
        /\ \A n \in ColumnNames(current) : \E d \in db.columns : d.data = n
        /\ CheckNames(current) \ CheckNames(desired) \subseteq CheckNames(db)

(* Whatever the plan leaves out for want of enable_drop is reported as     *)
(* skipped, and nothing else is.                                           *)
SkippedAreReported ==
    pc = "diff" =>
        LET full == Diff(desired, current, TRUE)
            emitted == Diff(desired, current, FALSE)
        IN AccountFor(full, emitted, Diagnostics(full, emitted, FALSE))

(* The database refuses nothing.                                           *)
PlanAccepted == pc # "rejected"
===============================================================================
