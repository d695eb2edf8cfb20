------------------------------ MODULE SqliteRebuild ----------------------------
(***************************************************************************)
(* What the SQLite generator (dialect-sqlite/src/generator.rs) makes of a  *)
(* plan for one table: SQLite can add and rename columns, everything else  *)
(* rebuilds the table through a shadow table.  The operations come from    *)
(* ColumnDiff; all statements are one transaction of the executor.         *)
(*                                                                         *)
(* A database is the table and its shadow, each a set of at most one       *)
(* [columns, checks, indexes, rows]; a column is [name, type, notNull,     *)
(* default], rows gives each row that is there a value for each column.    *)
(* Of a value it matters whether it is NULL and whether it is an integer;  *)
(* the number 1 and the text '1' are one value, as a column stores what    *)
(* is put into it in the form of its type where that loses nothing.        *)
(***************************************************************************)
EXTENDS Sequences, Naturals, FiniteSets
LOCAL SE == INSTANCE SequencesExt

CONSTANTS Inputs,      \* <<current, desired>> pairs of ColumnDiff's schemas
          Ids,         \* the rows there may be
          Data         \* the values of a column in a row: Null, "one",
                       \* "fraction" (1.5) or "word" (no number)

VARIABLES current, desired, enableDrop, ops, db, pc,
          durable      \* the database after the last commit

Core == INSTANCE ColumnDiff

Null == "null"
Simple == {"AddColumn", "RenameColumn"}

-------------------------------------------------------------------------------
(* generator.rs                                                            *)

(* collect_rebuild_columns: one specification for each column that is      *)
(* altered, from nothing but its changes (compare_columns alters a column  *)
(* once).  What is not set is {}.                                          *)
RebuildColumns(batch) ==
    LET altered == SelectSeq(batch, LAMBDA op : op.kind = "AlterColumn")
        Set(op, a) == IF a \in op.changes THEN {op.column[a]} ELSE {}
    IN [i \in DOMAIN altered |->
            [name |-> altered[i].column.name, type |-> Set(altered[i], "type"),
             notNull |-> Set(altered[i], "notNull"), default |-> Set(altered[i], "default")]]

(* Mutant: NOT NULL is forgotten.                                          *)
RebuildColumnNullable(spec) ==
    [name |-> spec.name,
     type |-> IF spec.type = {} THEN "text" ELSE CHOOSE t \in spec.type : TRUE,
     notNull |-> FALSE,
     default |-> IF spec.default = {} THEN Core!NoDefault ELSE CHOOSE e \in spec.default : TRUE]

(* render_rebuild_column: TEXT, nullable and without default unless set.   *)
RebuildColumn(spec) ==
    [name |-> spec.name,
     type |-> IF spec.type = {} THEN "text" ELSE CHOOSE t \in spec.type : TRUE,
     notNull |-> TRUE \in spec.notNull,
     default |-> IF spec.default = {} THEN Core!NoDefault ELSE CHOOSE e \in spec.default : TRUE]

(* CAST(value AS type): to an integer a fraction is cut off and a text     *)
(* that begins with no number is 0.                                        *)
Converted(value, type) ==
    CASE type = "integer" /\ value = "fraction" -> "one"
      [] type = "integer" /\ value = "word" -> "zero"
      [] OTHER -> value

(* Mutant: only columns without a new type are copied.                     *)
CopyProjectionPlain(spec, row) == IF spec.type = {} THEN row[spec.name] ELSE Null

(* render_copy_projection                                                  *)
CopyProjection(spec, row) ==
    IF spec.type = {} THEN row[spec.name]
    ELSE Converted(row[spec.name], CHOOSE t \in spec.type : TRUE)

(* rebuild_statement: each step is a transactional statement.              *)
Step(kind, specs) == [kind |-> kind, specs |-> specs, transactional |-> TRUE]

(* Mutants: the old table is not dropped; the steps commit one by one.     *)
RebuildPlanKeepsOld(batch) ==
    LET specs == RebuildColumns(batch)
    IN <<Step("CreateShadowTable", specs), Step("CopyData", specs),
         Step("RenameShadowTable", specs)>>

RebuildPlanAutocommit(batch) ==
    LET steps == <<"CreateShadowTable", "CopyData", "DropOldTable", "RenameShadowTable">>
    IN [i \in DOMAIN steps |->
            [Step(steps[i], RebuildColumns(batch)) EXCEPT !.transactional = FALSE]]

(* build_sqlite_rebuild_plan: the last two steps are only comments.        *)
RebuildPlan(batch) ==
    LET steps == <<"CreateShadowTable", "CopyData", "DropOldTable", "RenameShadowTable",
                   "RecreateIndexes", "RecreateTriggers">>
    IN [i \in DOMAIN steps |-> Step(steps[i], RebuildColumns(batch))]

(* emit_simple_op for the operations of one table that rebuild nothing.    *)
SimpleStatement(op) ==
    IF op.kind = "AddColumn"
    THEN [kind |-> op.kind, column |-> op.column, transactional |-> TRUE]
    ELSE [kind |-> op.kind, name |-> op.name, to |-> op.to, transactional |-> TRUE]

(* generate_ddl: the operations between two simple ones are one batch.     *)
Generate(plan) ==
    LET IsSimple(i) == plan[i].kind \in Simple
        First(i) == ~IsSimple(i) /\ (i = 1 \/ IsSimple(i - 1))
        Batch(i) == LET end == CHOOSE j \in i..Len(plan) :
                                 /\ \A k \in i..j : ~IsSimple(k)
                                 /\ j = Len(plan) \/ IsSimple(j + 1)
                    IN SubSeq(plan, i, end)
    IN SE!FlattenSeq([i \in DOMAIN plan |->
            IF IsSimple(i) THEN <<SimpleStatement(plan[i])>>
            ELSE IF First(i) THEN RebuildPlan(Batch(i)) ELSE <<>>])

-------------------------------------------------------------------------------
(* SQLite                                                                  *)

The(S) == CHOOSE t \in S : TRUE
Names(t) == {c.name : c \in t.columns}
Stored(c) == [name |-> c.name, type |-> c.type, notNull |-> c.notNull, default |-> c.default]
DefaultValue(c) == IF c.default = Core!NoDefault THEN Null ELSE c.default.value

RowsOf(columns) ==
    {r \in [{c.name : c \in columns} -> Data] :
        \A c \in columns : c.notNull => r[c.name] # Null}

TableOf(schema, rows) ==
    [columns |-> {Stored(c) : c \in schema.columns}, checks |-> schema.checks,
     indexes |-> schema.indexes, rows |-> rows]

(* CREATE TABLE AS SELECT keeps the names and the types of the columns.    *)
Shadow(t, specs) ==
    [columns |-> IF specs = <<>>
                 THEN {[c EXCEPT !.notNull = FALSE, !.default = Core!NoDefault] : c \in t.columns}
                 ELSE {RebuildColumn(specs[i]) : i \in DOMAIN specs},
     checks |-> {}, indexes |-> {}, rows |-> <<>>]

Copy(t, specs) ==
    IF specs = <<>> THEN t.rows
    ELSE [id \in DOMAIN t.rows |->
            [n \in {specs[i].name : i \in DOMAIN specs} |->
                CopyProjection(CHOOSE s \in {specs[i] : i \in DOMAIN specs} : s.name = n,
                               t.rows[id])]]

Accepts(d, s) ==
    CASE s.kind = "AddColumn" ->
            /\ d.table # {} /\ s.column.name \notin Names(The(d.table))
            /\ s.column.notNull /\ The(d.table).rows # <<>> => s.column.default # Core!NoDefault
      [] s.kind = "RenameColumn" ->
            /\ d.table # {} /\ s.name \in Names(The(d.table))
            /\ s.to \notin Names(The(d.table))
      [] s.kind = "CreateShadowTable" -> d.shadow = {} /\ d.table # {}
      [] s.kind = "CopyData" ->
            /\ d.shadow # {} /\ d.table # {}
            /\ \A i \in DOMAIN s.specs : s.specs[i].name \in Names(The(d.table))
            /\ \A c \in The(d.shadow).columns : c.notNull =>
                    \A id \in DOMAIN The(d.table).rows :
                        Copy(The(d.table), s.specs)[id][c.name] # Null
      [] s.kind = "DropOldTable" -> d.table # {}
      [] s.kind = "RenameShadowTable" -> d.shadow # {} /\ d.table = {}
      [] OTHER -> TRUE

Effect(d, s) ==
    LET t == The(d.table)
    IN CASE s.kind = "AddColumn" ->
            [d EXCEPT !.table = {[t EXCEPT
                !.columns = @ \cup {Stored(s.column)},
                !.rows = [id \in DOMAIN t.rows |->
                            [n \in Names(t) \cup {s.column.name} |->
                                IF n \in Names(t) THEN @[id][n] ELSE DefaultValue(s.column)]]]}]
      [] s.kind = "RenameColumn" ->
            [d EXCEPT !.table = {[t EXCEPT
                !.columns = {[c EXCEPT !.name = IF @ = s.name THEN s.to ELSE @] : c \in t.columns},
                !.rows = [id \in DOMAIN t.rows |->
                            [n \in (Names(t) \ {s.name}) \cup {s.to} |->
                                @[id][IF n = s.to THEN s.name ELSE n]]]]}]
      [] s.kind = "CreateShadowTable" -> [d EXCEPT !.shadow = {Shadow(t, s.specs)}]
      [] s.kind = "CopyData" ->
            [d EXCEPT !.shadow = {[The(@) EXCEPT !.rows = Copy(t, s.specs)]}]
      [] s.kind = "DropOldTable" -> [d EXCEPT !.table = {}]
      [] s.kind = "RenameShadowTable" -> [table |-> d.shadow, shadow |-> {}]
      [] OTHER -> d

-------------------------------------------------------------------------------
vars == <<current, desired, enableDrop, ops, db, pc, durable>>

Init ==
    /\ \E in \in Inputs : current = in[1] /\ desired = in[2]
    /\ enableDrop \in BOOLEAN
    /\ ops = <<>>
    /\ \E ids \in SUBSET Ids : \E rows \in [ids -> RowsOf(current.columns)] :
            db = [table |-> {TableOf(current, rows)}, shadow |-> {}]
    /\ durable = db
    /\ pc = "diff"

Plan ==
    /\ pc = "diff"
    /\ ops' = Generate(Core!Diff(desired, current, enableDrop))
    /\ pc' = "apply"
    /\ UNCHANGED <<current, desired, enableDrop, db, durable>>

(* A statement of the transaction, or one that commits by itself.          *)
Execute ==
    /\ pc = "apply" /\ ops # <<>> /\ Accepts(db, Head(ops))
    /\ db' = Effect(db, Head(ops))
    /\ durable' = IF Head(ops).transactional THEN durable ELSE db'
    /\ ops' = Tail(ops)
    /\ UNCHANGED <<current, desired, enableDrop, pc>>

Commit ==
    /\ pc = "apply" /\ ops = <<>>
    /\ durable' = db
    /\ pc' = "done"
    /\ UNCHANGED <<current, desired, enableDrop, ops, db>>

(* A refused statement rolls the transaction back.                         *)
Refuse ==
    /\ pc = "apply" /\ ops # <<>> /\ ~Accepts(db, Head(ops))
    /\ db' = durable
    /\ pc' = "refused"
    /\ UNCHANGED <<current, desired, enableDrop, ops, durable>>

(* The process ends; SQLite finds its last committed state again.          *)
Crash ==
    /\ pc = "apply"
    /\ db' = durable
    /\ pc' = "crashed"
    /\ UNCHANGED <<current, desired, enableDrop, ops, durable>>

Terminated == pc \in {"done", "refused", "crashed"} /\ UNCHANGED vars

Next == Plan \/ Execute \/ Commit \/ Refuse \/ Crash \/ Terminated
Spec == Init /\ [][Next]_vars

-------------------------------------------------------------------------------
(* Properties                                                              *)

Result == The(durable.table)

(* A plan that runs to its end leaves the table with the desired columns,  *)
(* attribute by attribute, and the desired checks.                         *)
AppliedMatchesDesired ==
    pc = "done" =>
        /\ durable.table # {} /\ durable.shadow = {}
        /\ Result.columns = {Stored(c) : c \in desired.columns}
        /\ Result.checks = desired.checks

(* A column of type integer is for integers, one of type text takes all.   *)
Fits(value, type) == type = "integer" => value \in {Null, "zero", "one"}

OldName(n) ==
    LET from == Core!Column(desired, n).from
    IN IF n \in Core!ColumnNames(current) THEN {n} ELSE from \cap Core!ColumnNames(current)

(* The rows of the table are there afterwards, each with the values it had *)
(* in all columns that stay, under the new name of a renamed column; only  *)
(* what does not fit a column's new type is another value then, not NULL   *)
(* and one that fits.                                                      *)
ValuesSurviveStep ==
    pc # "done" /\ pc' = "done" =>
        LET kept == {n \in Core!ColumnNames(desired) : OldName(n) # {}}
            before == The(durable.table).rows
            after == The(durable'.table).rows
            type(n) == Core!Column(desired, n).type
            Stays(old, n) ==
                type(n) = Core!Column(current, The(OldName(n))).type \/ Fits(old, type(n))
            Keeps(new, old, n) ==
                IF Stays(old, n) THEN new = old ELSE new # Null /\ Fits(new, type(n))
        IN /\ DOMAIN after = DOMAIN before
           /\ \A id \in DOMAIN before : \A n \in kept :
                Keeps(after[id][n], before[id][The(OldName(n))], n)

(* Whatever happens on the way, what is durable is the table as it was or  *)
(* as the whole plan leaves it, and no shadow table is left behind.        *)
AllOrNothingStep == durable' # durable => pc' = "done" /\ durable'.shadow = {}

(* Only a column that has no value to give and may not be NULL stops a     *)
(* plan.                                                                   *)
OnlyNullRefused ==
    pc = "refused" =>
        \/ Head(ops).kind = "AddColumn" /\ Head(ops).column.notNull
        \/ /\ Head(ops).kind = "CopyData"
           /\ \E id \in DOMAIN Result.rows :
                \E n \in DOMAIN Result.rows[id] : Result.rows[id][n] = Null
===============================================================================
