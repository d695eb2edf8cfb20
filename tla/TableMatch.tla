------------------------------ MODULE TableMatch -------------------------------
(***************************************************************************)
(* Which table becomes which: compare_tables (core/src/diff/compare.rs)    *)
(* with names, schemas, the search path and rename annotations             *)
(* (name_resolution.rs and rename.rs), and a database that resolves names  *)
(* through the same path.                                                  *)
(*                                                                         *)
(* What a table contains is one value, its shape; compare_table's          *)
(* operations on it are one operation here and ColumnDiff's subject.       *)
(* Foreign keys are FkPlanning's.                                          *)
(***************************************************************************)
EXTENDS OpOrder
F == INSTANCE Functions

CONSTANTS
    SearchPath,         \* DatabaseAdapter::schema_search_path
    ExportQualifies     \* the adapter exports names with their schema

ASSUME SearchPathAssumption == SearchPath \in Seq(STRING) /\ SearchPath # <<>>

(* How a desired object finds its counterpart among the exported ones: by  *)
(* its name, else through the search path, else through its rename         *)
(* annotation.  Operators that return a key return a set of at most one.   *)
NoSchema == "-"
Name(schema, name) == [schema |-> schema, name |-> name]

(* Mutant: the search path is not consulted.                               *)
NoCandidates(key, path) == <<>>

(* The names a search-path match tries, in order.                          *)
Candidates(key, path) ==
    IF key.schema = NoSchema
    THEN [i \in DOMAIN path |-> [key EXCEPT !.schema = path[i]]]
    ELSE IF key.schema \in F!Range(path) THEN <<[key EXCEPT !.schema = NoSchema]>>
    ELSE <<>>

(* resolve_qualified_name_match                                            *)
ResolveQualified(key, keys, matched, path) ==
    LET tried == Candidates(key, path)
        free == {i \in DOMAIN tried : tried[i] \in keys \ matched}
    IN {tried[i] : i \in {j \in free : \A n \in free : j <= n}}

(* resolve_rename_match                                                    *)
ResolveRename(from, keys, matched) == from \cap (keys \ matched)

-------------------------------------------------------------------------------
RenameTable(from, to) == [kind |-> "RenameTable", from |-> from, table |-> to]
AlterTable(t, shape) == [kind |-> "AlterColumn", table |-> t, shape |-> shape]
CreateTable(t) == [kind |-> "CreateTable", table |-> t.name, shape |-> t.shape]
DropTable(name) == [kind |-> "DropTable", table |-> name]

(* A desired schema is a sequence of tables [name, from, shape], from the  *)
(* set of at most one old name; an exported one maps names to shapes.      *)
NamesOf(tables) == {tables[i].name : i \in DOMAIN tables}

-------------------------------------------------------------------------------
(* compare.rs                                                              *)

(* table_renamed_from_key: the old name in the schema of the new one.      *)
RenamedFrom(t) == {Name(t.name.schema, old) : old \in t.from}

(* compare_table                                                           *)
CompareTable(t, current, key) ==
    IF current[key] = t.shape THEN <<>> ELSE <<AlterTable(t.name, t.shape)>>

(* Mutants: a table found through the search path is not recorded as       *)
(* matched; a rename is taken from a table that is matched already.        *)
MatchForgetsSearchPath(t, current, matched) ==
    CASE t.name \in DOMAIN current ->
            [matched |-> {t.name}, ops |-> CompareTable(t, current, t.name)]
      [] OTHER ->
            LET found == ResolveQualified(t.name, DOMAIN current, matched, SearchPath)
            IN [matched |-> {}, ops |-> IF found = {} THEN <<CreateTable(t)>>
                ELSE CompareTable(t, current, CHOOSE k \in found : TRUE)]

MatchIgnoresRenames(t, current, matched) ==
    LET found == ResolveQualified(t.name, DOMAIN current, matched, SearchPath)
                    \cup ({t.name} \cap DOMAIN current)
    IN [matched |-> found, ops |-> IF found = {} THEN <<CreateTable(t)>>
        ELSE CompareTable(t, current, CHOOSE k \in found : TRUE)]

(* One turn of compare_tables: the exported tables it marks as matched and *)
(* the operations it adds.  An exact match does not ask whether the table  *)
(* is matched already.                                                     *)
MatchTable(t, current, matched) ==
    LET keys == DOMAIN current
        exact == {t.name} \cap keys
        onPath == ResolveQualified(t.name, keys, matched, SearchPath)
        kept == IF exact # {} THEN exact ELSE onPath
        renamed == ResolveRename(RenamedFrom(t), keys, matched)
        the(found) == CHOOSE k \in found : TRUE
    IN IF kept # {} THEN [matched |-> kept, ops |-> CompareTable(t, current, the(kept))]
       ELSE IF renamed # {}
       THEN [matched |-> renamed,
             ops |-> <<RenameTable(the(renamed), t.name)>>
                     \o CompareTable(t, current, the(renamed))]
       ELSE [matched |-> {}, ops |-> <<CreateTable(t)>>]

MatchTables(tables, current) ==
    LET match[i \in 0..Len(tables)] ==
            IF i = 0 THEN [matched |-> {}, ops |-> <<>>]
            ELSE LET turn == MatchTable(tables[i], current, match[i - 1].matched)
                 IN [matched |-> match[i - 1].matched \cup turn.matched,
                     ops |-> match[i - 1].ops \o turn.ops]
    IN match[Len(tables)]

(* Mutant: what has no counterpart is dropped without being asked for.     *)
DropsAlways(tables, current, enableDrop) ==
    MatchTables(tables, current).ops
    \o LET dropped == DOMAIN current \ MatchTables(tables, current).matched
       IN SE!SetToSeq({DropTable(n) : n \in dropped})

(* What no desired table is matched with is dropped.                       *)
WithDrops(match, keys, enableDrop) ==
    match.ops
    \o IF enableDrop THEN SE!SetToSeq({DropTable(n) : n \in keys \ match.matched}) ELSE <<>>

CompareTables(tables, current, enableDrop) ==
    WithDrops(MatchTables(tables, current), DOMAIN current, enableDrop)

-------------------------------------------------------------------------------
(* The database maps qualified names to tables, each with the rows it was  *)
(* created with: data, the name they were first exported under, or fresh.  *)

Fresh == Name(NoSchema, NoSchema)

(* A name without a schema is looked up along the search path.             *)
Resolve(d, name) ==
    IF name.schema # NoSchema THEN {name} \cap DOMAIN d
    ELSE ResolveQualified(name, DOMAIN d, {}, SearchPath)

(* Where the database creates a table of that name.                        *)
Placed(name) == IF name.schema = NoSchema THEN [name EXCEPT !.schema = SearchPath[1]] ELSE name

TheTable(d, name) == CHOOSE k \in Resolve(d, name) : TRUE

(* ALTER TABLE ... RENAME leaves the table in its schema.                  *)
RenamedTo(d, op) == Name(TheTable(d, op.from).schema, op.table.name)

AcceptsTableOp(d, op) ==
    CASE op.kind = "CreateTable" -> Placed(op.table) \notin DOMAIN d
      [] op.kind = "RenameTable" -> Resolve(d, op.from) # {} /\ RenamedTo(d, op) \notin DOMAIN d
      [] OTHER -> Resolve(d, op.table) # {}

Without(d, names) == F!Restrict(d, DOMAIN d \ names)
With(d, name, table) ==
    [k \in DOMAIN d \cup {name} |-> IF k = name THEN table ELSE d[k]]

TableOpEffect(d, op) ==
    CASE op.kind = "CreateTable" ->
            With(d, Placed(op.table), [shape |-> op.shape, data |-> Fresh])
      [] op.kind = "RenameTable" ->
            LET from == TheTable(d, op.from)
            IN With(Without(d, {from}), RenamedTo(d, op), d[from])
      [] op.kind = "AlterColumn" -> [d EXCEPT ![TheTable(d, op.table)].shape = op.shape]
      [] op.kind = "DropTable" -> Without(d, {TheTable(d, op.table)})

TablesOfExport(exported) ==
    LET placed == {Placed(n) : n \in DOMAIN exported}
        name(p) == CHOOSE n \in DOMAIN exported : Placed(n) = p
    IN [p \in placed |-> [shape |-> exported[name(p)], data |-> p]]

ExportedTables(d) ==
    LET exported(p) == IF ExportQualifies THEN p ELSE [p EXCEPT !.schema = NoSchema]
        origin(n) == CHOOSE p \in DOMAIN d : exported(p) = n
    IN [n \in {exported(p) : p \in DOMAIN d} |-> d[origin(n)].shape]
===============================================================================
