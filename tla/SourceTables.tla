------------------------------ MODULE SourceTables -----------------------------
(***************************************************************************)
(* The MySQL, SQLite and SQL Server dialects from SQL text to SQL text.    *)
(* Their parsers read the name of a CREATE TABLE and keep the statement    *)
(* itself as a hint; the normalizers fold names; core compares tables by   *)
(* name; to_sql prints the hint again; the adapters export what they find  *)
(* in the catalogue.                                                       *)
(*                                                                         *)
(* A name is a word, whether it is written in mixed case and whether it is *)
(* quoted.  A statement is [kind, name, from, body, refs]: the body tells  *)
(* two definitions apart, refs are the words of the tables it names, from  *)
(* is the annotation's old name.  A body is its meaning and whether the    *)
(* server has spelled it.                                                  *)
(***************************************************************************)
EXTENDS OpOrder
LOCAL F == INSTANCE Functions

CONSTANTS Dialect,       \* "mysql", "sqlite" or "mssql"
          Inputs         \* <<current, desired>> pairs of SQL texts

Match == INSTANCE TableMatch WITH SearchPath <- <<"main">>, ExportQualifies <- FALSE

-------------------------------------------------------------------------------
(* The parsers: the kinds of statements they convert.                      *)
MySqlParses == {"table", "view"}
SqliteParses == {"table"}
MsSqlParses == {"table"}
Parses == CASE Dialect = "mysql" -> MySqlParses
            [] Dialect = "sqlite" -> SqliteParses
            [] Dialect = "mssql" -> MsSqlParses

(* A text with any other statement is an error as a whole.                 *)
Parsed(text) == \A i \in DOMAIN text : text[i].kind \in Parses

(* Mutant: names stay as they are written.                                 *)
FoldedAsWritten(n) == n

(* normalize_ident, the same in the MySQL and the SQL Server normalizer:   *)
(* lower case, not quoted.                                                 *)
Folded(n) == [n EXCEPT !.mixed = FALSE, !.quoted = FALSE]

(* What normalize_identifier_case makes of the name of a table or a view;  *)
(* the SQLite normalizer leaves the names of tables alone.                 *)
MySqlName(n) == Folded(n)
MsSqlName(n) == Folded(n)
SqliteName(n) == n
Normalized(n) == CASE Dialect = "mysql" -> MySqlName(n)
                   [] Dialect = "mssql" -> MsSqlName(n)
                   [] Dialect = "sqlite" -> SqliteName(n)

(* normalize_object: the statement of the hint stays as it is.             *)
TheTables(text) ==
    LET tables == SelectSeq(text, LAMBDA s : s.kind = "table")
    IN [i \in DOMAIN tables |->
            [name |-> Match!Name(Match!NoSchema, Normalized(tables[i].name)),
             from |-> {Normalized(n) : n \in tables[i].from}, shape |-> tables[i]]]

TheViews(text) ==
    LET views == SelectSeq(text, LAMBDA s : s.kind = "view")
    IN [i \in DOMAIN views |-> [views[i] EXCEPT !.name = Normalized(@)]]

-------------------------------------------------------------------------------
(* The comparison: tables by their names alone, views as they are written. *)

(* Mutant: the current tables are not looked at.                           *)
TableOpsOfNew(new, old, drop) ==
    [i \in DOMAIN new |-> [kind |-> "CreateTable", source |-> new[i].shape]]

TableOps(new, old, drop) ==
    LET names == {old[i].name : i \in DOMAIN old}
        bare == [i \in DOMAIN new |-> [new[i] EXCEPT !.shape = "hint"]]
        ops == Match!CompareTables(bare, [n \in names |-> "hint"], drop)
        source(n) == (CHOOSE t \in F!Range(new) : t.name = n).shape
    IN [i \in DOMAIN ops |->
            IF ops[i].kind = "CreateTable"
            THEN [kind |-> "CreateTable", source |-> source(ops[i].table)]
            ELSE IF ops[i].kind = "DropTable"
            THEN [kind |-> "DropTable", name |-> ops[i].table.name]
            ELSE [kind |-> "RenameTable", from |-> ops[i].from.name,
                  table |-> ops[i].table.name]]

ViewOps(new, old, drop) ==
    LET Old(n) == {v \in F!Range(old) : v.name = n}
        New(n) == {v \in F!Range(new) : v.name = n}
        dropped == SelectSeq(old, LAMBDA v :
                        IF New(v.name) = {} THEN drop ELSE v \notin New(v.name))
        created == SelectSeq(new, LAMBDA v : v \notin Old(v.name))
    IN [i \in DOMAIN dropped |-> [kind |-> "DropView", name |-> dropped[i].name]]
       \o [i \in DOMAIN created |-> [kind |-> "CreateView", source |-> created[i]]]

(* Mutant: the table is rendered from the columns nobody has parsed.       *)
RenderTableEmpty(source) == [source EXCEPT !.body = [meaning |-> "empty", spelled |-> FALSE]]

(* render_table: without columns, keys and checks the hint is printed.     *)
RenderTable(source) == source

(* optimize_drop_create_view of the MySQL generator; the others have no    *)
(* views.                                                                  *)
Generate(plan) ==
    LET Fused(i) == /\ i < Len(plan)
                    /\ plan[i].kind = "DropView" /\ plan[i + 1].kind = "CreateView"
                    /\ plan[i].name = plan[i + 1].source.name
    IN SE!FlattenSeq([i \in DOMAIN plan |->
            IF i > 1 /\ Fused(i - 1) THEN <<>>
            ELSE IF Fused(i) THEN <<[plan[i + 1] EXCEPT !.kind = "ReplaceView"]>>
            ELSE IF plan[i].kind = "CreateTable"
            THEN <<[plan[i] EXCEPT !.source = RenderTable(@)]>>
            ELSE <<plan[i]>>])

Comparable(new, old) == Parsed(new) /\ Parsed(old)

Diff(new, old, drop) ==
    Generate(SortDiffOps(TableOps(TheTables(new), TheTables(old), drop)
                         \o ViewOps(TheViews(new), TheViews(old), drop)))

-------------------------------------------------------------------------------
(* The database is the set of its objects.  MySQL tells names of different *)
(* case apart (lower_case_table_names = 0), SQLite and SQL Server do not.  *)

Same(m, n) == m.word = n.word /\ (Dialect = "mysql" => m.mixed = n.mixed)
Objects(d, n) == {o \in d : Same(o.name, n)}
Words(d) == {o.name.word : o \in d}
ChecksReferences == Dialect # "sqlite"

(* A view is stored in the server's own spelling.                          *)
StoredAs(s) ==
    [kind |-> s.kind, name |-> s.name, refs |-> s.refs,
     body |-> IF s.kind = "view" THEN [s.body EXCEPT !.spelled = TRUE] ELSE s.body]
DatabaseOf(text) == {StoredAs(s) : s \in F!Range(text)}

(* The names of a catalogue are quoted; SQLite keeps the text of CREATE    *)
(* TABLE and quotes the new name of a renamed table in it.                 *)
Spelled(n) == IF Dialect = "sqlite" THEN n ELSE [n EXCEPT !.quoted = TRUE]
AsText(o) == [kind |-> o.kind, name |-> Spelled(o.name), from |-> {}, body |-> o.body, refs |-> o.refs]

(* export_schema of the three adapters: the kinds they print, in order.    *)
MySqlExports == <<"table", "view", "trigger">>
SqliteExports == <<"table", "view", "index", "trigger">>
MsSqlExports == <<"table">>
Exports == CASE Dialect = "mysql" -> MySqlExports
             [] Dialect = "sqlite" -> SqliteExports
             [] Dialect = "mssql" -> MsSqlExports
Exported(d) ==
    SE!FlattenSeq([i \in DOMAIN Exports |->
        SE!SetToSeq({AsText(o) : o \in {p \in d : p.kind = Exports[i]}})])

Accepts(d, s) ==
    CASE s.kind = "CreateTable" ->
            /\ Objects(d, s.source.name) = {}
            /\ ChecksReferences => s.source.refs \subseteq Words(d) \cup {s.source.name.word}
      [] s.kind = "RenameTable" -> Objects(d, s.from) # {} /\ Objects(d, s.table) = {}
      [] s.kind = "CreateView" ->
            Objects(d, s.source.name) = {} /\ s.source.refs \subseteq Words(d)
      [] s.kind = "ReplaceView" -> s.source.refs \subseteq Words(d)
      [] OTHER -> Objects(d, s.name) # {}

Effect(d, s) ==
    CASE s.kind \in {"CreateTable", "CreateView"} -> d \cup {StoredAs(s.source)}
      [] s.kind = "ReplaceView" -> (d \ Objects(d, s.source.name)) \cup {StoredAs(s.source)}
      [] s.kind = "RenameTable" ->
            {IF Same(o.name, s.from) THEN [o EXCEPT !.name = [s.table EXCEPT !.quoted = TRUE]] ELSE o : o \in d}
      [] OTHER -> d \ Objects(d, s.name)

VARIABLES current, desired, enableDrop, ops, db, pc

(* The run reads the database through the export, PlanRun's current is the *)
(* text the database was made from.                                        *)
ComparableRun(new, old) == Comparable(new, Exported(DatabaseOf(old)))
DiffRun(new, old, drop) == Diff(new, Exported(DatabaseOf(old)), drop)

INSTANCE PlanRun WITH Comparable <- ComparableRun, Diff <- DiffRun

-------------------------------------------------------------------------------
(* Properties                                                              *)

(* A plan that runs to its end leaves every desired object, defined as the *)
(* text defines it, and with enable_drop no others.                        *)
AppliedMatchesDesired ==
    pc = "done" =>
        /\ \A s \in F!Range(desired) : \E o \in Objects(db, s.name) :
                o.kind = s.kind /\ o.body.meaning = s.body.meaning
        /\ enableDrop => \A o \in db : \E s \in F!Range(desired) : Same(o.name, s.name)

(* A second run finds nothing to do.                                       *)
SecondRunIsEmpty ==
    pc = "done" => Comparable(desired, Exported(db)) /\ Diff(desired, Exported(db), enableDrop) = <<>>

(* The database refuses nothing.                                           *)
PlanAccepted == pc # "rejected"
===============================================================================
