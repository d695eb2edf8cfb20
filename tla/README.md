# stateql: a TLA+ model

stateql reads a desired schema, exports the current one from a database, and
applies the difference. This directory models what decides which statements
reach a database, in which order, and what they leave behind: the run of the
tool with its executor, the comparison of every kind of object, the order of a
plan, and those parts of the four dialects that do more than print. TLC checks
the models on small instances (`PROJECT.json`, `runs`); TLAPS proves the central
properties of the executor, of the sort, of the plans for tables with keys and for
views, of the comparison of everything else, of runs of the tool and of the test
runner for every value of the constants (`theorems`).

Paths below are relative to `src/crates/`.

## The system

One process, one thread, one database connection, no asynchronous code.
`Orchestrator::run` (core/src/orchestrator.rs) is a straight pipeline that stops
at the first error:

    connect -> export_schema -> extract annotations, parse, normalize (current, desired)
            -> diff_with_diagnostics -> generate_ddl -> execute_plan | render

| component | state | operations | what is hard | what makes it correct |
|---|---|---|---|---|
| plan executor, `Transaction` (core/src/executor.rs, adapter.rs) | position in the plan, group start, last statement, count of executed statements; the open transaction | dispatch a statement, begin, execute, commit, drop | an error, a lost answer or a crash at any step; databases that commit DDL by themselves | groups are atomic and in order; the error locates the failure; nothing stays open; Ok means everything is committed |
| operation ordering (core/src/ordering.rs) | dependency counters, ready set, output | priority groups, `topological_sort`, order inside a table | cycles; ties; one fixed order for all kinds | dependencies first, nothing lost, ties in original order |
| table comparison, key cycles (core/src/diff/compare.rs, cycle.rs) | matched tables, planned operations | create, drop, rename, compare a table, its columns, checks and indexes; move keys off cycles | mutual references, matches that compete, owners that are renamed | the plan is accepted, reaches the desired schema, keeps the data, and a second run is empty |
| view comparison (core/src/diff/view_rebuild.rs, compare_remaining.rs) | rebuild set, drop and create order | compare views, close over dependents | dependents of dependents, views that come or go at the same time | the same, and no view is rebuilt without need |
| enable_drop (diff/enable_drop.rs, constraint_pairing.rs) | two plans | plan with and without drops, report the difference | duplicates, pairs that must not be split | nothing is lost without the flag, what is skipped is reported, once |
| names and renames (diff/name_resolution.rs, rename.rs) | matched names | exact, search path, rename match | three kinds of match competing for one object; annotations that outlive their rename | an object is matched at most once, by the right one |
| other objects (compare_remaining.rs, policy.rs, privilege.rs, partition.rs) | planned operations | compare types, functions, triggers, policies, grants, partitions... | drop-and-create with drops disabled; changes in place under data | convergence; what both schemas have is not taken away in between |
| orchestrator, command line (orchestrator.rs, cli/src/main.rs) | mode, adapter, plan | run, export | schema changed between export and execution; rerun after a failure | only `--apply` writes; a rerun completes what a failure left |
| annotations (annotation.rs and the parsers' splitters) | pending comments | extract, attach | several readers with different ideas of a text | a rename belongs to the object it is written at, or the run fails |
| dialects (dialect-*) | none, but for the connection | parse, normalize, generate_ddl, export | batches of changes, table rebuild, batch boundaries, what the parser does not read | from text to text: what is applied is what was written, and is recognised afterwards |
| renderer (renderer.rs) | none | print a plan as a script | separators; the transaction an apply has and a script has not | the script does what the apply does, and is refused when that is |
| test kit (testkit/src/yaml_runner.rs) | step of a case, database | run a case online or offline | a tool that is asked about itself | a defect fails a case, and a working tool does not |

The components share no mutable state: each hands an immutable vector to the
next (objects, operations, statements). The only state two of them see is the
database, which `export_schema` reads and `execute_plan` changes with no lock in
between.

What is modelled of each component:

| component | modules | status |
|---|---|---|
| plan executor and Transaction handle | `Statements`, `PlanExecution`, `DbSession`, `Executor`, `ExecutorProofs` | modelled: Every step of execute_plan, its groups, errors and the drop of an uncommitted Transaction, with connection loss and process death; the database session is an external module. The SQL text and the StatementContext carried by errors are abstracted by the statement's index. |
| operation ordering | `DependencyOrder`, `KahnSort`, `KahnSortProofs`, `OpOrder`, `PlanRun`, `FkPlanning`, `ViewPlanning`, `ObjectDiff`, `DataLemmas`, `Comparison` | modelled: topological_sort step by step, its result as an operator, the dependency sorts of CREATE TABLE and CREATE VIEW, every priority group and the order inside a table (OpOrder). Tags are stood for by the operation's kind. |
| table comparison and foreign-key cycles | `TableMatch`, `TableDiff`, `ColumnDiff`, `IndexDiff`, `FkPlanning`, `FkPlanningProofs`, `Comparison`, `ComparisonProofs` | modelled: Matching, renames, columns, checks, indexes and their owners, foreign keys and both cycle fallbacks, each with the database that accepts or refuses the plan. The four parts are checked apart, not in one product. |
| view comparison and rebuild | `ViewPlanning`, `ObjectDiff`, `ViewPlanningProofs` | partly: compare_views with its rebuild closure and both topological orders, and the CREATE OR REPLACE shortcut of the generators. Materialized views are compared as one of the kinds of ObjectDiff; the token scan is modelled by what it finds. |
| enable_drop diagnostics | `OpOrder`, `ColumnDiff`, `Privileges`, `Comparison`, `ComparisonProofs` | modelled: The multiset difference of the plans with and without drops, the pairing of constraint changes and the kinds that are reported. |
| name, rename and search-path resolution | `TableMatch`, `IndexDiff` | modelled: The candidates of a qualified and of an unqualified name, tables, owners of indexes and their annotations. Identifiers are compared by the key of name and quoting. |
| comparison of the remaining objects | `ObjectDiff`, `AlterObjects`, `EquivalencePolicy`, `Comparison`, `ComparisonProofs` | modelled: Creation, drop and recreation of every kind of object with the uses between them, the in-place changes of sequences, types and domains with their constraints, and the equivalence policies. Attributes of an object are one model value. |
| privilege and partition comparison | `Privileges`, `Partitions`, `PgPartitionText`, `Comparison`, `ComparisonProofs` | modelled: Pairing and difference of privileges by key, partitions by name, with a database that revokes and overlaps like PostgreSQL. |
| orchestrator | `Orchestrator`, `OrchestratorProofs` | modelled: The three modes with their reads and writes, another session, a broken connection and reruns. Statements are the single differences of the two schemas. |
| rename annotations | `Annotations` | modelled: Extraction line by line, the parsers' attachments, and attach_annotations with its fail-fast order, on texts of lines; the syntax inside an annotation is one flag. |
| PostgreSQL dialect | `ViewPlanning`, `AlterObjects`, `Partitions`, `PgColumns`, `PgPartitionText`, `PgTypes`, `Privileges` | partly: The parser and the normalizer for columns, types, partitions and identity, and the generator of tables, columns, enum values, partitions, privileges and views, with the server that executes it. Rendering of structured expressions and the catalogue queries are not modelled. |
| MySQL dialect | `MySqlBatch`, `SourceTables`, `EquivalencePolicy`, `ViewPlanning`, `DbSession` | partly: The merged CHANGE COLUMN batches, the parser that keeps statements as text with the folding of names, the export, the equivalence policy and the view shortcut. Printing of columns is not modelled: the parser never fills them. |
| SQL Server dialect | `MsSqlScript`, `SourceTables`, `EquivalencePolicy` | partly: The generator with its batch boundaries and unsupported operations, the parser that keeps statements as text, the normal forms of names, the export of tables and the equivalence policy. Printing of columns is not modelled. |
| SQLite dialect | `SqliteRebuild`, `SourceTables`, `Annotations` | partly: The rebuild with its rows, crashes and refused statements, the parser that keeps statements as text and splits them, and the export. Printing of expressions is not modelled. |
| renderer | `MsSqlScript`, `Orchestrator` | partly: Where render puts the batch separator, and the script it makes run batch by batch. The text of headers and diagnostics is left out. |
| schema IR, errors and plan container | - | not modelled: Type definitions and their constructors: no operation of theirs changes state; the modules use their shapes. |
| SQL parsers, printers and catalogue queries | `SourceTables`, `PgColumns`, `PgTypes`, `PgPartitionText`, `Annotations` | partly: What the parsers keep of a statement, where it begins and which line it is attached to. The grammar is that of external crates; the printers of structured expressions and the catalogue queries are conversions of text without control of their own. |
| command line | `Orchestrator` | partly: The choice of mode from the arguments and its default (dry run). The reading of files and the printing of errors are not modelled. |
| test kit | `YamlRunner`, `YamlRunnerProofs` | partly: The online and the offline flow of a case with the version gate, expected errors and flavors. Reading of files and the bookkeeping of the migration manifests are not modelled. |

## Modules

The comparing modules have one shape. `PlanRun` is a run of the tool with the
comparison as a parameter: `Diff` computes the plan of an exported and a desired
schema in one step (it is a pure function), `Apply` performs one operation on the
database, `Reject` is the one the database refuses, `Fail` an error before
anything is executed. A module instantiates it with its own
comparison, its order of operations (from `OpOrder`) and a database (`Accepts`,
`Effect`) that says when a server takes an operation and what becomes of the
data. The properties have the same names in all of them:

- `AppliedMatchesDesired`: after a successful run the database is as desired;
- `SecondRunIsEmpty`: the plan from the export of what the run left is empty;
- `PlanAccepted`, or `Only...Refused` where the code knowingly plans what the
  server refuses (the new form of an object whose old form it may not drop):
  nothing else fails;
- `NothingLostWithoutDrop`, `SkippedAreReported`: without `--enable-drop` nothing
  goes, and what was left out is reported;
- `DataFollowsRenames`, `ValuesSurviveStep`, `SharedPartitionsStay`,
  `RowKeepsItsLabel`, `SharedStayGranted`, `UnchangedNotRebuilt`: on the way there
  what both schemas have is kept.

`Comparison` puts the comparing modules side by side (`MCComparison` has its
inputs), `MCDialects` the dialects: their variable `part` says which module a behaviour
is of, an initial state is an initial state of that module with the inputs of
its family, a step is a step of it, and a property of the whole says of each
part what that part's property of this meaning says. `SharedIsKept` is
`UnchangedNotRebuilt`, `SharedStayGranted` and `SharedPartitionsStay`;
`OnlyReplacementsRefused` and `OnlyKnownRefused` are the `Only...Refused`
and `PlanAccepted`; `RerunFindsTheRest` is `SecondRunIsEmpty`,
`SameTypeIsLeftAlone` and `RerunCompletes`; `UnchangedStays` is
`UnreadAttributesStay`, `SharedPartitionsStay` and `RespelledStaysEquivalent`.

| module | models | built on |
|---|---|---|
| `Statements` | a generated plan, its groups and commit points (core/src/statement.rs) | |
| `PlanExecution` | abstract: what applying a plan promises | `Statements` |
| `DbSession` | external: one database session, with or without transactional DDL, whose answers may be lost and whose ROLLBACK may be refused | |
| `Executor` | core/src/executor.rs, core/src/adapter.rs | `Statements`, `DbSession`; implements `PlanExecution` |
| `Orchestrator` | cli/src/main.rs, core/src/orchestrator.rs, with another session and reruns | `Statements`; its execution is `PlanExecution` |
| `PlanRun` | one run of a comparison against a database | |
| `DependencyOrder`, `KahnSort` | what `topological_sort` returns; its loop | `KahnSort` on `DependencyOrder` |
| `OpOrder` | the priority groups and the order inside a table (core/src/ordering.rs); what a plan leaves out (enable_drop.rs) | `DependencyOrder` |
| `TableMatch` | name_resolution.rs and rename.rs; `compare_tables` | `OpOrder` |
| `TableDiff`, `IndexDiff` | tables, and indexes with their owners, through a run | `TableMatch`, `PlanRun` |
| `ColumnDiff` | columns and checks of a table that holds data, with constraint_pairing.rs | `OpOrder`, `PlanRun` |
| `FkPlanning` | cycle.rs, foreign keys of new, kept and dropped tables, and a database that enforces them | `DependencyOrder` |
| `ViewPlanning` | view_rebuild.rs, `compare_views`, the view shortcut of `generate_ddl` | `OpOrder` |
| `ObjectDiff` | every other kind of object and the uses between kinds | `OpOrder`, `PlanRun` |
| `AlterObjects` | enums, sequences and domains changed in place | `OpOrder`, `PlanRun` |
| `Privileges` | privilege.rs, GRANT and REVOKE | `OpOrder`, `PlanRun` |
| `Partitions` | partition.rs, folding of children, their statements | `OpOrder`, `PlanRun` |
| `PgColumns`, `PgTypes`, `PgPartitionText` | PostgreSQL columns, types and bounds from text to server and back | `ColumnDiff`, `Partitions`, `PlanRun` |
| `MySqlBatch` | the batches and CHANGE COLUMNs of the MySQL generator | `ColumnDiff`, `PlanRun` |
| `SqliteRebuild` | the shadow-table rebuild, with rows and crashes | `ColumnDiff` |
| `MsSqlScript` | the SQL Server generator and the renderer: a plan sent and the same plan printed | |
| `SourceTables` | MySQL, SQLite and SQL Server, whose parsers keep tables as text | `TableMatch`, `PlanRun` |
| `EquivalencePolicy` | equivalence.rs of the four dialects | |
| `Annotations` | annotation.rs with the splitters and parsers | |
| `YamlRunner` | testkit/src/yaml_runner.rs | |
| `Comparison` | the comparing modules side by side, over any inputs | the modules above |
| `MCDialects` | the dialects side by side, with their inputs | the modules above |
| other `MC...` | inputs and bounds for TLC | |
| `DataLemmas` | induction, recursion, orders and closures, stated with sets and functions; the order of a plan and the report of what it leaves out | `OpOrder` |
| `ExecutorProofs`, `KahnSortProofs`, `FkPlanningProofs`, `ViewPlanningProofs`, `ComparisonProofs`, `OrchestratorProofs`, `YamlRunnerProofs` | theorems about the module of the name | that module, `DataLemmas` |

### Executor and Orchestrator

A statement is its position in the plan and its kind: `"tx"`, `"nontx"` or
`"boundary"`. One action is one round trip to the database with the Rust code up
to the next round trip. `pc` says which function runs: `"dispatch"` is the loop
of `execute_plan`, `"group"` is `execute_transactional_group`, `"unwind"` is the
propagation of an error out of it, in which the `Transaction` is dropped.
`index`, `cursor`, `last`, `executed` are the code's variables (counted from 1).
`report` is the `StatementFailed` error. Each request has three outcomes:
acknowledged, refused (after which the server may have rolled back by itself),
and lost with the connection, performed or not. `LoseConnection` and `Crash`
may come between any two steps; a crash may overtake a request in flight.
The ROLLBACK of a dropped `Transaction` may be refused as well (`DbRollbackFails`),
which the code does not look at: `rollback` remembers it, and `NothingLeftOpen`
says that this is the only way to leave something open, and never with an Ok.
`AutoCommitDDL` chooses the kind of server. The executor does not know which
one it talks to.

`PlanExecution` is the contract: the durable part of the plan grows by one unit
at a time (a non-transactional statement or a whole group), in order, and after
a failure at most the unit in flight took effect unacknowledged. `Executor`
implements it (checked and proved). `Orchestrator` uses it: its runs execute
their plan by `PlanExecution`, so the composition of the two is the run of the
whole tool. There the export reads one object per step, another session may
change the schema between any two steps, the connection may break and the
process may be killed; the operator starts another run after each. DROP TABLE
takes the indexes of the table along (`OwnerOf`), also one that another session
has made since the export: `UnseenGoesOnlyWithItsTable` says that this is the only
way a run removes what it has not seen, and that it never alters any of it.

### Order and names

`KahnSort` is the loop of `topological_sort` with its counters, its ready set (a
`BTreeSet`, hence smallest first) and its fallback for cycles; `DependencyOrder`
says what it should return. `OpOrder` gives an operation its priority group, its
table and its sub-priority, and sorts as the code does, stably. It also has the
report of a run without `--enable-drop`: the engine makes the plan with it too
and reports which destructive operations only that plan has.

`TableMatch` has the three ways to find a counterpart (`Candidates`,
`ResolveQualified`, `ResolveRename`); the order in which they are tried, and
whether a match asks if the counterpart is taken, is in `MatchTable` and in
`IndexDiff`, where the code has it. Names are `[schema, name]`;
the database resolves unqualified names by the same search path.

### What is compared

`TableMatch` reduces a table to its shape, `ColumnDiff` looks inside one table,
`FkPlanning` at the keys between tables, `IndexDiff` at indexes whose tables are
renamed: the code treats them one after the other on shared vectors, and a
product of all would not be finite enough to check. An expression is its value
and whether the server has spelled it, because that is what differs between a
file and an export. `ObjectDiff` gives each kind at most one object, with a part
that can be altered and one that cannot, and the kinds it uses: what it asks is
whether one fixed order of the kinds can serve all of these uses. A comment may
be one without text, which stands for no comment on both sides (`There`). `Privileges`
and `Partitions` have their servers' rules: REVOKE takes the option along,
partitions must not overlap.

### From text to text

`PgColumns`, `PgTypes` and `PgPartitionText` follow one column, type or bound
from the file through parser, normalizer, comparison and generator to the
server, and through the export back: what the parser does not read is lost on
one side or on both, and the properties tell the two apart. `SourceTables` does
the same for the three dialects that keep a CREATE TABLE as text. In `Annotations`
a text is a sequence of tokens that three scanners read. `EquivalencePolicy` reads
expressions character by character, since nothing coarser has the quotes it is
about. `MsSqlScript` sends one plan twice, statement by statement in the one
transaction that the executor opens for it (`applied` is what the session sees,
`committed` what stays; a refused statement undoes all of it), and batch by batch
as the script the dry run prints, run with `sqlcmd -b`, each statement committing by
itself. One is refused exactly when the other is. If neither is, they leave the same
database; otherwise the apply leaves it as it was and the script what the
operations before the refused one do.

`SqliteRebuild` executes the statements of a rebuild one at a time with the rows
they copy, in one transaction, and crashes anywhere. The CAST of the copy is
SQLite's (`Converted`): a fraction loses its part behind the point in an integer
column, and a text that is no number becomes zero. A value must therefore stay
exactly where the type stays or the new type can hold it (`Fits`), and
otherwise there must be a value that fits. `MySqlBatch` prints NOT NULL and DEFAULT
as the generator does, each from its own change, and its server refuses NOT NULL
DEFAULT NULL, where the code then fails (see the limits). It has no
transaction: each of its statements commits, and a run that was cut off is
followed by another (`RerunCompletes`).

### YamlRunner

The flow of a case is its eight steps. The tool under test is a comparison with
at most one defect (a change it does not see, a statement of no effect, an
export that shows another version, a statement the server refuses): what the
runner makes of each is the question.

## Runs

10 runs pass:

| run | module | what it shows | properties |
|---|---|---|---|
| `executor_transactional` | `MCExecutor` | Every plan of up to six statements on a database with transactional DDL, with errors, lost connections and crashes at every point: groups are atomic, the report locates the failure, the executor implements PlanExecution and always returns. | DurableAtCommitPoint, SuccessIsComplete, ReportLocatesFailure, NothingLeftOpen, Terminates, ImplementsPlanExecution |
| `executor_autocommit` | `MCExecutor` | The same plans on a database that commits DDL implicitly: what survives there is plan order and an exact count of executed statements. | EffectsFollowPlanOrder, ExecutedCountIsDurable |
| `kahn_sort` | `KahnSort` | topological_sort on every dependency graph of four entries, cyclic ones included: dependencies first, nothing lost, only cycles fall back to the original order, and the counters compute the declared order. | DependenciesFirst, EveryEntryOnce, OnlyCyclesAreLeft, ComputesTopologicalSort |
| `fk_planning` | `MCFkPlanning` | All pairs of schemas of three tables whose kept tables keep their foreign keys: creating cyclic tables works, nothing but the drop of a table is refused, the plan reaches the desired schema. | OnlyDropTableRefused, AppliedMatchesDesired, NamedCyclesAreBroken |
| `view_planning` | `MCViewPlanning` | All pairs of acyclic schemas of three views that keep their columns, and a view over a fixed one with gained columns and with reads the scan misses: the rebuild set is closed, ordered, no larger than needed, and the plan reaches the desired views. | RebuildAccepted, AppliedMatchesDesired, UnaffectedStayInPlace |
| `comparison` | `MCComparison` | Every kind of object the engine compares, with and without enable_drop, against a database that accepts or refuses each operation: tables found through names, search path and annotations, columns and checks, indexes and their owners, all other objects with the uses between them, in-place changes of types, sequences and domains, privileges, partitions, and the report of what a plan leaves out. | AppliedMatchesDesired, SecondRunIsEmpty, DataFollowsRenames, NothingLostWithoutDrop, SharedIsKept, OnlyReplacementsRefused, SkippedAreReported |
| `dialects` | `MCDialects` | From text to text in the four dialects: columns, types and partition bounds as PostgreSQL's parser, normalizer, generator and server read them, tables kept as text in the other three, MySQL's batches of changes with a run cut off inside them, SQLite's rebuild with rows, conversions and crashes, SQL Server's plans in one transaction and as scripts in batches, and the equivalence policies. | AppliedMatchesDesired, RerunFindsTheRest, OnlyKnownRefused, UnchangedStays, ScriptMatchesApply, ChangeIsSeen, RebuildKeepsValues, RebuildIsAtomic |
| `orchestrator` | `MCOrchestrator` | Every command line against every database of three objects, with another session that changes it twice and a connection that breaks twice: only an apply writes, what no export saw goes only with its table, and an operator who reruns the apply gets the desired schema. | WritesOnlyWhatIsAsked, UnseenGoesOnlyWithItsTable, Converges |
| `annotations` | `MCAnnotations` | Texts of two and three statements in eleven layouts, for the four dialects: an annotation marks the object it is written at or the text is refused. | MarksAreWhereWritten, OnlyCommentsChange |
| `yaml_runner` | `MCYamlRunner` | Test cases over two objects, tools with and without a defect, servers inside and outside the range of a case, a connection that may break: a case that passes is earned, and a tool without defect is never blamed and runs on exactly the servers in range. | PassedIsEarned, WorkingToolIsNotBlamed |

Bounds. Six statements allow two groups separated by a non-transactional
statement with a boundary anywhere, and a failure in the first, the middle or
the last statement of each; nothing in the executor depends on more. The sort is
local in the entry it takes: four entries give a cycle, an entry behind it, one
before it and ties. Three tables or views give a cycle longer than two, a
dependent of a dependent, and an object outside both. The comparisons match
pairs: two objects on a side with three names give a match by name, a match by
annotation, one that appears and one that goes at
the same time. Values of a column, a label or a bound are as many as tell kept,
changed and reused apart; those of SQLite's rows (`Data`) are NULL, an integer, a
fraction and a word, one for each thing CAST does. One row (`Ids`) is enough there:
no statement of a rebuild makes a row depend on another. `Orchestrator` has three objects, one of which
needs another and one of which is made by a non-transactional statement, two
changes of another session (made and unmade) and two faults (a failed rerun of a
failed run). Test cases have two objects, so that a defect may sit in the one
that changes or in the other.

Where a family of inputs leaves a case out, its comment in the `MC` module says
`Not:` with the line of code concerned, and the table of limits below says what
the code does there. Everything else of that size is in: with and without
`enable_drop`, in any order, with anything that appears, goes, stays or changes.

Fairness. `Executor` states weak fairness of the program's own steps: a
sequential thread that runs, and a database that answers each request, with an
error if need be. The code sets no timeout, so a server that never answers
blocks it; the model does not claim otherwise. `Orchestrator` adds that the
operator starts another run when one has ended: `Converges` is about reruns, and
without an operator there are none. It says that if from some point on the
operator only applies with drops allowed, the database comes to the desired
schema and stays there; `FullRun` is this operator, and no fairness makes one of
him. Nothing is assumed about crashes, connection loss, the other session or the
choice between answers; their number is bounded, so that there is a last one.

Deadlock is not checked in `annotations`, whose behaviours end when the text is
read. Everywhere else the end of a run is a step of its own (`Terminated`,
`Done`, `NothingToLeaveOut`), and a state without a step is an error.

Every property of a passing run is shown to be able to fail: `PROJECT.json`
names, for each, mutants of the code's definitions (in the modules, marked
`Mutant`) that violate it, for a property of `comparison` or `dialects` one in
each part that has something to say about it.

## Where the code and its documents disagree

2 runs end in a violation of something a document says; `findings` in
`PROJECT.json` quotes both sides.

| run | where | what happens |
|---|---|---|
| `executor_autocommit_rollback` | core/src/executor.rs:67 | With implicit commits the rollback of a failed group undoes nothing. The executor opens one transaction per group and drops it on failure, and the MySQL generator marks every statement transactional (src/crates/dialect-mysql/src/generator.rs:710), but a server that commits DDL implicitly has nothing to roll back: the statements of the failed group that already ran stay applied. |
| `sqlite_kept_column` | dialect-sqlite/src/generator.rs:275 | SQLite: one of two columns of a table is altered, and the rebuild loses the other. The shadow table has only the columns the operations alter, each with only what they set: the column that stays as it is, and its values, are gone. |

The other limits of the code. Each was met as a counterexample while the
families and the properties were written. The families leave these cases out
(`Not:`) or the property makes an exception for them, so that everything else
can be checked together; a family that admits one of them shows it again.

| module | where | what the code does, and what is written |
|---|---|---|
| FkPlanning | core/src/ordering.rs:110 | sort_diff_ops sorts CREATE TABLE and CREATE VIEW by dependency and leaves every other group, DropTable included, in the order of the operations, so of two tables the referenced one may be dropped first. DESIGN.md:1302 says "Priority 6:  DropTable         — sorted by reverse FK dependency order". |
| FkPlanning | core/src/diff/compare.rs:159 | compare_table compares the columns, checks and partition of a table present in both schemas and never its foreign keys: a key added to or removed from an existing table yields an empty plan. README.md:3 says "Define your desired schema in SQL, and stateql computes the minimal DDL to migrate your database to match." |
| ViewPlanning | core/src/diff/compare_remaining.rs:273 | Views found only in the database are dropped in the order the export lists them, and sort_diff_ops keeps it: a view may be dropped before the view that reads it. DESIGN.md:1296 says "-- Drop phase (reverse dependency order) --". |
| ViewPlanning | dialect-postgres/src/generator.rs:57 | A DROP VIEW next to the CREATE VIEW of the same name becomes CREATE OR REPLACE VIEW whatever the columns of the two are: the columns of the old view are not looked at. DESIGN.md:1146 says "If existing columns are removed or their types change, the dialect falls back to `DROP VIEW` + `CREATE VIEW`." |
| ViewPlanning | core/src/diff/view_rebuild.rs:205 | extract_relation_references finds only the token after FROM, JOIN and the like, so a view named after a comma is no dependency: its readers are left out of the rebuild set and the DROP is refused. DESIGN.md:1150 says "the **diff engine** computes the transitive closure of dependent views and emits explicit `DropView`/`CreateView` ops for the full rebuild set". |
| TableDiff | core/src/diff/compare.rs:414 | table_renamed_from_key looks the old name up in the schema written before the new one and, without one, in none, although the search path resolves every other unqualified name: on an export with schemas in its names an annotated unqualified table is created empty beside the old one. docs/adr/0006-explicit-rename-annotations.md:29 shows "CREATE TABLE new_name (  -- @renamed from=old_name" as a table rename. |
| TableDiff | core/src/diff/compare.rs:102 | A desired table with the old name is matched exactly before the renamed one asks for it and the exact match does not look whether the table is taken: both match one current table, or the rename is planned over a name in use. README.md:3 says "stateql computes the minimal DDL to migrate your database to match". |
| ColumnDiff | core/src/diff/compare.rs:189 | The column with the old name is matched by its name before the renamed one asks for it, or the other way round in the order of the columns, and the rename is planned over a name that is still in use or the new column is never added. README.md:3 says "stateql computes the minimal DDL to migrate your database to match". |
| ColumnDiff | core/src/diff/compare.rs:444 | column_changes compares type, nullability and default only; a change of identity, generated expression or collation yields an empty plan. DESIGN.md:1343 says "22c: AlterColumn         — type, nullability, default, identity, generated, collation". |
| ColumnDiff | core/src/diff/compare.rs:391 | map_named_checks leaves unnamed checks out, so they are neither added, replaced nor dropped on an existing table. DESIGN.md:1284 says "For unnamed constraints (common in CHECK), matching falls back to same-table, same-kind, and the diff engine confirms only one constraint of that kind is being dropped and one added". |
| ColumnDiff | core/src/ordering.rs:219 | table_sub_priority puts every DropColumn of a table before every DropCheck: a column a current check reads is dropped while the check is there, and a database that refuses this stops the plan. DESIGN.md:1293 says "The diff engine sorts operations into a fixed priority order, with dependency-based sorting within each priority group". |
| IndexDiff | core/src/diff/compare.rs:366 | Indexes found through the search path are compared with their owners as written: an owner without its schema differs from the exported one and the index is dropped and built again on every run. DESIGN.md:1220 says of the search path "Used for matching unqualified names against qualified names". |
| IndexDiff | core/src/diff/compare.rs:306 | The key of an index contains its owner, so an index of a renamed table matches nothing: it is created under a name the database still has on the renamed table. README.md:3 says "stateql computes the minimal DDL to migrate your database to match". |
| IndexDiff | core/src/diff/compare.rs:366 | A stale annotation of an index makes it unequal to the exported one, which never has any: the index is dropped and built again by a second run. DESIGN.md:44 says "Declarative schema management with idempotent DDL generation". |
| ObjectDiff | core/src/ordering.rs:118 | DropComment comes with SetComment after everything else, when the table it comments on has been dropped. DESIGN.md:1296 says "-- Drop phase (reverse dependency order) --" of the first twelve priorities, DropComment is in the twenty-ninth. |
| ObjectDiff | core/src/ordering.rs:118 | CreateTrigger and CreateFunction share a group in which the order of the comparison stays, triggers first: the trigger calls a function that is not there yet. DESIGN.md:1310 says "-- Create / Alter phase (dependency order) --". |
| ObjectDiff | core/src/ordering.rs:118 | DropType comes before DropFunction: a type is dropped while a function uses it. DESIGN.md:1296 says "-- Drop phase (reverse dependency order) --". |
| AlterObjects | dialect-postgres/src/generator.rs:269 | ALTER TYPE ... ADD VALUE is a transactional statement of the same group as the ALTER COLUMN that uses the value, which PostgreSQL refuses before the commit. DESIGN.md:1314 says "AlterType         — e.g., ADD VALUE to enum, must precede column changes using new value". |
| AlterObjects | core/src/diff/compare_remaining.rs:880 | append_domain_constraint_changes leaves the drop of a constraint out without enable_drop, and AlterDomain is no suppressed kind, so nothing is reported. DESIGN.md:1265 says "the diff engine **does not emit** DROP-category or REVOKE operations. Instead, it returns them as diagnostics". |
| Privileges | dialect-postgres/src/generator.rs:1122 | The loss of the grant option is planned as a Revoke of the operations with the option set, and render_revoke prints REVOKE without GRANT OPTION FOR: the privilege itself is taken away. DESIGN.md:786 says "It does **not** revoke all and re-grant — this avoids disrupting active sessions that hold existing privileges". |
| Privileges | core/src/diff/privilege.rs:114 | Two privileges of one key are paired by their place in the lists, so a change of the order revokes and grants. DESIGN.md:776 says "Privileges are matched by the composite key `(on, grantee)`". |
| Partitions | core/src/diff/partition.rs:53 | compare_partition_updates goes through the desired elements by name and adds each before the elements that are gone are dropped: a new partition overlaps one that is still there. README.md:3 says "stateql computes the minimal DDL to migrate your database to match". |
| Partitions | core/src/diff/compare.rs:128 | compare_tables plans CreateTable for a new table and nothing for the partitions the normalizer moved into it. DESIGN.md:844 says "The dialect normalizer represents partition children as `PartitionElement` entries within the parent table's `Partition`, not as separate `SchemaObject::Table` values". |
| Partitions | core/src/diff/partition.rs:40 | A new partition key is planned as the drop and the creation of the partitions; the parent keeps the old key. README.md:3 says "stateql computes the minimal DDL to migrate your database to match". |
| Partitions | dialect-postgres/src/parser.rs:324 | The DEFAULT bound becomes no bound in the schema and the generator prints PARTITION OF without one, which PostgreSQL refuses. README.md:3 says "stateql computes the minimal DDL to migrate your database to match". |
| SqliteRebuild | dialect-sqlite/src/generator.rs:197 | Without an altered column the shadow table is CREATE TABLE AS SELECT * of the old one: the column that is to be dropped is there, NOT NULL and the defaults are not. DESIGN.md:1378 says "CREATE TABLE _new_t (... desired columns and constraints ...)". |
| SqliteRebuild | dialect-sqlite/src/generator.rs:311 | AddCheck starts a rebuild whose shadow table has no constraint. DESIGN.md:1378 says "CREATE TABLE _new_t (... desired columns and constraints ...)". |
| SqliteRebuild | dialect-sqlite/src/generator.rs:256 | DROP TABLE takes the indexes along, and the steps that recreate them are SQL comments. DESIGN.md:1382 says "(re-create indexes on t)". |
| SqliteRebuild | dialect-sqlite/src/generator.rs:405 | CAST turns text that is no number into 0 without an error, so that the rebuild replaces the values. DESIGN.md:1386 says "if any step fails (e.g., data type incompatibility during INSERT), the entire recreation is rolled back". |
| MySqlBatch | dialect-mysql/src/generator.rs:841 | The operations set what differs and CHANGE COLUMN defines the whole column: NOT NULL and the default that are not set are lost. DESIGN.md:1842 says "MySQL `CHANGE COLUMN` (full column redefinition): representable as `AlterColumn` with all `ColumnChange` variants set simultaneously". |
| MySqlBatch | dialect-mysql/src/generator.rs:842 | CHANGE COLUMN needs the type, which the diff engine leaves out when it stays, and the generator fails. DESIGN.md:1842 says "MySQL `CHANGE COLUMN` (full column redefinition): representable as `AlterColumn` with all `ColumnChange` variants set simultaneously". |
| MySqlBatch | dialect-mysql/src/generator.rs:323 | emit_table_batch moves the CHANGE COLUMNs behind the other operations of the batch: the index is created while the column has its old type, which the server refuses. DESIGN.md:1293 says "The diff engine sorts operations into a fixed priority order, with dependency-based sorting within each priority group". |
| SourceTables | dialect-mssql/src/parser.rs:326 | The SQL Server, MySQL and SQLite parsers keep a CREATE TABLE as text and fill no columns: a changed definition compares equal and nothing is planned. README.md:3 says "stateql computes the minimal DDL to migrate your database to match". |
| SourceTables | dialect-mysql/src/parser.rs:404 | The foreign keys of a kept statement are unknown to the diff engine: the tables are created in the order of the text and the server refuses the first. DESIGN.md:1332 says "FK dependency order** for tables: tables that are referenced by foreign keys are created before the tables that reference them". |
| SourceTables | dialect-mysql/src/adapter.rs:48 | connect reads lower_case_table_names and forgets it, and every name is folded: DROP TABLE names a table the server does not have. DESIGN.md:1875 says "`lower_case_table_names`". |
| SourceTables | dialect-sqlite/src/normalize.rs:8 | The SQLite normalizer does not fold the names of tables, so that the table is created although it exists. DESIGN.md:622 says "Unquoted identifiers are case-insensitive for matching". |
| SourceTables | dialect-sqlite/src/adapter.rs:62 | SQLite writes the new name quoted into sqlite_master, the key of a name includes its quoting, and the second run plans the table again. DESIGN.md:44 says "Declarative schema management with idempotent DDL generation". |
| SourceTables | dialect-mysql/src/adapter.rs:178 | SHOW CREATE VIEW answers in the server's spelling, which the comparison of view queries takes for a change on every run. DESIGN.md:2115 says "a test case that produces a false diff is a bug to be fixed". |
| SourceTables | dialect-sqlite/src/adapter.rs:62 | The export contains CREATE INDEX and CREATE TRIGGER, which the parser does not convert: the run fails before it compares anything. DESIGN.md:1723 says "The `--export` output must be **idempotent**: re-parsing and re-exporting the output must produce the same text". |
| PgColumns | dialect-postgres/src/parser.rs:238 | pg_query's raw parse tree leaves NOT NULL and DEFAULT in the constraints of the column, convert_column reads is_not_null and raw_default: the column is created without them. DESIGN.md:48 says "Unknown or unsupported SQL constructs must cause an explicit error, never be silently ignored". |
| PgColumns | dialect-postgres/src/parser.rs:556 | convert_data_type never reads the modifiers of a type: varchar(20) is planned as varchar. DESIGN.md:48 says "Unknown or unsupported SQL constructs must cause an explicit error, never be silently ignored". |
| PgColumns | core/src/diff/compare.rs:444 | column_changes compares type, NOT NULL and default; ColumnChange::SetIdentity is never planned. README.md:3 says "stateql computes the minimal DDL to migrate your database to match". |
| PgColumns | dialect-postgres/src/normalize.rs:571 | SERIAL becomes integer DEFAULT nextval(...) and nothing creates the sequence: PostgreSQL refuses the statement. DESIGN.md:655 says "The sequence is an implementation detail of the column type". |
| PgColumns | dialect-postgres/src/normalize.rs:571 | The normalizer gives the desired column a default that the parser does not read from the export, so that SET DEFAULT is planned on every run. DESIGN.md:44 says "Declarative schema management with idempotent DDL generation". |
| Annotations | dialect-postgres/src/parser.rs:170 | The parsers give every statement one attachment, for the table and the line it begins on; an annotation on the line of a column is an orphan and the run fails. docs/adr/0006-explicit-rename-annotations.md:35 shows "user_id bigint NOT NULL, -- @renamed from=username". |
| Annotations | dialect-postgres/src/parser.rs:79 | A statement begins at the comment before it, so that the annotation on the line of CREATE TABLE is an orphan. docs/adr/0006-explicit-rename-annotations.md:28 shows the comment "-- Table rename" above "CREATE TABLE new_name (  -- @renamed from=old_name". |
| Annotations | core/src/annotation.rs:293 | What follows the semicolon belongs to the next statement: both are attached to the line and the annotation is refused. The parser test uses the form with a single statement, dialect-mysql/tests/parser_test.rs:34 says "CREATE TABLE users (id bigint); -- @renamed from=legacy_users". |
| Annotations | core/src/annotation.rs:293 | The comment is the first thing of the next statement, so that the following table is renamed. The extractor's test puts the annotation there, core/tests/annotation_extractor_test.rs:9 says "); -- @renamed from=legacy_users". |
| Annotations | core/src/annotation.rs:166 | parse_annotation answers None and the comment is left alone: the rename becomes a new table. docs/adr/0006-explicit-rename-annotations.md:25 says "Return error for orphan or invalid annotations." |
| Annotations | core/src/annotation.rs:114 | find_line_comment_start does not know block comments and takes the rest of the line for a string: the annotation is not seen. DESIGN.md:411 says "prevents stale annotations from being silently ignored". |
| Annotations | core/src/annotation.rs:114 | Every line begins outside of quotes, so that text is cut out of the string. core/tests/annotation_extractor_test.rs:4 says "extracts_renamed_annotations_from_comments_only_and_preserves_lines". |
| Annotations | dialect-sqlite/src/parser.rs:100 | The splitter takes the quote after it for escaped and misses the end of the statement: the next statement gets the line of nothing, and its annotation is refused. docs/adr/0006-explicit-rename-annotations.md:29 shows "CREATE TABLE new_name (  -- @renamed from=old_name". |
| PgPartitionText | dialect-postgres/src/parser.rs:510 | The server exports a bigint bound in quotes, which is read as a string and differs from the number of the file: every run with enable_drop drops the partition with its rows and makes it again. DESIGN.md:2115 says "a test case that produces a false diff is a bug to be fixed". |
| PgPartitionText | dialect-postgres/src/parser.rs:510 | The server exports a negative bound in quotes, which is read as a string: the partition is dropped and made again by every run. DESIGN.md:44 says "Declarative schema management with idempotent DDL generation." |
| PgPartitionText | dialect-postgres/src/parser.rs:452 | WITH (MODULUS, REMAINDER) leaves no bound, so that CREATE TABLE ... PARTITION OF is written without one and the server refuses it. DESIGN.md:48 says "Unknown or unsupported SQL constructs must cause an explicit error, never be silently ignored." |
| PgPartitionText | dialect-postgres/src/parser.rs:510 | A number of more than 32 bits is read as a double and written rounded: the partition gets another bound than the file says. README.md:3 says "Define your desired schema in SQL, and stateql computes the minimal DDL to migrate your database to match." |
| PgPartitionText | dialect-postgres/src/normalize.rs:783 | The element keeps the name of the child without its schema, and the partition is created in the schema of the parent. DESIGN.md:48 says "Unknown or unsupported SQL constructs must cause an explicit error, never be silently ignored." |
| PgPartitionText | dialect-postgres/src/normalize.rs:692 | The parent is looked up by its name as written and not found: the child becomes a table of its own, created with a key of no columns, which the server refuses. DESIGN.md:844 says "The dialect normalizer represents partition children as `PartitionElement` entries within the parent table's `Partition`". |
| PgPartitionText | dialect-postgres/src/parser.rs:324 | The bound takes the place of the key, and a child of a child finds no parent: it becomes a table created with a key of no columns. DESIGN.md:844 says "The dialect normalizer represents partition children as `PartitionElement` entries within the parent table's `Partition`". |
| PgTypes | dialect-postgres/src/parser.rs:556 | Only the last name of a type is looked up, so that app.date is read as DATE and the column is created with the built-in type. DESIGN.md:48 says "Unknown or unsupported SQL constructs must cause an explicit error, never be silently ignored." |
| PgTypes | dialect-postgres/src/normalize.rs:204 | A custom type is written in lower case without quotes: the column gets another type, or the server refuses it. DESIGN.md:613 says "An identifier with quoting information preserved." |
| PgTypes | dialect-postgres/src/normalize.rs:168 | The server exports the type without its schema and the two texts differ: every run alters the column. DESIGN.md:993 says "A false diff caused by insufficient `Custom` normalization is a bug". |
| EquivalencePolicy | dialect-mysql/src/equivalence.rs:265 | The quote after a backslash is taken for the end of the string and the blanks behind it are collapsed: a default that differs in them counts as unchanged. DESIGN.md:961 says the policy is for "cases where normalized forms still differ textually but are equivalent in the target database." |
| EquivalencePolicy | dialect-mssql/src/equivalence.rs:250 | Brackets are not known and the quote opens a string; the strings behind it are read as text and their blanks collapsed. DESIGN.md:961 says the policy is for "cases where normalized forms still differ textually but are equivalent in the target database." |
| EquivalencePolicy | dialect-mysql/src/equivalence.rs:44 | The type of a cast is dropped: CAST('-1' AS UNSIGNED) and CAST('-1' AS SIGNED) count as the same, although the first is 18446744073709551615. DESIGN.md:961 says the policy is for "cases where normalized forms still differ textually but are equivalent in the target database." |
| YamlRunner | testkit/src/yaml_runner.rs:344 | run_with_flavor_expectation takes every error of a case for another flavor, a lost connection or a malformed case included, for the expected one. testkit/src/yaml_runner.rs:345 says "Correctly fails on non-matching flavor" |
| YamlRunner | testkit/src/yaml_runner.rs:558 | assert_online_idempotency asks the tool itself for the difference: one that does not see a change finds nothing to do, and the case passes with the database as it was. DESIGN.md:2123 says "Idempotency tests catch any round-trip issues." |
| YamlRunner | testkit/src/yaml_runner.rs:365 | The corpus is run with run_offline_test, which compares `up` and `down`, and these cases have neither: nothing but an error can fail them. testkit/tests/yaml_idempotency_matrix_test.rs:11 says "idempotency_yaml_cases_pass_for_all_dialects" |
| MySqlBatch | dialect-mysql/src/generator.rs:859 | render_change_column prints NOT NULL and the default each from its own change: a column that loses its default and becomes NOT NULL gets NOT NULL DEFAULT NULL, which MySQL refuses (ERROR 1067) in this run and in every rerun, although the change is possible. OnlyKnownRefused and RerunCompletes except it by name. DESIGN.md:1842 says "MySQL `CHANGE COLUMN` (full column redefinition): representable as `AlterColumn` with all `ColumnChange` variants set simultaneously". |
| Executor | core/src/adapter.rs:50 | Transaction::drop ignores the result of its ROLLBACK. If the server refuses it, the transaction stays open on a connection the adapter keeps; execute_plan returns the error of the statement that failed first and says nothing of it. NothingLeftOpen excepts it by name. |
| MsSqlScript | core/src/executor.rs:71, core/src/renderer.rs:16 | An apply is one transaction, the printed script is not: when a statement is refused the apply leaves the database as it was, and the script what its first batches did. |

## Proofs

Eight modules hold theorems. A theorem is about every value of the constants
its module allows: plans, graphs, tables, views, objects and test cases of any
number and size. What the constants are assumed to be is the named `ASSUME`s of
the modules, which only give types, but for three: `ObjectsAssumption` also says that
objects have different names, `OwnerAssumption` that an index needs the table it
goes with, and `AlteredAssumption` that no two checks of a
domain have one name (PostgreSQL's rule, and `find_named_check` takes the first)
and that the column of `AlterObjects` is in both schemas or in neither. TLC
evaluates all of them in the runs. Where a theorem needs
more of the inputs than that, it says so in its own `ASSUME ... PROVE`, and the
table names it. The hypotheses that are formulas of a module (`Rebuildable`,
`ReferencesExist`, `SameKeys`) are checked of the inputs of the run by an
`ASSUME` of the MC module, so the run and the theorem are about the same cases.

| theorem | about | hypothesis |
|---|---|---|
| `ExecutorProofs.TypeCorrect` | The executor's state is well typed for every set of plans and both kinds of database. |  |
| `ExecutorProofs.InductiveInvariant` | With transactional DDL, what is committed, the open transaction and the executor's indexes stay in step for plans of any length. | `~AutoCommitDDL` |
| `ExecutorProofs.AtomicGroups`: `DurableAtCommitPoint` | With transactional DDL what is durable is always the plan up to a commit point: groups are applied entirely or not at all, in order. | `~AutoCommitDDL` |
| `ExecutorProofs.TransactionalPlanIsAtomic` | With transactional DDL a plan without non-transactional statements is applied completely or not at all. | `~AutoCommitDDL` |
| `ExecutorProofs.ExecutorImplementsPlanExecution`: `ImplementsPlanExecution` | With transactional DDL every behaviour of the executor is a behaviour of PlanExecution. | `~AutoCommitDDL` |
| `KahnSortProofs.InductiveInvariant` | The counters, the ready set and the emitted order of topological_sort stay consistent on graphs of any size. |  |
| `KahnSortProofs.EmitsDependenciesFirst`: `DependenciesFirst` | The loop emits an entry only after everything it depends on. |  |
| `KahnSortProofs.LosesNothing`: `EveryEntryOnce` | The sort returns every entry exactly once, on any graph. |  |
| `KahnSortProofs.GivesUpOnCyclesOnly`: `OnlyCyclesAreLeft` | What falls back to the original order waits for another such entry. |  |
| `ExecutorProofs.OrderInvariant` | What is committed or pending is a prefix of the plan up to the executor's cursor, whatever commits itself, fails or breaks, for plans of any length and both kinds of database. |  |
| `ExecutorProofs.EffectsInPlanOrder`: `EffectsFollowPlanOrder` | What is committed together with what the open transaction holds is always the statements before some position of the plan, on both kinds of database. |  |
| `ExecutorProofs.ReportIsExact`: `ReportLocatesFailure` | The index an error carries names an SQL statement, executed_statements counts exactly those before it (with it when it is a group of its own whose commit failed), and nothing from it on is durable unless the connection broke. |  |
| `ExecutorProofs.CountIsWhatWasKept`: `ExecutedCountIsDurable` | On a database that commits every statement, the count an error carries is the number of statements that stay applied, as long as the connection holds. |  |
| `ExecutorProofs.OkMeansApplied`: `SuccessIsComplete` | Ok from execute_plan means that the whole plan is committed, on both kinds of database. |  |
| `ExecutorProofs.TransactionClosedOnReturn`: `NothingLeftOpen` | No return from execute_plan leaves a transaction open, on both kinds of database, unless its ROLLBACK was refused, and then it returns an error. |  |
| `ExecutorProofs.FailureRollsItsGroupBack` | With transactional DDL nothing of the group that failed stays applied; on MySQL, where DDL commits itself, executor_autocommit_rollback shows it false. | `~AutoCommitDDL` |
| `KahnSortProofs.ComputesTheFunction`: `ComputesTopologicalSort` | The loop of topological_sort returns the function TopologicalSort of its arguments, which every other sort here is defined by, on graphs of any size. |  |
| `DataLemmas.TopologicalSortSorts` | The result is a permutation in which every entry of a part without cycles follows its dependencies. | finite sets and functions on them |
| `DataLemmas.ClosureIsReached` | A set that grows step by step over n elements is closed after n steps, and the least such set: what can_reach and expand_rebuild_closure compute. | finite sets and functions on them |
| `OrchestratorProofs.WritesAreAskedFor`: `WritesOnlyWhatIsAsked` | For any objects and any databases, only an apply writes, and it drops nothing without enable_drop. |  |
| `OrchestratorProofs.UnseenIsNoTarget`: `UnseenGoesOnlyWithItsTable` | What another session made after the export is not replaced or altered by the run, and goes only with the table it belongs to, which the run saw and is asked to drop. |  |
| `YamlRunnerProofs.PassingIsEarned`: `PassedIsEarned` | A test case passes only if the tool did on the database what the case says, for any objects, cases, defects and servers. |  |
| `YamlRunnerProofs.NoFalseAlarm`: `WorkingToolIsNotBlamed` | A tool without defect is never blamed, and a case runs on exactly the servers in its range. |  |
| `ViewPlanningProofs.RunInvariant` | The plan for views holds each operation once, in an order that respects the dependencies, and the database is what the applied part of it makes of the exported one. |  |
| `ViewPlanningProofs.PlanMatchesDesired`: `AppliedMatchesDesired` | A plan for any views that ran to its end leaves the desired views. |  |
| `ViewPlanningProofs.UnaffectedAreSpared`: `UnaffectedStayInPlace` | A view that reads no changed view, however indirectly, stays as it is throughout. |  |
| `ViewPlanningProofs.RebuildIsAccepted`: `RebuildAccepted` | In schemas a database could hold, the rebuild of any views finds an order the database accepts. | `\A in \in Inputs : Rebuildable(in[1], in[2])` |
| `FkPlanningProofs.RunInvariant` | The plan for tables holds each operation once, with no key on a cycle left in CREATE TABLE and tables created after those they reference, and the database is what the applied part of it makes of the exported one. |  |
| `FkPlanningProofs.CyclesAreBroken`: `NamedCyclesAreBroken` | When the first table is dropped, no named key is left on a cycle of tables to be dropped, whatever the schemas. |  |
| `FkPlanningProofs.OnlyDropsAreRefused`: `OnlyDropTableRefused` | If the keys of the desired schema reference its tables, the database refuses nothing but the drop of a table. | `\A in \in Inputs : ReferencesExist(in[2])` |
| `FkPlanningProofs.PlanMatchesDesired`: `AppliedMatchesDesired` | If no kept table changes its keys, a plan for any tables that ran to its end leaves the desired tables and keys. | `\A in \in Inputs : SameKeys(in[1], in[2])` |
| `DataLemmas.SortRearranges` | sort_diff_ops loses no operation and adds none: a plan of any length holds each operation as often after the order as before. One of no listed kind would be lost. | a finite list |
| `DataLemmas.SkippedAccounts` | What from_enable_drop reports of any two plans of which one is the other without some destructive operations is the difference of the two, each operation as often as it is left out. | lists; the shorter plan has every operation at most as often, and those that are not destructive as often |
| `ComparisonProofs.NothingLost`: `NothingLostWithoutDrop` | Without enable_drop a run loses no table with its rows, no column with its values, no object, granted operation or partition, and no check but for one of its name that replaces it, whatever the schemas and the names, also when the database stops it half way. |  |
| `ComparisonProofs.LeftOutIsReported`: `SkippedAreReported` | For columns, checks, all other objects, in-place changes and privileges of any schemas, the report names what the plan without enable_drop leaves out, as often as it is left out, and nothing else. |  |

### The executor

`ExecutorProofs`. `DurableAtCommitPoint` is not inductive: it does not say where
the executor stands. `IInv` adds that between groups the durable part
is what precedes `index`, and inside a group it still is, while the open transaction
holds what was executed from `index` to `cursor`, with no
non-transactional statement between them (`InGroupInv`). The lemmas are about
`SqlBefore` and `CommitPoint`: the set before a position grows by the statement
at it, and the positions where a group ends are commit points.
`ExecutorImplementsPlanExecution` goes through the actions: a commit, answered or
not, maps to `ApplyUnit`; the steps inside a group change nothing abstract. All
of this assumes `~AutoCommitDDL`, without which it is false.

The second half of the module is about both kinds of database. `OrderInv` says the same
in the form that survives implicit commits: durable and pending together are
what precedes the executor's position, `executed` counts exactly that, and on a
server that commits by itself nothing is pending. A report is written in the
step that fails, so its three shapes (a statement refused, its answer lost,
a commit failed) are lemmas of their own (`StatementReport`, `CommitReport`).
`ReturnInv` adds what is needed for the state after the return.

### Orders and sets

`KahnSortProofs`. `IInv` says that a
counter is the number of unvisited dependencies, which is what makes
"counter is zero" mean "ready"; the lemma that removing a member decreases the
cardinality by one carries the step. `ComputesTheFunction` follows the loop along
the recursive definition of `TopologicalSort`: `LoopAgrees` says that what
the loop has emitted is the definition's value for as many turns.

`DataLemmas` has what the planners share. The library's induction theorems take
an operator as a parameter; `NatSetInduction` is stated with a set instead, and
follows from the library's theorem on well-founded relations. From it:
recursive functions have a value (`IterationDefined`, `RecursionDefined`),
`TopologicalSort` is a permutation that respects every part of a graph without
cycles (`TopologicalSortSorts`), and the iterated search of `can_reach`
and `expand_rebuild_closure` computes the least closed set
(`ClosureIsReached`: a set that grows in each turn is complete after as many
turns as there are elements).

### Tables with keys, and views

`FkPlanningProofs` and `ViewPlanningProofs` have the same argument. The plan is
computed in one step and then applied operation by operation, so the invariant
(`RunInv`) has two parts. One is about the plan: it lists each of its
operations once, in an order that respects what must precede what
(`Lists`, `Remains`, `Respects`). The other is that the database is a function of
the schemas and of the set of operations applied so far, which makes a step a
statement about one operation. The property at the end of the run is then that
function for the whole plan, and what the database accepts follows from what
the order has put before.

- Keys: those on a cycle leave `CREATE TABLE`. What remains can be
  sorted because tables that are not on a common cycle have reachable sets that
  shrink along a reference (`OthersHaveNoCycle`, `PartsReachLess`), so every
  created table finds those it references, and the drop of a table on a cycle
  comes after that of its named keys.
- Views: the rebuild set is closed under dependents (`ClosureIsReached`), so a
  view outside it reads nothing that is dropped; within it drops and creates
  follow the two topological sorts, which are sorts because a database cannot
  hold views that read each other. `CREATE OR REPLACE` replaces a drop and a
  create of the plan without disturbing the order of the others.

### The comparison of everything else

`DataLemmas` says of `OpOrder`, for plans of any length, that the order is a
rearrangement (`SortRearranges`): concatenating the parts of a plan by kind, by
table and by sub-priority counts each operation once, because the kinds of two
groups have nothing in common. An operation of a kind in no group would be lost;
the code has no such kind, since `priority_group` is a match without a wildcard.
`SkippedAccounts` follows `from_enable_drop` turn by turn: what is still to be
accounted for, what has been accounted for and what has been skipped add up to
the full plan (`Accounted`). Its hypothesis `Fewer(emitted, full)` says that the
plan without drops has each operation at most as often as the one with them, and
a harmless one as often.

`ComparisonProofs` proves two properties of `Comparison`, whose inputs are any
schemas of the types above. The parts are instances of modules that have their
own copy of `OpOrder`'s definitions; the lemmas named `...Sorts` and `...Reports`
say that the copies mean the same.

- `NothingLost`. That nothing is lost is not inductive: a plan might be about to
  lose it. `Keeps` adds, for each part, that what is planned and not applied yet is
  of a kind that keeps (`Only`: without `--enable-drop`, comparing yields no
  other, and the order adds none), and that the database is of a shape in which
  such an operation, if accepted, takes nothing away. For tables and columns the
  comparison is a recursion over the desired ones; `TurnsPlan` says that what
  every turn plans is what the recursion plans. For checks, which are replaced as
  pairs without the flag, and for the checks of a domain, the invariant names the
  checks a plan may drop: those with a desired one of their name.
- `LeftOutIsReported`. The property is about two plans of one input, so its
  argument is one about the comparison and not about the run: part by part,
  the plan without drops is `Fewer` than the one with them (`CFewer`, `OFewer`,
  `AFewer`, `VFewer`: by concatenation, order and recursion, each of which keeps
  `Fewer`), and `SkippedAccounts` does the rest. `Compares` says that the
  inputs stay what they were, and for the part that leaves out operations one
  by one that what is left is `Fewer` than the plan.

No theorem needs the inputs to be those of the run: names may be reused,
annotations stale, and plans refused. Proving `ComparisonProofs` from
nothing takes a quarter of an hour; all other modules together take less.

### Runs of the tool, and of a test case

`OrchestratorProofs`: `PlanInv` ties what is executed to the arguments and to what
was exported (the plan is the one for exactly these), and `PlanOperations` says of
any such plan that a drop is there only with `--enable-drop`, and that an
operation on an object is about the version the export saw. What an operation
does to an object it does not name is then only what `Put` does to the indexes of a
table that is dropped, and the table is gone afterwards because a plan names no
object twice (`BroughtTo`). That holds across
any number of reruns, faults and changes of the other session.

`YamlRunnerProofs`: neither property is inductive, because a verdict
at the end rests on checks passed long before. `IInv` says for each step what the
database holds and which defects the checks passed so far have excluded.

### What is only model-checked

- Liveness (`Terminates`, `Converges`), which needs `ENABLED`; it is outside the prover's
  reach.
- Everything of `EquivalencePolicy` and `MsSqlScript`, which declare recursive
  operators, and with them `MCDialects`, which instantiates both: the prover's SMT
  backend is not available in a module that reaches one.
- The other properties of `Comparison`. `AppliedMatchesDesired`,
  `SecondRunIsEmpty`, `DataFollowsRenames` and `OnlyReplacementsRefused` are false
  for inputs the families leave out (`Not:` and the table of limits), so a theorem
  about them would carry those exceptions as hypotheses on each part's schemas;
  they also compare the end of a plan with every rule of the database, for which
  the invariants of the parts would have to say which object of the plan each
  object of the database comes from. `SharedIsKept` is one of them: a privilege that loses its
  grant option is revoked altogether, since `render_revoke` has no GRANT OPTION FOR.
- `SqliteRebuild`, `MySqlBatch`, `SourceTables`, `PgColumns`, `PgTypes`,
  `PgPartitionText` (put together in `MCDialects`) and `Annotations`: their
  properties relate a text to a server's reading of it, case by case. That more
  objects add nothing is not proved.

## Not modelled, and the plan

Left out, each for a reason:

- structured expressions: the parsers of PostgreSQL leave expressions as raw text,
  so that their normalization and printing (most of `to_sql.rs` and of the
  `render_expr` functions) is never reached from a file;
- the printing of columns by the MySQL, SQL Server and SQLite dialects outside
  the operations of `MySqlBatch`, `SqliteRebuild` and `MsSqlScript`: their parsers
  fill no columns;
- catalogue queries and decoding of rows; the queries are the server's, and what
  they answer is the exported schema of the models;
- SQL grammars, which are those of pg_query and sqlparser;
- shapes of the IR, wording of errors, reading of files, manifests of the test kit.

Next, in this order:

1. `AppliedMatchesDesired` for `Privileges` and `AlterObjects`, with the invariant
   of `FkPlanningProofs` (the database is a function of the operations applied so
   far); their plans have no order of their own to prove.
2. A current table is matched at most once where no name is reused, with the
   lemmas on turns (`TurnsPlan`): the first step to `DataFollowsRenames`.
3. `EquivalencePolicy` and `MsSqlScript` with recursive functions in the place of
   their recursive operators, so that theorems about them can be stated.
4. `SqliteRebuild`: `AllOrNothingStep` as an invariant of the transaction.
