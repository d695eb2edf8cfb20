------------------------------- MODULE MCDialects -------------------------------
(***************************************************************************)
(* What the dialects make of schemas and plans, side by side: a behaviour  *)
(* is one run of the tool in one part, those of PgColumns, PgTypes and     *)
(* PgPartitionText, SourceTables' for each dialect that keeps tables as    *)
(* text, MySqlBatch's or SqliteRebuild's, one script of MsSqlScript, or    *)
(* one expression of EquivalencePolicy and its spellings.  The parts share *)
(* the variables.  The comment on a family of inputs says what it leaves   *)
(* out.                                                                    *)
(***************************************************************************)
EXTENDS Integers, Sequences, FiniteSets, TLC
LOCAL SE == INSTANCE SequencesExt
LOCAL F == INSTANCE Functions

CONSTANTS
    Parts,            \* the parts to check
    SqliteInputs      \* <<current, desired>> pairs for SqliteRebuild

VARIABLES
    part, current, desired, enableDrop, ops, db, pc,
    durable           \* SqliteRebuild's, MsSqlScript's committed; nothing to
                      \* the other parts

UpTo1(S) == {{}} \cup {{x} : x \in S}

-------------------------------------------------------------------------------
(* A table of up to two columns.  Not: NOT NULL and defaults of new        *)
(* columns (dialect-postgres/src/parser.rs:238), modifiers that change     *)
(* (parser.rs:556), identities that change (core/src/diff/compare.rs:444), *)
(* SERIAL (dialect-postgres/src/normalize.rs:571).                         *)

Cols == INSTANCE PgColumns WITH Inputs <- {}

None == Cols!None
Typed(base) == Cols!Plain(base)
PgColumn(name, from, type, notNull, default, identity) ==
    [name |-> name, from |-> from, type |-> type, notNull |-> notNull,
     default |-> default, identity |-> identity]
Bare(name, type) == PgColumn(name, {}, type, FALSE, Cols!NoDefault, None)
Identity(name, kind) == PgColumn(name, {}, Typed("integer"), TRUE, Cols!NoDefault, kind)
Varchar20 == [base |-> "varchar", modifier |-> "20"]

TextOf(columns) == <<[columns |-> columns, constraints |-> FALSE]>>

(* The first column in every variety, the second in three.                 *)
Firsts ==
    {PgColumn(1, {}, type, notNull, default, None) :
        type \in {Typed("integer"), Typed("text"), Varchar20}, notNull \in BOOLEAN,
        default \in {Cols!NoDefault, [value |-> "five", stored |-> FALSE]}}
    \cup {Identity(1, kind) : kind \in {"always", "by default"}}
Seconds ==
    {Bare(2, Typed("text")), PgColumn(2, {}, Varchar20, TRUE, Cols!NoDefault, None),
     Identity(2, "always")}
NewColumns == {Bare(3, Typed("integer")), Identity(3, "always"), Bare(3, Typed("varchar"))}

(* Kept, given another type, renamed, dropped; what the parser does not    *)
(* read stays as it is.                                                    *)
Later(c) ==
    UpTo1({c, [c EXCEPT !.name = 4, !.from = {c.name}]}
          \cup {[c EXCEPT !.type = Typed(base)] : base \in {"integer", "text", "varchar"} \ {c.type.base}})

ColumnTexts ==
    UNION {{<<TextOf({c, s}), TextOf(k \cup {s} \cup n)>> :
                k \in Later(c), n \in UpTo1(NewColumns)} : c \in Firsts, s \in Seconds}
    \cup {<<<<>>, TextOf(cs)>> :
            cs \in {{c} : c \in NewColumns} \cup {{Bare(1, Typed("text")), c} : c \in NewColumns}}
    \cup {<<TextOf({c}), <<>>>> : c \in Firsts}
    \cup {<<TextOf({c}), <<[columns |-> {c}, constraints |-> TRUE]>>>> : c \in NewColumns}

PC == INSTANCE PgColumns WITH Inputs <- ColumnTexts

-------------------------------------------------------------------------------
(* A table of up to two columns: types that are keywords, that are not,    *)
(* that the parser does not know, and user types in both schemas.  Not: a  *)
(* user type with the name of a built-in one (parser.rs:556) or with       *)
(* capitals (normalize.rs:204), a schema written although it is in the     *)
(* search path (normalize.rs:168).                                         *)

Word(w) == [word |-> w, upper |-> FALSE]
PublicOnly == <<Word("public")>>
Catalog == Word("pg_catalog")

ServerTypes ==
    {<<Catalog, Word(w)>> : w \in {"int4", "timestamptz", "date", "text", "inet"}}
    \cup {<<Word("public"), Word("mood")>>, <<Word("public"), [word |-> "mood", upper |-> TRUE]>>}
    \cup {<<Word("app"), Word(w)>> : w \in {"mood", "date", "shade"}}

SpelledTypes ==
    [path : {<<Catalog, Word(w)>> : w \in {"int4", "date"}}
            \cup {<<Word(w)>> : w \in {"int4", "timestamptz", "date", "inet", "mood"}}
            \cup {<<Word("app"), Word(w)>> : w \in {"mood", "shade"}},
     array : BOOLEAN]

TypeTexts ==
    LET one == {<<>>} \cup {(1 :> t) : t \in SpelledTypes}
        two(t, u) == (1 :> t) @@ (2 :> u)
    IN one \X one \cup {<<two(t, u), two(u, t)>> : t, u \in SpelledTypes}

PT == INSTANCE PgTypes WITH
        Inputs <- TypeTexts, Types <- ServerTypes, SearchPath <- PublicOnly

-------------------------------------------------------------------------------
(* A table with up to two partitions.  Not: a bigint key or a negative     *)
(* bound, which the server spells as strings (normalize.rs:783), HASH and  *)
(* numbers beyond ExactTo (parser.rs:324), a partition in another schema   *)
(* or under a name written otherwise than its table's (normalize.rs:692),  *)
(* a partition of a partition (parser.rs:324).                             *)

NameRank(n) == CASE n = "t" -> 1 [] n = "p" -> 2 [] n = "q" -> 3 [] OTHER -> 4

Bounds == INSTANCE PgPartitionText WITH Inputs <- {}, Rank <- NameRank, ExactTo <- 10

Number(n) == [n |-> n, spelled |-> "number"]
In(numbers) == [form |-> "in", values |-> [i \in DOMAIN numbers |-> Number(numbers[i])]]
FromTo(a, b) == [form |-> "fromto", values |-> <<a, b>>]

Parent(strategy) ==
    [at |-> <<"public", "t">>, parent |-> Bounds!NoTable,
     spec |-> [strategy |-> strategy, type |-> "integer"], bound |-> Bounds!NoBound]
Child(n, bound) ==
    [at |-> <<"public", n>>, parent |-> <<"public", "t">>, spec |-> Bounds!NoSpec, bound |-> bound]

BoundsOf ==
    [list |-> {In(<<1>>), In(<<1, 2>>), In(<<3>>), In(<<4, 5>>)},
     range |-> {FromTo(Number(1), Number(4)), FromTo(Number(4), Number(9)),
                FromTo(Number(9), [n |-> Bounds!Limit, spelled |-> "limit"])}]

Apart(ss) ==
    \A r, s \in ss : r # s => /\ r.at # s.at
                             /\ ~Bounds!Overlap(Bounds!Meant(r).bound, Bounds!Meant(s).bound)

ChildSets(strategy) ==
    {cs \in SUBSET {Child(n, b) : n \in {"p", "q"}, b \in BoundsOf[strategy]} :
        Cardinality(cs) <= 2 /\ Apart(cs)}

(* The table comes first or last; the names may leave out their schema.    *)
TextsOf(strategy, cs) ==
    {<<Parent(strategy)>> \o SE!SetToSeq(cs), SE!SetToSeq(cs) \o <<Parent(strategy)>>}
Unqualified(text) ==
    LET plain(at) == IF at = Bounds!NoTable THEN at ELSE <<"", at[2]>>
    IN [i \in DOMAIN text |-> [text[i] EXCEPT !.at = plain(@), !.parent = plain(@)]]

Growing(strategy) ==
    UNION {TextsOf(strategy, cs[1])
           \X UNION {{text, Unqualified(text)} : text \in TextsOf(strategy, cs[2])} :
               cs \in {p \in ChildSets(strategy) \X ChildSets(strategy) : Apart(p[1] \cup p[2])}}

(* An expression in a bound: the parser fails.                             *)
NotParsed ==
    {<<<<Parent("list")>>,
       <<Parent("list"), Child("p", [form |-> "in", values |-> <<[n |-> 1, spelled |-> "expression"]>>])>>>>}

BoundTexts == Growing("list") \cup Growing("range") \cup NotParsed

PB == INSTANCE PgPartitionText WITH Inputs <- BoundTexts, Rank <- NameRank, ExactTo <- 10

-------------------------------------------------------------------------------
(* Tables kept as source text: up to two of the words users, people and    *)
(* staff.  Not: a definition that changes (dialect-mssql/src/parser.rs:326)*)
(* or refers to a table created later (dialect-mysql/src/parser.rs:404),   *)
(* names in mixed case (dialect-mysql/src/adapter.rs:48,                   *)
(* dialect-sqlite/src/normalize.rs:8), in SQLite renamed tables, indexes   *)
(* and triggers (dialect-sqlite/src/adapter.rs:62), a view in the user's   *)
(* own spelling (dialect-mysql/src/adapter.rs:178).                        *)

Ident(word) == [word |-> word, mixed |-> FALSE, quoted |-> FALSE]
Stmt(kind, word, body, refs) ==
    [kind |-> kind, name |-> Ident(word), from |-> {}, body |-> body, refs |-> refs]
TableStmt(word) == Stmt("table", word, [meaning |-> "one", spelled |-> FALSE], {})

Words == {"users", "people", "staff"}
UpToTwo(stmts) ==
    {text \in {<<>>} \cup {<<s>> : s \in stmts} \cup {<<s, t>> : s, t \in stmts} :
        \A i, j \in DOMAIN text : i # j => text[i].name.word # text[j].name.word}

OldTables == UpToTwo({TableStmt(w) : w \in Words})

(* Some renamed; an old name is nobody's new name.                         *)
NewTables ==
    LET maybeRenamed(w) ==
            {TableStmt(w)}
            \cup {[TableStmt(w) EXCEPT !.from = {Ident(old)}] : old \in Words \ {w}}
    IN {text \in UpToTwo(UNION {maybeRenamed(w) : w \in Words}) :
            \A i, j \in DOMAIN text : /\ text[i].name \notin text[j].from
                                      /\ i # j => text[i].from \cap text[j].from = {}}

Quoted(text) == [i \in DOMAIN text |-> [text[i] EXCEPT !.name.quoted = TRUE]]
NewOrQuoted == NewTables \cup {Quoted(text) : text \in OldTables}

(* MySQL: also a view of users, as the server spells it; users stays.      *)
HasUsers(text) == \E i \in DOMAIN text : text[i].name.word = "users"
WithView(texts) ==
    texts \cup {text \o <<Stmt("view", "active", [meaning |-> m, spelled |-> TRUE], {"users"})>> :
                    text \in {t \in texts : HasUsers(t)}, m \in {"a", "b"}}

MySqlTexts ==
    {in \in WithView(OldTables) \X WithView(NewOrQuoted) :
        HasUsers(in[1]) =>
            HasUsers(in[2]) /\ \A i \in DOMAIN in[2] : Ident("users") \notin in[2][i].from}
SqliteTexts == OldTables \X OldTables
MsSqlTexts == OldTables \X NewOrQuoted

TM == INSTANCE SourceTables WITH Dialect <- "mysql", Inputs <- MySqlTexts
TL == INSTANCE SourceTables WITH Dialect <- "sqlite", Inputs <- SqliteTexts
TS == INSTANCE SourceTables WITH Dialect <- "mssql", Inputs <- MsSqlTexts

-------------------------------------------------------------------------------
(* A table whose columns are known: one or two columns with a type, NOT    *)
(* NULL and a default.                                                     *)

Core == INSTANCE ColumnDiff WITH Inputs <- {}

Columns(n) ==
    {[name |-> n, from |-> {}, type |-> type, notNull |-> notNull, default |-> default,
      identity |-> FALSE] :
        type \in {"integer", "text"}, notNull \in BOOLEAN,
        default \in {Core!NoDefault, [value |-> "one", stored |-> FALSE]}}
Tables ==
    {[columns |-> cs, checks |-> {}, indexes |-> {}] :
        cs \in {{c, d} : c \in Columns(1), d \in Columns(2)} \cup {{c} : c \in Columns(1)}}

(* A change that leaves nothing of the old column: a new type, and NOT     *)
(* NULL and a default that are new or not there.                           *)
FullyAltered(new, old) ==
    /\ new.type # old.type
    /\ new.notNull => ~old.notNull
    /\ new.default # Core!NoDefault => new.default # old.default

WithRenamed(schema) ==
    [schema EXCEPT !.columns = {IF c.name = 1 THEN [c EXCEPT !.name = 3, !.from = {1}] ELSE c :
                                    c \in schema.columns}]

-------------------------------------------------------------------------------
(* SQLite: every column is fully altered, one of them renamed too, or      *)
(* columns are added.  Not: a column that stays as it is                   *)
(* (dialect-sqlite/src/generator.rs:275), is dropped (generator.rs:197), a *)
(* check that is added (generator.rs:311).  One row is enough: no          *)
(* statement makes one row depend on another.                              *)

Pairs == Tables \X Tables
EveryAltered ==
    {in \in Pairs : /\ Core!ColumnNames(in[1]) = Core!ColumnNames(in[2])
                    /\ \A c \in in[1].columns : FullyAltered(Core!Column(in[2], c.name), c)}
Rebuilt ==
    EveryAltered \cup {<<in[1], WithRenamed(in[2])>> : in \in EveryAltered}
    \cup {in \in Pairs : in[1].columns \subseteq in[2].columns}

(* One of two columns is altered, the other stays as it is.                *)
OneAltered ==
    {in \in Pairs : /\ Core!ColumnNames(in[1]) = {1, 2} /\ Core!ColumnNames(in[2]) = {1, 2}
                    /\ Core!Column(in[1], 1) = Core!Column(in[2], 1)
                    /\ FullyAltered(Core!Column(in[2], 2), Core!Column(in[1], 2))}

L == INSTANCE SqliteRebuild WITH
        Inputs <- SqliteInputs, Ids <- {1}, Data <- {"null", "one", "fraction", "word"}

-------------------------------------------------------------------------------
(* MySQL: columns stay or are fully altered, come and go, one is renamed;  *)
(* at most one index, on a column that keeps its type.  Among them those   *)
(* that lose a default and become NOT NULL.  Not: columns that             *)
(* are altered in part (dialect-mysql/src/generator.rs:841 and 842), an    *)
(* index on a column that gets the type it needs (generator.rs:323).       *)

Batches == INSTANCE MySqlBatch WITH Inputs <- {}

Redefined ==
    {in \in Pairs :
        \A c \in in[1].columns : \A d \in in[2].columns :
            c.name = d.name => Core!ColumnChanges(d, c) = {} \/ FullyAltered(d, c)}

Indexed(schema) ==
    LET index(column) == [name |-> "i", column |-> column, types |-> {"integer"}]
    IN {schema} \cup {[schema EXCEPT !.indexes = {k}] :
                          k \in {l \in {index(1), index(2)} : Batches!IndexFits(schema, l)}}
StableIndexes(new, old) ==
    \A k \in new.indexes \cup old.indexes : \A c \in new.columns, d \in old.columns :
        c.name = d.name /\ d.name = k.column => c.type = d.type

BatchPairs ==
    UNION {{p \in Indexed(in[1]) \X Indexed(in[2]) : StableIndexes(p[2], p[1])} : in \in Redefined}
    \cup {<<in[1], WithRenamed(in[2])>> : in \in Redefined}

B == INSTANCE MySqlBatch WITH Inputs <- BatchPairs

-------------------------------------------------------------------------------
(* SQL Server: plans of up to three operations on a table t with a column  *)
(* c and on what they create.                                              *)

Op(kind, shape, needs, takes, gives) ==
    [kind |-> kind, shape |-> shape, needs |-> needs, takes |-> takes, gives |-> gives]
PlainOp(kind, needs, takes, gives) == Op(kind, "plain", needs, takes, gives)
Operations ==
    {PlainOp("CreateTable", {}, {}, {"u", "u.c"}), PlainOp("DropTable", {"t"}, {"t", "t.c", "i"}, {}),
     PlainOp("AddColumn", {"t"}, {}, {"t.d"}), PlainOp("RenameColumn", {"t", "t.c"}, {"t.c"}, {"t.d"}),
     PlainOp("AddIndex", {"t", "t.c"}, {}, {"i"}), PlainOp("CreateView", {"t", "t.c"}, {}, {"v"}),
     PlainOp("CreateTrigger", {"t"}, {}, {"g"}), PlainOp("CreateFunction", {}, {}, {"f"}),
     PlainOp("CreateSchema", {}, {}, {"s"}), PlainOp("AlterColumn", {"t", "t.c"}, {}, {}),
     Op("RenameTable", "other schema", {"t"}, {"t"}, {"s.t"}),
     Op("AddColumn", "generated", {"t"}, {}, {"t.d"}),
     Op("AddForeignKey", "deferrable", {"t"}, {}, {"k"})}
AllPlans == UNION {[1..n -> Operations] : n \in 1..3}

M == INSTANCE MsSqlScript WITH
        Plans <- AllPlans, Objects <- {"t", "t.c"}, plan <- current, statements <- desired,
        applied <- db, committed <- durable, scripted <- ops, sent <- enableDrop, run <- pc

-------------------------------------------------------------------------------
(* Expressions of a dialect that knows neither backslashes in strings      *)
(* (dialect-mysql/src/equivalence.rs:265), names in brackets               *)
(* (dialect-mssql/src/equivalence.rs:250) nor unsigned types               *)
(* (dialect-mysql/src/equivalence.rs:44).                                  *)

Str(chars) == <<"'">> \o chars \o <<"'">>
Casted(chars, type) == <<"cast(">> \o Str(chars) \o <<" ", "as", " ", type, ")">>

AllExpressions ==
    {<<"0">>, <<"1">>, <<"-", "1">>, <<"0", "1">>, <<"1", "2">>,
     <<"(", "x", ")">>, <<"(", "x", ")", "x", "(", "x", ")">>, <<"x", " ", "x">>,
     <<"(", "x", " ", "(", "x", ")", ")">>, <<"\"", "x", " ", "\"">>,
     Str(<<"x">>), Str(<<"x", " ", "x">>), Str(<<" ">>), Str(<<"'", "'", " ">>),
     Str(<<"(", "x">>), Str(<<"\"", " ">>), <<"(">> \o Str(<<")">>) \o <<")">>,
     <<"x", " ">> \o Str(<<"x", " ">>), Str(<<"x">>) \o <<" ">> \o Str(<<" ">>),
     Casted(<<"1">>, "int"), Casted(<<"-", "0">>, "int"), Casted(<<"x">>, "int"),
     Casted(<<"1">>, "text"), <<"(">> \o Casted(<<"0", "1">>, "int") \o <<")">>}

E == INSTANCE EquivalencePolicy WITH
        Expressions <- AllExpressions,
        Letters <- {"x", "0", "1", "-", "'", "\"", "(", ")", " "},
        IntegerTypes <- {"int"}, Escapes <- FALSE, Brackets <- FALSE, MaxChanges <- 2,
        exported <- current, edited <- enableDrop, changes <- ops

-------------------------------------------------------------------------------

AllParts ==
    {"columns", "types", "bounds", "mysql tables", "sqlite tables", "mssql tables",
     "mysql batch", "sqlite rebuild", "mssql script", "equivalence"}

Init ==
    /\ part \in Parts
    /\ \/ part = "columns" /\ PC!Init /\ durable = {}
       \/ part = "types" /\ PT!Init /\ durable = {}
       \/ part = "bounds" /\ PB!Init /\ durable = {}
       \/ part = "mysql tables" /\ TM!Init /\ durable = {}
       \/ part = "sqlite tables" /\ TL!Init /\ durable = {}
       \/ part = "mssql tables" /\ TS!Init /\ durable = {}
       \/ part = "mysql batch" /\ B!Init /\ durable = {}
       \/ part = "sqlite rebuild" /\ L!Init
       \/ part = "mssql script" /\ M!Init
       \/ part = "equivalence" /\ E!Init /\ db = {} /\ pc = "compare" /\ durable = {}

Next ==
    \/ part = "columns" /\ PC!Next /\ UNCHANGED <<part, durable>>
    \/ part = "types" /\ PT!Next /\ UNCHANGED <<part, durable>>
    \/ part = "bounds" /\ PB!Next /\ UNCHANGED <<part, durable>>
    \/ part = "mysql tables" /\ TM!Next /\ UNCHANGED <<part, durable>>
    \/ part = "sqlite tables" /\ TL!Next /\ UNCHANGED <<part, durable>>
    \/ part = "mssql tables" /\ TS!Next /\ UNCHANGED <<part, durable>>
    \/ part = "mysql batch" /\ B!Next /\ UNCHANGED <<part, durable>>
    \/ part = "sqlite rebuild" /\ L!Next /\ UNCHANGED part
    \/ part = "mssql script" /\ M!Next /\ UNCHANGED part
    \/ part = "equivalence" /\ E!Next /\ UNCHANGED <<part, durable, db, pc>>

vars == <<part, current, desired, enableDrop, ops, db, pc, durable>>

Spec == Init /\ [][Next]_vars

-------------------------------------------------------------------------------
(* Properties: what each of the modules promises, under one name.          *)

(* A plan that runs to its end leaves the database as the text means it,   *)
(* column by column with every attribute, type by type, partition by       *)
(* partition, and nothing else with enable_drop.                           *)
AppliedMatchesDesired ==
    /\ part = "columns" => PC!AppliedMatchesDesired
    /\ part = "types" => PT!AppliedMatchesDesired
    /\ part = "bounds" => PB!AppliedMatchesDesired
    /\ part = "mysql tables" => TM!AppliedMatchesDesired
    /\ part = "sqlite tables" => TL!AppliedMatchesDesired
    /\ part = "mssql tables" => TS!AppliedMatchesDesired
    /\ part = "mysql batch" => B!AppliedMatchesDesired
    /\ part = "sqlite rebuild" => L!AppliedMatchesDesired

(* However the server spells the export, a second run finds nothing to do; *)
(* in MySQL, which commits each statement, a run after an interrupted one  *)
(* completes it, unless the plan holds a statement no run gets past.       *)
RerunFindsTheRest ==
    /\ part = "columns" => PC!SecondRunIsEmpty
    /\ part = "types" => PT!SameTypeIsLeftAlone
    /\ part = "bounds" => PB!SecondRunIsEmpty
    /\ part = "mysql tables" => TM!SecondRunIsEmpty
    /\ part = "sqlite tables" => TL!SecondRunIsEmpty
    /\ part = "mssql tables" => TS!SecondRunIsEmpty
    /\ part = "mysql batch" => B!RerunCompletes

(* The server refuses nothing of a plan but what cannot be had (a change   *)
(* of type without a cast, an index whose old form enable_drop does not    *)
(* let go, NULL in a NOT NULL column), with one exception that could be:   *)
(* in MySQL, a column that loses its default and becomes NOT NULL.         *)
OnlyKnownRefused ==
    /\ part = "columns" => PC!OnlyTypeChangeRefused
    /\ part = "types" => PT!PlanAccepted
    /\ part = "bounds" => PB!PlanAccepted
    /\ part = "mysql tables" => TM!PlanAccepted
    /\ part = "sqlite tables" => TL!PlanAccepted
    /\ part = "mssql tables" => TS!PlanAccepted
    /\ part = "mysql batch" => B!OnlyKnownRefused
    /\ part = "sqlite rebuild" => L!OnlyNullRefused

(* At every moment of a run what the text does not change is there: what   *)
(* the parser does not read of a column, a partition with its rows.  And   *)
(* the spellings the equivalence policies forgive are no changes.          *)
UnchangedStays ==
    /\ part = "columns" => PC!UnreadAttributesStay
    /\ part = "bounds" => PB!SharedPartitionsStay
    /\ part = "equivalence" => E!RespelledStaysEquivalent

(* A rebuilt SQLite table has the rows it had, each with the values it had *)
(* in all columns that stay, under the new name of a renamed column, as    *)
(* far as the new type of a column can hold them.                          *)
RebuildKeepsValues == [][part = "sqlite rebuild" => L!ValuesSurviveStep]_vars

(* Whatever ends a rebuild, the process included, what is durable is the   *)
(* table as it was or as the whole plan leaves it.                         *)
RebuildIsAtomic == [][part = "sqlite rebuild" => L!AllOrNothingStep]_vars

(* The printed SQL Server script does what the statements sent in one      *)
(* transaction do and is refused exactly when they are, and then keeps     *)
(* what came before, which they do not.                                    *)
ScriptMatchesApply == part = "mssql script" => M!ScriptMatchesApply

(* The equivalence policy never hides a change: two expressions that the   *)
(* server reads as different ones are not equivalent.                      *)
ChangeIsSeen == part = "equivalence" => E!ChangeIsSeen
===============================================================================
