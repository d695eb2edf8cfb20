------------------------------- MODULE PgColumns -------------------------------
(***************************************************************************)
(* The columns of a PostgreSQL table from the text to the database and     *)
(* back: what the parser takes from CREATE TABLE, what the normalizer      *)
(* makes of SERIAL and IDENTITY, the statements of the generator and the   *)
(* export of the adapter.  The comparison in between is ColumnDiff's.      *)
(*                                                                         *)
(* A text is <<>> or <<[columns, constraints]>>, one table and whether it  *)
(* has a table constraint.  A column is one of ColumnDiff with a type      *)
(* [base, modifier] and an identity.  The server has parsed a text of its  *)
(* own when it answers the export, so columns there have all attributes.   *)
(***************************************************************************)
EXTENDS Sequences, FiniteSets
LOCAL SE == INSTANCE SequencesExt

CONSTANT Inputs          \* <<current, desired>> pairs of texts

VARIABLES current, desired, enableDrop, ops, db, pc

Core == INSTANCE ColumnDiff

None == "none"
NoDefault == Core!NoDefault
NextVal == [value |-> "nextval", stored |-> FALSE]
Plain(base) == [base |-> base, modifier |-> None]

-------------------------------------------------------------------------------
(* parser.rs                                                               *)

(* convert_data_type: the modifiers of a type are not read.                *)
ConvertDataType(type) == Plain(type.base)

(* Mutant: identity is not read.                                           *)
NoIdentity(c) == None

(* parse_identity: among the constraints of a column only this one is      *)
(* looked for.                                                             *)
ParseIdentity(c) == c.identity

(* convert_column: pg_query leaves NOT NULL and DEFAULT among the          *)
(* constraints, is_not_null and raw_default are never set.                 *)
ConvertColumn(c) ==
    [c EXCEPT !.type = ConvertDataType(@), !.notNull = FALSE, !.default = NoDefault,
              !.identity = ParseIdentity(c)]

(* convert_create_table: an error at the first table constraint.           *)
Parses(text) == \A i \in DOMAIN text : ~text[i].constraints

-------------------------------------------------------------------------------
(* normalize.rs                                                            *)

(* Mutant: an integer is a serial as well.                                 *)
SerialAliasOfIntegers(c) ==
    IF c.type.base \notin {"serial", "integer"} THEN c
    ELSE [c EXCEPT !.type = Plain("integer"),
                   !.default = IF @ = NoDefault THEN NextVal ELSE @]

(* normalize_serial_alias                                                  *)
SerialAlias(c) ==
    IF c.type.base # "serial" THEN c
    ELSE [c EXCEPT !.type = Plain("integer"),
                   !.default = IF @ = NoDefault THEN NextVal ELSE @]

(* normalize_table_sequence_representation                                 *)
NormalizeColumn(c) ==
    LET n == SerialAlias(c) IN IF n.identity = None THEN n ELSE [n EXCEPT !.default = NoDefault]

(* The columns of a text as the comparison sees them.                      *)
SchemaOf(text) ==
    [columns |-> UNION {{NormalizeColumn(ConvertColumn(c)) : c \in text[i].columns} : i \in DOMAIN text},
     checks |-> {}]

-------------------------------------------------------------------------------
(* generator.rs                                                            *)

(* Mutants: a change of type has no statement; a column that changes gets  *)
(* all its attributes again.                                               *)
AlterColumnUntyped(op) ==
    IF "default" \in op.changes THEN <<[kind |-> "SetDefault", column |-> op.column]>> ELSE <<>>

AlterColumnWhole(op) ==
    <<[kind |-> "SetType", column |-> op.column], [kind |-> "SetNotNull", column |-> op.column],
      [kind |-> "SetDefault", column |-> op.column]>>

(* render_alter_column_change: a statement for each change.                *)
AlterColumn(op) ==
    LET Set(attribute, kind) ==
            IF attribute \in op.changes THEN <<[kind |-> kind, column |-> op.column]>> ELSE <<>>
    IN Set("type", "SetType") \o Set("notNull", "SetNotNull") \o Set("default", "SetDefault")

Statements(plan) ==
    SE!FlattenSeq([i \in DOMAIN plan |->
        IF plan[i].kind = "AlterColumn" THEN AlterColumn(plan[i]) ELSE <<plan[i]>>])

(* compare_tables: the whole table is new or gone.                         *)
Compare(new, old, drop) ==
    IF new = <<>> THEN IF old = <<>> \/ ~drop THEN <<>> ELSE <<[kind |-> "DropTable"]>>
    ELSE IF old = <<>> THEN <<[kind |-> "CreateTable", columns |-> SchemaOf(new).columns]>>
    ELSE Core!CompareColumns(SchemaOf(new), SchemaOf(old), drop)

-------------------------------------------------------------------------------
(* The server.                                                             *)

(* What a column means to the server that reads it.                        *)
Meant(c) ==
    LET serial == c.type.base = "serial"
    IN [name |-> c.name, type |-> IF serial THEN Plain("integer") ELSE c.type,
        notNull |-> c.notNull \/ serial \/ c.identity # None,
        default |-> IF serial THEN NextVal.value ELSE c.default.value,
        identity |-> c.identity]

DatabaseOf(text) ==
    [exists |-> text # <<>>,
     columns |-> UNION {{Meant(c) : c \in text[i].columns} : i \in DOMAIN text},
     sequences |-> UNION {{c.name : c \in {d \in text[i].columns : d.type.base = "serial"}} :
                            i \in DOMAIN text}]

Casts == {<<"integer", "text">>, <<"integer", "varchar">>, <<"text", "varchar">>, <<"varchar", "text">>}
TheColumn(d, name) == CHOOSE c \in d.columns : c.name = name

(* A column to be created, and a default to be set, name a sequence.       *)
SequenceExists(d, c) == c.default = NextVal => c.name \in d.sequences

Accepts(d, s) ==
    CASE s.kind = "CreateTable" -> ~d.exists /\ \A c \in s.columns : SequenceExists(d, c)
      [] s.kind \in {"AddColumn", "SetDefault"} -> SequenceExists(d, s.column)
      [] s.kind = "SetType" ->
            LET c == TheColumn(d, s.column.name)
            IN \/ c.type.base = s.column.type.base
               \/ <<c.type.base, s.column.type.base>> \in Casts /\ c.identity = None
      [] OTHER -> TRUE

WithColumn(d, c) == [d EXCEPT !.columns = {o \in @ : o.name # c.name} \cup {c}]

Effect(d, s) ==
    CASE s.kind = "CreateTable" ->
            [d EXCEPT !.exists = TRUE, !.columns = {Meant(c) : c \in s.columns}]
      [] s.kind = "DropTable" -> [exists |-> FALSE, columns |-> {}, sequences |-> {}]
      [] s.kind = "AddColumn" -> WithColumn(d, Meant(s.column))
      [] s.kind = "SetType" -> WithColumn(d, [TheColumn(d, s.column.name) EXCEPT !.type = s.column.type])
      [] s.kind = "SetNotNull" ->
            WithColumn(d, [TheColumn(d, s.column.name) EXCEPT !.notNull = s.column.notNull])
      [] s.kind = "SetDefault" ->
            WithColumn(d, [TheColumn(d, s.column.name) EXCEPT !.default = s.column.default.value])
      [] s.kind = "RenameColumn" ->
            [d EXCEPT !.columns =
                {IF c.name = s.name THEN [c EXCEPT !.name = s.to] ELSE c : c \in @}]
      [] s.kind = "DropColumn" ->
            [d EXCEPT !.columns = {c \in @ : c.name # s.name}, !.sequences = @ \ {s.name}]

(* TABLE_COLUMNS_QUERY and render_column: every attribute is printed, a    *)
(* constraint of the table is not.                                         *)
Exported(d) ==
    IF ~d.exists THEN <<>>
    ELSE <<[constraints |-> FALSE,
            columns |-> {[name |-> c.name, from |-> {}, type |-> c.type, notNull |-> c.notNull,
                          default |-> [value |-> c.default, stored |-> TRUE],
                          identity |-> c.identity] : c \in d.columns}]>>

Comparable(new, old) == Parses(new) /\ Parses(Exported(DatabaseOf(old)))
Diff(new, old, drop) == Statements(Compare(new, Exported(DatabaseOf(old)), drop))

INSTANCE PlanRun

-------------------------------------------------------------------------------
(* Properties                                                              *)

Desired(text) == DatabaseOf(text).columns

(* A plan that runs to its end leaves every desired column with every      *)
(* attribute the text gives it, and with enable_drop no others.            *)
AppliedMatchesDesired ==
    pc = "done" =>
        /\ Desired(desired) \subseteq db.columns
        /\ enableDrop => db.columns = Desired(desired)

(* A second run finds nothing to do, although the export spells out what   *)
(* the parser does not read.                                               *)
SecondRunIsEmpty == pc = "done" => Compare(desired, Exported(db), enableDrop) = <<>>

(* As the comparison does not see NOT NULL, defaults and modifiers, no     *)
(* statement takes them from a column, also when the plan stops half way:  *)
(* a column keeps them under its own name or the one it is renamed to.     *)
UnreadAttributesStay ==
    \A c \in DatabaseOf(current).columns : \A d \in db.columns :
        (\/ d.name = c.name
         \/ \E i \in DOMAIN desired : \E e \in desired[i].columns :
                e.name = d.name /\ c.name \in e.from /\ d.name \notin {b.name : b \in DatabaseOf(current).columns})
        => /\ d.notNull = c.notNull /\ d.default = c.default /\ d.identity = c.identity
           /\ d.type.base = c.type.base => d.type = c.type

(* The database refuses nothing but a change of type it has no cast for or *)
(* an identity column in the way.                                          *)
OnlyTypeChangeRefused == pc = "rejected" => Head(ops).kind = "SetType"
===============================================================================
