--------------------------------- MODULE PgTypes ---------------------------------
(***************************************************************************)
(* The types of PostgreSQL columns from the text to the server and back:   *)
(* which types the parser knows by their last name, what the normalizer    *)
(* makes of the others, how the generator writes them, which type the      *)
(* server finds under that name and how it spells it in the export.        *)
(*                                                                         *)
(* A text is one table, a function from its columns to types [path,        *)
(* array]; a path is a sequence of names [word, upper] as pg_query leaves  *)
(* them: upper is a word with capitals, and keywords such as INTEGER are   *)
(* names in pg_catalog.  Modifiers are in PgColumns, as are the casts      *)
(* between types: every change of type can be made here.                   *)
(***************************************************************************)
EXTENDS Sequences
LOCAL SE == INSTANCE SequencesExt
LOCAL F == INSTANCE Functions

CONSTANTS
    Inputs,        \* <<current, desired>> pairs of texts
    Types,         \* the types of the server, <<schema, name>>
    SearchPath     \* the schemas of the session after pg_catalog

VARIABLES current, desired, enableDrop, ops, db, pc

Name(word) == [word |-> word, upper |-> FALSE]
Catalog == Name("pg_catalog")

-------------------------------------------------------------------------------
(* parser.rs                                                               *)

(* convert_data_type: the built-in types by the names pg_query gives them  *)
(* (the one-byte type "char" is left out).                                 *)
BuiltIn ==
    {"bool", "int2", "int4", "int8", "float4", "float8", "numeric", "text", "varchar", "bpchar",
     "bytea", "date", "time", "timetz", "timestamp", "timestamptz", "json", "jsonb", "uuid"}

(* Mutants: the names are not looked up; arrays are not read.              *)
ConvertDataTypeByPath(t) == [known |-> FALSE, path |-> t.path, array |-> t.array]
ConvertDataTypeScalar(t) ==
    LET base == SE!Last(t.path).word
    IN IF base \in BuiltIn THEN [known |-> TRUE, path |-> <<Name(base)>>, array |-> FALSE]
       ELSE [known |-> FALSE, path |-> t.path, array |-> FALSE]

(* The last name decides, without its case and whatever schema it is in.   *)
ConvertDataType(t) ==
    LET base == SE!Last(t.path).word
    IN IF base \in BuiltIn THEN [known |-> TRUE, path |-> <<Name(base)>>, array |-> t.array]
       ELSE [known |-> FALSE, path |-> t.path, array |-> t.array]

-------------------------------------------------------------------------------
(* normalize.rs                                                            *)

(* normalize_segment: lower case, whether the name was quoted or not.      *)
NormalizeSegment(n) == Name(n.word)

(* normalize_data_type, canonical_custom: the schema stays.                *)
NormalizeDataType(d) ==
    IF d.known THEN d ELSE [d EXCEPT !.path = [i \in DOMAIN @ |-> NormalizeSegment(@[i])]]

SchemaOf(text) == [c \in DOMAIN text |-> NormalizeDataType(ConvertDataType(text[c]))]

-------------------------------------------------------------------------------
(* compare_columns, as far as types go: Custom types are compared by their *)
(* text, no policy of PostgreSQL knows more.                               *)
Compare(new, old, drop) ==
    LET n == SchemaOf(new)
        o == SchemaOf(old)
        Ops(kind, columns) == [i \in DOMAIN columns |-> [kind |-> kind, column |-> columns[i]]]
        Typed(kind, columns) ==
            [i \in DOMAIN columns |-> [kind |-> kind, column |-> columns[i], type |-> n[columns[i]]]]
    IN Typed("AddColumn", SE!SetToSeq(DOMAIN n \ DOMAIN o))
       \o Typed("SetType", SE!SetToSeq({c \in DOMAIN n \cap DOMAIN o : n[c] # o[c]}))
       \o (IF drop THEN Ops("DropColumn", SE!SetToSeq(DOMAIN o \ DOMAIN n)) ELSE <<>>)

-------------------------------------------------------------------------------
(* generator.rs                                                            *)

(* The types that are keywords; pg_query and the server find them in       *)
(* pg_catalog.                                                             *)
Keywords ==
    {"bool", "int2", "int4", "int8", "float4", "float8", "numeric", "varchar", "bpchar",
     "time", "timetz", "timestamp", "timestamptz", "varbit"}

(* Mutant: only the last name is written.                                  *)
RenderDataTypeBare(d) == [path |-> <<SE!Last(d.path)>>, array |-> d.array]

(* render_data_type: a known type by its keyword, another one as it is.    *)
RenderDataType(d) ==
    [path |-> IF d.known /\ d.path[1].word \in Keywords THEN <<Catalog>> \o d.path ELSE d.path,
     array |-> d.array]

-------------------------------------------------------------------------------
(* The server.                                                             *)

Found(path) ==
    IF Len(path) = 2 THEN {path} \cap Types
    ELSE LET places == SelectSeq(<<Catalog>> \o SearchPath, LAMBDA s : <<s, path[1]>> \in Types)
         IN IF places = <<>> THEN {} ELSE {<<places[1], path[1]>>}

Exists(t) == Found(t.path) # {}
Meant(t) == [type |-> CHOOSE f \in Found(t.path) : TRUE, array |-> t.array]

DatabaseOf(text) == [c \in DOMAIN text |-> Meant(text[c])]

Accepts(d, op) == op.kind # "DropColumn" => Exists(RenderDataType(op.type))

Effect(d, op) ==
    IF op.kind = "DropColumn" THEN F!Restrict(d, DOMAIN d \ {op.column})
    ELSE [c \in DOMAIN d \cup {op.column} |->
            IF c = op.column THEN Meant(RenderDataType(op.type)) ELSE d[c]]

(* TABLE_COLUMNS_QUERY: format_type writes the schema when the name alone  *)
(* would not find the type.                                                *)
FormatType(m) ==
    [path |-> IF m.type[1] = Catalog /\ m.type[2].word \in Keywords THEN m.type
              ELSE IF Found(<<m.type[2]>>) = {m.type} THEN <<m.type[2]>>
              ELSE m.type,
     array |-> m.array]

Exported(d) == [c \in DOMAIN d |-> FormatType(d[c])]

Comparable(new, old) == TRUE
Diff(new, old, drop) == Compare(new, Exported(DatabaseOf(old)), drop)

INSTANCE PlanRun

-------------------------------------------------------------------------------
(* Properties                                                              *)

(* A plan that runs to its end leaves every column with the very type the  *)
(* text means, found in the same schema.                                   *)
AppliedMatchesDesired ==
    pc = "done" => \A c \in DOMAIN desired : c \in DOMAIN db /\ db[c] = Meant(desired[c])

(* No spelling of a type, in the text or in the export, rewrites a column  *)
(* that has the type already; a second run finds nothing to do.            *)
SameTypeIsLeftAlone ==
    /\ pc = "apply" =>
        \A i \in DOMAIN ops : ops[i].kind = "SetType" =>
            DatabaseOf(current)[ops[i].column] # Meant(desired[ops[i].column])
    /\ pc = "done" => Compare(desired, Exported(db), enableDrop) = <<>>

(* Every type of the text exists, and the server finds all the plan names. *)
PlanAccepted == pc # "rejected"
===============================================================================
