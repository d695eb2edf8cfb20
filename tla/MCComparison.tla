------------------------------ MODULE MCComparison ------------------------------
(***************************************************************************)
(* The families of <<current, desired>> inputs of Comparison's parts; the  *)
(* comment on a family says what it leaves out.                            *)
(***************************************************************************)
EXTENDS Comparison, FiniteSetsExt, TLC

(* The parts without their inputs, whose operators the inputs are built    *)
(* with.                                                                   *)
C0 == INSTANCE ColumnDiff WITH Inputs <- {}
O0 == INSTANCE ObjectDiff WITH Inputs <- {}
A0 == INSTANCE AlterObjects WITH Inputs <- {}
V0 == INSTANCE Privileges WITH Inputs <- {}
P0 == INSTANCE Partitions WITH Inputs <- {}

UpTo2(S) == {{}} \cup {{a, b} : a, b \in S}
OneOfAName(S) == \A a, b \in S : a.name = b.name => a = b
OldNamesOf(names) == {{}} \cup {{n} : n \in names}

-------------------------------------------------------------------------------
(* Tables: three names in the schemas of the search path, up to two tables *)
(* on each side.                                                           *)

Path1 == <<"main">>
Path2 == <<"app", "public">>
TableNames == {"users", "people", "staff"}

DesiredTables(path) ==
    LET Tables == [name : {Name(s, n) : s \in F!Range(path) \cup {NoSchema}, n \in TableNames},
                   from : OldNamesOf(TableNames), shape : {"narrow", "wide"}]
    IN {ts \in UNION {[1..k -> Tables] : k \in 0..2} :
            \A i, j \in DOMAIN ts : ts[i].name = ts[j].name => i = j}

ExportsOf(schemas) ==
    LET names == {Name(s, n) : s \in schemas, n \in TableNames}
    IN UNION {[ns -> {"narrow"}] : ns \in {ns \in SUBSET names : Cardinality(ns) <= 2}}

(* Two desired tables of one name are told apart by their schemas.         *)
Separate(tables) ==
    \A i, j \in DOMAIN tables :
        i # j /\ tables[i].name.name = tables[j].name.name
            => NoSchema \notin {tables[i].name.schema, tables[j].name.schema}

(* Not: an old name that is another table's new or old name                *)
(* (compare.rs:102), an annotated table named without a schema where the   *)
(* export has them (compare.rs:414).                                       *)
NoNameReused(tables) ==
    \A i, j \in DOMAIN tables :
        /\ tables[i].from \cap {n.name : n \in NamesOf(tables)} = {}
        /\ i # j => tables[i].from \cap tables[j].from = {}

AnnotatedAsExported(tables, qualifies) ==
    \A i \in DOMAIN tables :
        tables[i].from # {} => (tables[i].name.schema # NoSchema) = qualifies

TablePairs(path, qualifies) ==
    ExportsOf(IF qualifies THEN F!Range(path) ELSE {NoSchema})
    \X {ts \in DesiredTables(path) :
            Separate(ts) /\ NoNameReused(ts) /\ AnnotatedAsExported(ts, qualifies)}

MCQualifiedTables == TablePairs(Path2, TRUE)
MCUnqualifiedTables == TablePairs(Path1, FALSE)

-------------------------------------------------------------------------------
(* Columns named 1 to 3 and checks named 1 and 2, up to two of each.       *)
(* Columns differ in type and NOT NULL, or in their default.               *)

Expr(v, stored) == [value |-> v, stored |-> stored]
PlainColumn(n, from) ==
    [name |-> n, from |-> from, type |-> "int", notNull |-> FALSE,
     default |-> C0!NoDefault, identity |-> FALSE]
Columns(froms, stored) ==
    LET variants(n, from) ==
            {PlainColumn(n, from), [PlainColumn(n, from) EXCEPT !.type = "text", !.notNull = TRUE],
             [PlainColumn(n, from) EXCEPT !.default = Expr("zero", stored)]}
    IN {cs \in UpTo2(UNION {variants(n, f) : n \in 1..3, f \in froms}) : OneOfAName(cs)}

TableWith(columns, checks) == [columns |-> columns, checks |-> checks]

(* Not: an old name that is another column's new or old name               *)
(* (compare.rs:189), a change of identity (compare.rs:444).                *)
ColumnShapes ==
    {<<TableWith(old, {}), TableWith(new, {})>> :
        old \in Columns({{}}, TRUE),
        new \in {cs \in Columns(OldNamesOf(1..3), FALSE) :
                    \A c, d \in cs : /\ c.from \cap {e.name : e \in cs} = {}
                                     /\ c # d => c.from \cap d.from = {}}}

Checks(stored) ==
    {ks \in UpTo2([name : {1, 2}, reads : {1, 2}, expr : {Expr(v, stored) : v \in {"a", "b"}}]) :
        OneOfAName(ks)}

(* The table keeps its columns, or the second one gets the name 3.  Not:   *)
(* checks without a name (compare.rs:391), a check that is dropped         *)
(* together with the column it reads (ordering.rs:219).                    *)
CheckPairs ==
    LET two == {PlainColumn(1, {}), PlainColumn(2, {})}
        renamed == {PlainColumn(1, {}), PlainColumn(3, {2})}
        moved(checks) == {[k EXCEPT !.reads = IF @ = 2 THEN 3 ELSE @] : k \in checks}
    IN UNION {{<<TableWith(two, old), TableWith(two, new)>>,
               <<TableWith(two, old), TableWith(renamed, moved(new))>>} :
                    old \in Checks(TRUE), new \in Checks(FALSE)}

MCColumnPairs == ColumnShapes \cup CheckPairs

-------------------------------------------------------------------------------
(* Up to two indexes, named 1 to 3, on the table users of the schema       *)
(* public.                                                                 *)

Users == Name("public", "users")
Index(owner, n, def, from) == [owner |-> owner, name |-> n, def |-> def, from |-> from]

Indexes(names, owner, froms) ==
    {s \in UpTo2({Index(owner, n, def, from) : n \in names, def \in {"a", "b"}, from \in froms}) :
        OneOfAName(s)}

Exporting(indexes) == [tables |-> [n \in {Users} |-> "any"], indexes |-> indexes]
Wanting(indexes) ==
    [tables |-> <<[name |-> Users, from |-> {}, shape |-> "any"]>>, indexes |-> indexes]

(* Not: owners written without their schema (compare.rs:366), a table that *)
(* is renamed with its index (compare.rs:306), an annotation whose rename  *)
(* is done already (compare.rs:366).                                       *)
RenamePending(in) ==
    \A ix \in in[2].indexes : \A n \in ix.from :
        /\ n \notin {jx.name : jx \in in[2].indexes}
        /\ \A jx \in in[2].indexes : ix # jx => jx.from # {n}
        /\ ix.name \notin {jx.name : jx \in in[1].indexes}

KeptTable ==
    {in \in {<<Exporting(old), Wanting(new)>> :
                old \in Indexes(1..3, Users, {{}}), new \in Indexes(0..3, Users, OldNamesOf(1..3))} :
        RenamePending(in)}

(* Indexes without a name, or on a table their own schema does not have:   *)
(* the comparison fails.                                                   *)
InvalidIndexes ==
    {<<Exporting({}), Wanting({Index(owner, n, "a", {})})>> :
        owner \in {Users, Name(NoSchema, "users"), Name("public", "people")}, n \in 0..1}

MCIndexPairs == KeptTable \cup InvalidIndexes

-------------------------------------------------------------------------------
(* Objects of three kinds each of which uses another, or is used by it.    *)
(* Not: a function used by a trigger or using a type, which the order of   *)
(* the groups does not allow for (ordering.rs:118).                        *)

Uses == [Table |-> {"Type", "Domain", "Sequence", "Extension", "Schema"},
         MaterializedView |-> {"Table", "Type", "Schema"}, Sequence |-> {"Schema"},
         Trigger |-> {"Table"}, Function |-> {"Extension", "Schema"}, Type |-> {"Schema"},
         Domain |-> {"Type", "Extension", "Schema"}, Extension |-> {}, Schema |-> {},
         Comment |-> {"Table"}, Policy |-> {"Table"}]

(* An object as it is and changed, in what can be altered or not; for a    *)
(* comment, also none.                                                     *)
FormsOf(k) ==
    {<<"a", 1>>, <<"a", 2>>} \cup
        CASE k \in O0!Alterable \ {"Table"} -> {<<"b", 1>>}
          [] k = "Comment" -> {<<O0!NoText, 1>>}
          [] OTHER -> {}

(* Schemas of some of the given kinds, each object using whatever it can   *)
(* of those present.                                                       *)
ObjectSchemas(kinds) ==
    UNION {{[k \in present |-> [core |-> form[k][1], detail |-> form[k][2],
                                uses |-> Uses[k] \cap present]] :
                form \in {f \in [present -> UNION {FormsOf(k) : k \in present}] :
                            \A k \in present : f[k] \in FormsOf(k)}} : present \in SUBSET kinds}

Redefined(k, in) ==
    in[1][k].core # in[2][k].core \/ (k \notin O0!Alterable /\ in[1][k] # in[2][k])

(* What is redefined or gets other uses is used by nothing that stays.     *)
(* Not: a comment that goes with its table (ordering.rs:118).              *)
FreeToChange(in) ==
    /\ \A k \in DOMAIN in[1] :
        (k \notin DOMAIN in[2] \/ Redefined(k, in)) =>
            \A u \in DOMAIN in[1] : k \in in[1][u].uses => u \notin DOMAIN in[2]
    /\ "Comment" \in O0!There(in[1]) => "Table" \in DOMAIN in[2]

Chains ==
    {ks \in kSubset(3, DOMAIN Uses) : \A k \in ks : \E l \in ks : l \in Uses[k] \/ k \in Uses[l]}

MCObjectPairs ==
    {in \in UNION {ObjectSchemas(ks) \X ObjectSchemas(ks) : ks \in Chains} : FreeToChange(in)}

-------------------------------------------------------------------------------
(* Enum types, sequences and domains.                                      *)

LabelLists ==
    {s \in UNION {[1 .. n -> {"a", "b", "c", "d"}] : n \in 1 .. 3} :
        \A i, j \in DOMAIN s : s[i] = s[j] => i = j}

(* No column has the type, or one has it whose default stays.  Not: a      *)
(* default that is a new label (dialect-postgres/src/generator.rs:269).    *)
TypePairs ==
    LET LastOf(l) == l[Len(l)]
    IN {<<"Type" :> l, "Type" :> m>> : l, m \in LabelLists}
       \cup UNION {{<<("Type" :> l) @@ ("Column" :> LastOf(l)),
                      ("Type" :> m) @@ ("Column" :> LastOf(l))>> :
                        m \in {k \in LabelLists : \E i \in DOMAIN k : k[i] = LastOf(l)}} :
                    l \in LabelLists}

(* Any two fields of a sequence differ.                                    *)
FieldsOf(v) == [data_type |-> v, increment |-> v, min_value |-> v, max_value |-> v,
                start |-> v, cache |-> v, cycle |-> "no", owned_by |-> A0!None]
SequencePairs ==
    LET sequences == {[[FieldsOf("1") EXCEPT ![f] = x] EXCEPT ![g] = y] :
                        f, g \in DOMAIN FieldsOf("1"), x, y \in {A0!None, "1", "2"}}
        one == "Sequence" :> FieldsOf("1")
    IN UNION {{<<"Sequence" :> s, one>>, <<one, "Sequence" :> s>>} : s \in sequences}

CheckLists ==
    {s \in UNION {[1 .. n -> [name : {"k", "l", A0!None}, expr : {1, 2}]] : n \in 0 .. 2} :
        \A i, j \in DOMAIN s : i # j => s[i] # s[j] /\ (s[i].name = s[j].name => s[i].name = A0!None)}
Domains == [data_type : {"int"}, default : {A0!None, "1"}, not_null : {"no"}, checks : CheckLists]
OtherDomains ==
    [data_type : {"int", "text"}, default : {A0!None}, not_null : {"yes"}, checks : CheckLists]
DomainPairs == {<<"Domain" :> d, "Domain" :> e>> : d \in Domains, e \in Domains \cup OtherDomains}

(* Types, sequences and domains also appear and disappear.                 *)
AppearingPairs ==
    LET o == <<"Type" :> <<"a">>, "Sequence" :> FieldsOf("1"),
               "Domain" :> CHOOSE d \in Domains : d.checks # <<>>>>
    IN {<<o[i], o[j]>> : i, j \in DOMAIN o}

MCAlteredPairs == TypePairs \cup SequencePairs \cup DomainPairs \cup AppearingPairs

-------------------------------------------------------------------------------
(* Privileges on two tables, at most one per table.  Not: a grant option   *)
(* that is taken back (dialect-postgres/src/generator.rs:1122), several    *)
(* privileges of one key (privilege.rs:114).                               *)

Entries == [key : {"t1"}, operations : SUBSET {"Select", "Insert", "Update"} \ {{}},
            option : BOOLEAN] \cup [key : {"t2"}, operations : {{"Select"}}, option : BOOLEAN]

PrivilegeLists ==
    {s \in UNION {[1 .. n -> Entries] : n \in 0 .. 2} :
        \A i, j \in DOMAIN s : s[i].key = s[j].key => i = j}

MCPrivilegePairs ==
    LET WithOption(s, key) == V0!Granted(s, key, {TRUE}) # {}
    IN {in \in PrivilegeLists \X PrivilegeLists :
            \A key \in V0!Keys(in[1]) \cap V0!Keys(in[2]) :
                WithOption(in[1], key) => WithOption(in[2], key)}

-------------------------------------------------------------------------------
(* One table, up to three partitions of it named a, b and c; the desired   *)
(* text has the table first or last.                                       *)

NameRank(n) == CASE n = "a" -> 1 [] n = "b" -> 2 [] n = "c" -> 3 [] OTHER -> 4

Parent == P0!TableStatement("t", "x")

ChildSets ==
    {cs \in SUBSET {P0!PartitionStatement("t", [name |-> n, bound |-> b]) :
                        n \in {"a", "b", "c"}, b \in {{1}, {2}, {1, 2}, {3}}} :
        \A r, s \in cs : r # s => r.name # s.name /\ r.bound \cap s.bound = {}}

(* New partitions take values no other partition has ever had.  Not: one   *)
(* that takes over values (partition.rs:53), another partition key         *)
(* (partition.rs:40), a table that is new (compare.rs:128), DEFAULT        *)
(* (dialect-postgres/src/parser.rs:324).                                   *)
MCPartitionPairs ==
    LET textsOf(cs) == {<<Parent>> \o SE!SetToSeq(cs), SE!SetToSeq(cs) \o <<Parent>>}
        rollsOn(old, new) ==
            \A s \in new \ old : \A r \in old : r.name # s.name => r.bound \cap s.bound = {}
    IN UNION {{<<P0!Exported(cs[1] \cup {Parent}), text>> : text \in textsOf(cs[2])} :
                cs \in {p \in ChildSets \X ChildSets : rollsOn(p[1], p[2])}}

-------------------------------------------------------------------------------
(* A plan of up to four operations, some of them alike, of which an engine *)
(* leaves out destructive ones one at a time.                              *)

MCPlans ==
    LET op(kind, name) == [kind |-> kind, name |-> name]
    IN UNION {[1 .. n -> {op("DropCheck", "-"), op("DropTable", "t"), op("AddCheck", "-")}] :
                n \in 0 .. 4}
================================================================================
