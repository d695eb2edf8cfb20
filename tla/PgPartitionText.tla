----------------------------- MODULE PgPartitionText -----------------------------
(***************************************************************************)
(* Partition bounds from the text to the server and back: what the         *)
(* PostgreSQL parser takes from PARTITION BY and FOR VALUES, which parent  *)
(* the normalizer folds a child into, how the generator writes the bound   *)
(* of an element and how the server spells it in the export.  The          *)
(* comparison in between is Partitions'.                                   *)
(*                                                                         *)
(* A text is a sequence of CREATE TABLE statements [at, parent, spec,      *)
(* bound]: at and parent are <<schema, name>>, spec is [strategy, type]    *)
(* (the type of the key column), a bound is [form, values] and a value is  *)
(* [n, spelled], a number, a string, MINVALUE or MAXVALUE ("limit") or     *)
(* another expression.  Numbers beyond ExactTo stand for those a double    *)
(* does not hold (2^53).                                                   *)
(***************************************************************************)
EXTENDS Integers, Sequences, FiniteSets, TLC
LOCAL SE == INSTANCE SequencesExt
LOCAL F == INSTANCE Functions

CONSTANTS Inputs,        \* <<current, desired>> pairs of texts
          Rank(_),       \* the order of names
          ExactTo

VARIABLES current, desired, enableDrop, ops, db, pc

Core == INSTANCE Partitions

NoTable == <<"", "no table">>
NoSpec == [strategy |-> "none", type |-> "none"]
NoBound == [form |-> "none", values |-> <<>>]
Limit == 1000

-------------------------------------------------------------------------------
(* parser.rs                                                               *)

(* Mutant: all numbers are read the same way.                              *)
ValueReadFirst(v) == IF v.spelled = "limit" THEN v ELSE [v EXCEPT !.n = 1]

(* parse_partition_a_const: what does not fit 32 bits is read as a double. *)
Value(v) == IF v.spelled = "number" /\ v.n > ExactTo THEN [v EXCEPT !.n = @ - (@ % 2)] ELSE v

Values(b) == [i \in DOMAIN b.values |-> Value(b.values[i])]

(* parse_partition_bound: DEFAULT and WITH (modulus, remainder) leave no   *)
(* bound.                                                                  *)
Bound(b) ==
    CASE b.form \in {"none", "default", "hash"} -> NoBound
      [] b.form = "in" /\ Len(b.values) = 1 /\ b.values[1].spelled = "limit" ->
            [form |-> "maxvalue", values |-> <<>>]
      [] OTHER -> [form |-> b.form, values |-> Values(b)]

(* parse_partition_expr, parse_partition_key_ident: constants and columns. *)
Parses(text) ==
    \A s \in F!Range(text) :
        /\ s.spec.type # "expression"
        /\ \A i \in DOMAIN s.bound.values : s.bound.values[i].spelled # "expression"

(* apply_partition_metadata: a bound takes the place of a PARTITION BY.    *)
Key(s) == IF s.bound.form = "none" THEN s.spec ELSE [strategy |-> s.bound.form, type |-> "no column"]

-------------------------------------------------------------------------------
(* normalize.rs                                                            *)

(* partition_element_from_child: the schema is not kept.                   *)
Element(s) == [name |-> s.at[2], bound |-> Bound(s.bound)]

(* Mutant: the first table of the text is taken.                           *)
FoldedIntoFirst(text, i) == IF text[i].parent = NoTable THEN {} ELSE {1} \ {i}

(* fold_partition_children: the parent is looked up by its name as it is   *)
(* written, among the tables that are no children.                         *)
FoldedInto(text, i) ==
    {p \in DOMAIN text : /\ text[i].parent # NoTable
                         /\ text[p].parent = NoTable
                         /\ text[p].at = text[i].parent}

(* An element is not added under a name its table has already; the child   *)
(* stays a table then, as one does whose parent is not found.              *)
Folded(text) ==
    {i \in DOMAIN text :
        \E p \in FoldedInto(text, i) :
            \A j \in 1..(i - 1) : p \in FoldedInto(text, j) => text[j].at[2] # text[i].at[2]}

Elements(text, p) ==
    LET children == SelectSeq([i \in DOMAIN text |-> i],
                              LAMBDA i : i \in Folded(text) /\ p \in FoldedInto(text, i))
    IN [k \in DOMAIN children |-> Element(text[children[k]])]

-------------------------------------------------------------------------------
(* The comparison.                                                         *)

(* The search path is public.                                              *)
Placed(at) == IF at[1] = "" THEN <<"public", at[2]>> ELSE at

TablesOf(text) ==
    [t \in {Placed(text[i].at) : i \in DOMAIN text \ Folded(text)} |->
        LET i == CHOOSE i \in DOMAIN text \ Folded(text) : Placed(text[i].at) = t
        IN [at |-> text[i].at, key |-> Key(text[i]),
            elements |-> IF text[i].parent = NoTable THEN Elements(text, i) ELSE <<Element(text[i])>>]]

KeyOf(t) == IF t.key = NoSpec THEN Core!NoKey ELSE ToString(t.key)

Compare(new, old, drop) ==
    LET n == TablesOf(new)
        o == TablesOf(old)
        WithKey(t) == [key |-> KeyOf(t), elements |-> t.elements]
        TableOps(t) ==
            IF t \in DOMAIN o THEN Core!PartitionOps(n[t].at, WithKey(n[t]), WithKey(o[t]), drop)
            ELSE <<[kind |-> "CreateTable", table |-> n[t].at, key |-> n[t].key]>>
        tables == SE!SetToSeq(DOMAIN n)
        gone == IF drop THEN SE!SetToSeq(DOMAIN o \ DOMAIN n) ELSE <<>>
    IN Core!SortDiffOps(SE!FlattenSeq([i \in DOMAIN tables |-> TableOps(tables[i])])
                        \o [i \in DOMAIN gone |-> [kind |-> "DropTable", table |-> gone[i]]])

-------------------------------------------------------------------------------
(* generator.rs                                                            *)

(* Mutant: the last value of a list is left out.                           *)
RenderBoundShort(b) ==
    IF b.form = "in" /\ Len(b.values) > 1 THEN [b EXCEPT !.values = SE!Front(@)] ELSE b

(* render_partition_bound                                                  *)
RenderBound(b) == b

(* render_create_partition: in the schema of the parent.                   *)
RenderPartition(table, e) ==
    [at |-> <<table[1], e.name>>, parent |-> table, spec |-> NoSpec, bound |-> RenderBound(e.bound)]

-------------------------------------------------------------------------------
(* The server.                                                             *)

(* What a statement means: numbers whatever their spelling.                *)
Meant(s) ==
    [s EXCEPT !.at = Placed(@), !.parent = IF @ = NoTable THEN @ ELSE Placed(@),
              !.bound = [@ EXCEPT !.values = [i \in DOMAIN @ |-> @[i].n]]]

DatabaseOf(text) == {Meant(s) : s \in F!Range(text)}

Overlap(b, c) ==
    CASE b.form = "in" -> F!Range(b.values) \cap F!Range(c.values) # {}
      [] b.form = "fromto" -> b.values[1] < c.values[2] /\ c.values[1] < b.values[2]
      [] OTHER -> b = c

FormOf == [range |-> "fromto", list |-> "in", hash |-> "hash"]

CreateAccepted(d, s) ==
    /\ \A r \in d : r.at # s.at
    /\ s.spec.type # "no column"
    /\ s.parent # NoTable =>
        /\ \E r \in d : /\ r.at = s.parent
                        /\ r.spec # NoSpec
                        /\ s.bound.form \in {FormOf[r.spec.strategy], "default"}
        /\ \A r \in d : r.parent = s.parent /\ r.bound.form = s.bound.form => ~Overlap(r.bound, s.bound)

StatementsOf(op) ==
    IF op.kind = "CreateTable"
    THEN {Meant([at |-> op.table, parent |-> NoTable, spec |-> op.key, bound |-> NoBound])}
    ELSE {Meant(RenderPartition(op.table, op.elements[i])) : i \in DOMAIN op.elements}

DroppedBy(op) == IF op.kind = "DropTable" THEN op.table ELSE Placed(<<op.table[1], op.name>>)

Accepts(d, op) ==
    IF op.kind \in {"DropTable", "DropPartition"} THEN \E r \in d : r.at = DroppedBy(op)
    ELSE \A s \in StatementsOf(op) : CreateAccepted(d, s)

Effect(d, op) ==
    IF op.kind \in {"DropTable", "DropPartition"}
    THEN {r \in d : DroppedBy(op) \notin {r.at, r.parent}}
    ELSE d \cup StatementsOf(op)

(* get_const_expr of the server writes an integer as a number, a negative  *)
(* one and a bigint in quotes.                                             *)
Spelled(n, type) ==
    [n |-> n, spelled |-> CASE n \in {Limit, -Limit} -> "limit"
                            [] type = "integer" /\ n >= 0 -> "number"
                            [] OTHER -> "string"]

(* TABLE_NAMES_QUERY and PARTITION_CHILD_TABLES_QUERY: qualified names.    *)
Exported(d) ==
    LET Sorted(T) == SE!SetToSortSeq(T, LAMBDA r, s : Rank(r.at[2]) < Rank(s.at[2]))
        TypeAt(r) == (CHOOSE p \in d : p.at = r.parent).spec.type
        Child(r) == [r EXCEPT !.spec = NoSpec,
                              !.bound.values = [i \in DOMAIN @ |-> Spelled(@[i], TypeAt(r))]]
        children == Sorted({r \in d : r.parent # NoTable})
    IN Sorted({r \in d : r.parent = NoTable}) \o [i \in DOMAIN children |-> Child(children[i])]

Comparable(new, old) == Parses(new) /\ Parses(Exported(DatabaseOf(old)))
Diff(new, old, drop) == Compare(new, Exported(DatabaseOf(old)), drop)

INSTANCE PlanRun

-------------------------------------------------------------------------------
(* Properties                                                              *)

(* A plan that runs to its end leaves the partitions of the text, each     *)
(* with its own bound, and with enable_drop no others.                     *)
AppliedMatchesDesired ==
    pc = "done" =>
        /\ DatabaseOf(desired) \subseteq db
        /\ enableDrop => db = DatabaseOf(desired)

(* A second run finds nothing to do, in the server's own spelling.         *)
SecondRunIsEmpty == pc = "done" => Compare(desired, Exported(db), enableDrop) = <<>>

(* A partition with the same values before and after is never dropped; its *)
(* rows would go with it.                                                  *)
SharedPartitionsStay == DatabaseOf(current) \cap DatabaseOf(desired) \subseteq db

(* The database refuses nothing.                                           *)
PlanAccepted == pc # "rejected"
===============================================================================
