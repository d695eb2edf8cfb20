------------------------------- MODULE Partitions -------------------------------
(***************************************************************************)
(* Partitioned PostgreSQL tables: partition children are statements of     *)
(* their own in SQL text and in the export, elements of their parent's     *)
(* partition in the schema (fold_partition_children of                     *)
(* dialect-postgres/src/normalize.rs), compared by                         *)
(* core/src/diff/partition.rs and created and dropped as tables again by   *)
(* dialect-postgres/src/generator.rs.                                      *)
(*                                                                         *)
(* SQL text is a sequence of CREATE TABLE statements: a name, the parent   *)
(* or NoTable, the columns of PARTITION BY or NoKey, and the values of FOR *)
(* VALUES as a set of numbers, {} where there is none, Default for         *)
(* DEFAULT.  The database is the set of these statements.                  *)
(***************************************************************************)
EXTENDS OpOrder
F == INSTANCE Functions

CONSTANTS Inputs,        \* <<current, desired>> pairs of SQL texts
          Rank(_)        \* the order of names in a BTreeMap

NoTable == "no table"
NoKey == "no key"
Default == {0}

Named(text, name) == {s \in F!Range(text) : s.name = name}

-------------------------------------------------------------------------------
(* apply_partition_metadata: DEFAULT has no bound in the schema.  A bound  *)
(* takes the place of a key of its own.                                    *)
Element(s) == [name |-> s.name, bound |-> IF s.bound = Default THEN {} ELSE s.bound]

(* Mutant: the parent has to come first in the text.                       *)
FoldInOrder(text, parent) ==
    LET p == SE!SelectInSeq(text, LAMBDA s : s.name = parent)
        children == SelectSeq(SubSeq(text, p, Len(text)), LAMBDA s : s.parent = parent)
    IN [i \in DOMAIN children |-> Element(children[i])]

(* fold_partition_children: the children of a table of the same text, in   *)
(* the order of the text, wherever the parent is.  Names are unique, so    *)
(* that no element is there twice.                                         *)
Fold(text, parent) ==
    LET children == Picked(text, {i \in DOMAIN text : text[i].parent = parent})
    IN [i \in DOMAIN children |-> Element(children[i])]

(* The tables of the schema with their partitions.                         *)
Normalized(text) ==
    LET tables == {s \in F!Range(text) : s.parent = NoTable}
        Table(name) == CHOOSE s \in tables : s.name = name
    IN [n \in {s.name : s \in tables} |->
            [key |-> Table(n).key, elements |-> Fold(text, n)]]

-------------------------------------------------------------------------------
(* core/src/diff/partition.rs                                              *)

Add(t, elements) == [kind |-> "AddPartition", table |-> t, elements |-> elements]
DropPart(t, name) == [kind |-> "DropPartition", table |-> t, name |-> name]

(* map_elements_by_name: in the order of the names.                        *)
ByName(elements) ==
    LET upTo(e) == {f \in F!Range(elements) : Rank(f.name) <= Rank(e.name)}
    IN [r \in 1..Cardinality(F!Range(elements)) |->
            CHOOSE e \in F!Range(elements) : Cardinality(upTo(e)) = r]

Drops(t, elements, enableDrop) ==
    IF enableDrop THEN [i \in DOMAIN elements |-> DropPart(t, elements[i].name)] ELSE <<>>

(* Mutants: partitions are all made anew; only names are compared; what is *)
(* not desired is dropped whatever enable_drop says.                       *)
PartitionUpdatesAnew(t, new, old, enableDrop) ==
    Drops(t, ByName(old), enableDrop)
    \o [i \in DOMAIN ByName(new) |-> Add(t, <<ByName(new)[i]>>)]

PartitionUpdatesForgetBound(t, new, old, enableDrop) ==
    LET IsNew(e) == \A o \in F!Range(old) : o.name # e.name
        IsGone(e) == \A n \in F!Range(new) : n.name # e.name
        added == SelectSeq(ByName(new), IsNew)
    IN [i \in DOMAIN added |-> Add(t, <<added[i]>>)]
       \o Drops(t, SelectSeq(ByName(old), IsGone), enableDrop)

PartitionUpdatesDropAlways(t, new, old, enableDrop) ==
    LET IsNew(e) == e \notin F!Range(old)
        IsGone(e) == e \notin F!Range(new)
        added == SelectSeq(ByName(new), IsNew)
    IN Drops(t, SelectSeq(ByName(old), IsGone), TRUE)
       \o [i \in DOMAIN added |-> Add(t, <<added[i]>>)]

(* Mutant: a changed partition is added before the old one is dropped.     *)
PartitionUpdatesAddFirst(t, new, old, enableDrop) ==
    LET changed == SelectSeq(ByName(new), LAMBDA e : e \notin F!Range(old))
        gone == SelectSeq(ByName(old), LAMBDA e : e \notin F!Range(new))
    IN [i \in DOMAIN changed |-> Add(t, <<changed[i]>>)] \o Drops(t, gone, enableDrop)

(* compare_partition_updates, the same key: name by name the new and the   *)
(* changed elements, then the elements that are gone.                      *)
PartitionUpdates(t, new, old, enableDrop) ==
    LET Update(e) ==
            IF e \in F!Range(old) THEN <<>>
            ELSE Drops(t, SelectSeq(old, LAMBDA o : o.name = e.name), enableDrop)
                 \o <<Add(t, <<e>>)>>
        IsGone(e) == \A n \in F!Range(new) : n.name # e.name
        names == ByName(new)
    IN SE!FlattenSeq([i \in DOMAIN names |-> Update(names[i])])
       \o Drops(t, SelectSeq(ByName(old), IsGone), enableDrop)

(* diff_partition: nothing is said about the parent of new elements.       *)
PartitionOps(t, new, old, enableDrop) ==
    CASE new.key # NoKey /\ old.key = NoKey -> <<Add(t, new.elements)>>
      [] new.key = NoKey /\ old.key # NoKey -> Drops(t, old.elements, enableDrop)
      [] new.key # NoKey /\ old.key # NoKey ->
            IF new.key = old.key
            THEN PartitionUpdates(t, new.elements, old.elements, enableDrop)
            ELSE Drops(t, old.elements, enableDrop) \o <<Add(t, new.elements)>>
      [] OTHER -> <<>>

(* compare_tables: a table that is new is created without its elements.    *)
Diff(text, exported, enableDrop) ==
    LET new == Normalized(text)
        old == Normalized(exported)
        TableOps(t) ==
            IF t \in DOMAIN old THEN PartitionOps(t, new[t], old[t], enableDrop)
            ELSE <<[kind |-> "CreateTable", table |-> t, key |-> new[t].key]>>
        Gone == IF enableDrop THEN SE!SetToSeq(DOMAIN old \ DOMAIN new) ELSE <<>>
        tables == SE!SetToSeq(DOMAIN new)
    IN SortDiffOps(SE!FlattenSeq([i \in DOMAIN tables |-> TableOps(tables[i])])
                   \o [i \in DOMAIN Gone |-> [kind |-> "DropTable", table |-> Gone[i]]])

-------------------------------------------------------------------------------
(* The statements and the database.                                        *)

TableStatement(name, key) == [name |-> name, parent |-> NoTable, key |-> key, bound |-> {}]

(* render_create_partition                                                 *)
PartitionStatement(t, e) == [name |-> e.name, parent |-> t, key |-> NoKey, bound |-> e.bound]

DatabaseOf(text) == F!Range(text)

(* A partition needs a partitioned parent, a bound and values that no      *)
(* partition of the parent has.                                            *)
CreateAccepted(d, s) ==
    /\ \A r \in d : r.name # s.name
    /\ s.parent # NoTable =>
        /\ \E r \in d : r.name = s.parent /\ r.key # NoKey
        /\ s.bound # {}
        /\ \A r \in d : r.parent = s.parent => r.bound \cap s.bound = {}

PartitionStatements(op) == {PartitionStatement(op.table, op.elements[i]) : i \in DOMAIN op.elements}

Accepts(d, op) ==
    CASE op.kind = "CreateTable" -> CreateAccepted(d, TableStatement(op.table, op.key))
      [] op.kind = "AddPartition" -> \A s \in PartitionStatements(op) : CreateAccepted(d, s)
      [] op.kind = "DropPartition" -> \E r \in d : r.name = op.name
      [] op.kind = "DropTable" -> \E r \in d : r.name = op.table

Effect(d, op) ==
    CASE op.kind = "CreateTable" -> d \cup {TableStatement(op.table, op.key)}
      [] op.kind = "AddPartition" -> d \cup PartitionStatements(op)
      [] op.kind = "DropPartition" -> {r \in d : r.name # op.name}
      [] op.kind = "DropTable" -> {r \in d : op.table \notin {r.name, r.parent}}

(* The export: the tables by name, then the partitions by name.            *)
Exported(d) ==
    LET Sorted(T) == SE!SetToSortSeq(T, LAMBDA r, s : Rank(r.name) < Rank(s.name))
    IN Sorted({r \in d : r.parent = NoTable}) \o Sorted({r \in d : r.parent # NoTable})

Comparable(new, old) == TRUE

VARIABLES current, desired, enableDrop, ops, db, pc

INSTANCE PlanRun

-------------------------------------------------------------------------------
(* Properties                                                              *)

(* A plan that runs to its end leaves the tables and the partitions the    *)
(* text describes and, with enable_drop, no others.                        *)
AppliedMatchesDesired ==
    pc = "done" =>
        /\ F!Range(desired) \subseteq db
        /\ enableDrop => db = F!Range(desired)

(* A second run finds nothing to do.                                       *)
SecondRunIsEmpty == pc = "done" => Diff(desired, Exported(db), enableDrop) = <<>>

(* A partition that both texts have is never dropped, however the texts    *)
(* are ordered: its rows stay.                                             *)
SharedPartitionsStay == F!Range(current) \cap F!Range(desired) \subseteq db

(* Without enable_drop no partition is dropped.                            *)
NothingLostWithoutDrop == ~enableDrop => F!Range(current) \subseteq db

(* The database refuses a partition only for another form of it, which     *)
(* enable_drop does not let go.                                            *)
OnlyChangedRefused ==
    pc = "rejected" =>
        /\ ~enableDrop
        /\ \E i \in DOMAIN Head(ops).elements :
              Named(current, Head(ops).elements[i].name) # {}
===============================================================================
