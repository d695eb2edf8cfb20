------------------------------- MODULE IndexDiff -------------------------------
(***************************************************************************)
(* compare_indexes (core/src/diff/compare.rs): indexes are paired by owner *)
(* and name, through the search path or a rename annotation, while         *)
(* TableMatch plans what becomes of their tables.                          *)
(*                                                                         *)
(* An index is [owner, name, def, from]: the table it is declared on, as   *)
(* written, a number or Unnamed, what it is on, and the set of at most one *)
(* old name its annotation keeps.                                          *)
(***************************************************************************)
EXTENDS TableMatch

CONSTANT Inputs          \* <<exported, desired>> pairs

Unnamed == 0

AddIndex(ix) == [kind |-> "AddIndex", index |-> ix]
DropIndex(ix) == [kind |-> "DropIndex", index |-> ix]
RenameIndex(ix, old) == [kind |-> "RenameIndex", index |-> ix, old |-> old]

(* IndexLookupKey                                                          *)
IndexKey(ix) == [owner |-> ix.owner, name |-> ix.name]
KeysOf(indexes) == {IndexKey(ix) : ix \in indexes}
IndexAt(indexes, key) == CHOOSE ix \in indexes : IndexKey(ix) = key

(* Keys are visited in their order; owners do not compete for each other's *)
(* indexes, so only the order of the names is kept.                        *)
InKeyOrder(indexes) == SE!SetToSortSeq(indexes, LAMBDA ix, jx : ix.name < jx.name)

-------------------------------------------------------------------------------
(* Errors of the comparison                                                *)

(* validate_index_owners and index_lookup_key: the owner of an index is    *)
(* looked up among the tables of its own schema, exactly as written.       *)
IndexesValid(indexes, tables) ==
    \A ix \in indexes : ix.owner \in tables /\ ix.name # Unnamed

Comparable(new, old) ==
    /\ IndexesValid(new.indexes, NamesOf(new.tables))
    /\ IndexesValid(old.indexes, DOMAIN old.tables)

-------------------------------------------------------------------------------
(* compare_indexes                                                         *)

(* resolve_index_match                                                     *)
ResolveIndex(key, keys, matched) ==
    LET at(owner) == [key EXCEPT !.owner = owner]
        free == SelectSeq(Candidates(key.owner, SearchPath),
                          LAMBDA owner : at(owner) \in keys \ matched)
    IN IF free = <<>> THEN {} ELSE {at(Head(free))}

(* Mutants: the annotation alone decides; the index that is to be renamed  *)
(* is compared with its name.                                              *)
AnnotationDecides(ix, jx) == TRUE

EquivalentWithName(ix, jx) == ix.owner = jx.owner /\ ix.def = jx.def /\ ix.name = jx.name

(* indexes_equivalent_for_rename                                           *)
EquivalentForRename(ix, jx) == ix.owner = jx.owner /\ ix.def = jx.def

(* push_index_update_ops: everything counts, the way the owner is written  *)
(* and the annotation included.                                            *)
UpdateOps(ix, jx, enableDrop) ==
    IF ix = jx THEN <<>>
    ELSE (IF enableDrop THEN <<DropIndex(jx)>> ELSE <<>>) \o <<AddIndex(ix)>>

(* One turn of compare_indexes: the current indexes it marks as matched    *)
(* and the operations it adds.                                             *)
MatchIndex(ix, old, matched, enableDrop) ==
    LET keys == KeysOf(old)
        exact == {IndexKey(ix)} \cap keys
        kept == IF exact # {} THEN exact ELSE ResolveIndex(IndexKey(ix), keys, matched)
        renamed == {key \in ResolveRename({[owner |-> ix.owner, name |-> n] : n \in ix.from},
                                          keys, matched) :
                        EquivalentForRename(ix, IndexAt(old, key))}
        the(found) == IndexAt(old, CHOOSE key \in found : TRUE)
    IN IF kept # {} THEN [matched |-> kept, ops |-> UpdateOps(ix, the(kept), enableDrop)]
       ELSE IF renamed # {}
       THEN [matched |-> renamed, ops |-> <<RenameIndex(ix, the(renamed).name)>>]
       ELSE [matched |-> {}, ops |-> <<AddIndex(ix)>>]

MatchIndexes(new, old, enableDrop) ==
    LET order == InKeyOrder(new)
        match[i \in 0..Len(order)] ==
            IF i = 0 THEN [matched |-> {}, ops |-> <<>>]
            ELSE LET turn == MatchIndex(order[i], old, match[i - 1].matched, enableDrop)
                 IN [matched |-> match[i - 1].matched \cup turn.matched,
                     ops |-> match[i - 1].ops \o turn.ops]
    IN match[Len(order)]

(* Mutant: an index whose key the desired schema has no more is dropped,   *)
(* renamed or not.                                                         *)
CompareIndexesDropsRenamed(new, old, enableDrop) ==
    LET stale == {jx \in old : IndexKey(jx) \notin KeysOf(new)}
    IN MatchIndexes(new, old, enableDrop).ops
       \o IF enableDrop THEN SE!SetToSeq({DropIndex(jx) : jx \in stale}) ELSE <<>>

CompareIndexes(new, old, enableDrop) ==
    LET match == MatchIndexes(new, old, enableDrop)
        stale == {jx \in old : IndexKey(jx) \notin KeysOf(new) \cup match.matched}
    IN match.ops
       \o IF enableDrop THEN SE!SetToSeq({DropIndex(jx) : jx \in stale}) ELSE <<>>

(* compare_objects                                                         *)
Diff(new, old, enableDrop) ==
    SortDiffOps(CompareTables(new.tables, old.tables, enableDrop)
                \o CompareIndexes(new.indexes, old.indexes, enableDrop))

-------------------------------------------------------------------------------
(* A database of tables and their indexes: an index lives in the schema of *)
(* its table, under a name unique there, follows its table and goes with   *)
(* it.  built tells whether the index is one the run began with.           *)

DatabaseOf(exported) ==
    [tables |-> TablesOfExport(exported.tables),
     indexes |-> {[owner |-> Placed(ix.owner), name |-> ix.name, def |-> ix.def,
                   built |-> "before"] : ix \in exported.indexes}]

Exported(d) ==
    [tables |-> ExportedTables(d.tables),
     indexes |-> {[owner |-> IF ExportQualifies THEN ix.owner
                             ELSE [ix.owner EXCEPT !.schema = NoSchema],
                   name |-> ix.name, def |-> ix.def, from |-> {}] : ix \in d.indexes}]

IndexName(ix) == Name(ix.owner.schema, ix.name)

(* The index a statement names: by its name, in the schema of the owner it *)
(* is written with, along the search path when that has none.              *)
Named(d, owner, name) ==
    LET names == {IndexName(ix) : ix \in d.indexes}
        key == Name(owner.schema, name)
        found == IF owner.schema = NoSchema THEN ResolveQualified(key, names, {}, SearchPath)
                 ELSE {key} \cap names
    IN {ix \in d.indexes : IndexName(ix) \in found}

Accepts(d, op) ==
    CASE op.kind = "AddIndex" ->
            \E owner \in Resolve(d.tables, op.index.owner) :
                \A ix \in d.indexes : IndexName(ix) # Name(owner.schema, op.index.name)
      [] op.kind = "DropIndex" -> Named(d, op.index.owner, op.index.name) # {}
      [] op.kind = "RenameIndex" ->
            /\ Named(d, op.index.owner, op.old) # {}
            /\ Named(d, op.index.owner, op.index.name) = {}
      [] OTHER -> AcceptsTableOp(d.tables, op)

Effect(d, op) ==
    CASE op.kind = "AddIndex" ->
            [d EXCEPT !.indexes = @ \cup
                {[owner |-> TheTable(d.tables, op.index.owner), name |-> op.index.name,
                  def |-> op.index.def, built |-> "now"]}]
      [] op.kind = "DropIndex" ->
            [d EXCEPT !.indexes = @ \ Named(d, op.index.owner, op.index.name)]
      [] op.kind = "RenameIndex" ->
            LET moved == Named(d, op.index.owner, op.old)
            IN [d EXCEPT !.indexes =
                    (@ \ moved) \cup {[ix EXCEPT !.name = op.index.name] : ix \in moved}]
      [] op.kind = "RenameTable" ->
            LET from == TheTable(d.tables, op.from)
            IN [tables |-> TableOpEffect(d.tables, op),
                indexes |-> {[ix EXCEPT !.owner = IF @ = from THEN RenamedTo(d.tables, op)
                                                  ELSE @] : ix \in d.indexes}]
      [] op.kind = "DropTable" ->
            [tables |-> TableOpEffect(d.tables, op),
             indexes |-> {ix \in d.indexes : ix.owner # TheTable(d.tables, op.table)}]
      [] OTHER -> [d EXCEPT !.tables = TableOpEffect(@, op)]

VARIABLES current, desired, enableDrop, ops, db, pc

INSTANCE PlanRun

-------------------------------------------------------------------------------
(* Properties                                                              *)

(* The indexes of the database an index of the desired schema describes.   *)
Serving(d, ix) ==
    {jx \in d.indexes : /\ jx.owner \in Resolve(d.tables, ix.owner)
                        /\ jx.name = ix.name
                        /\ jx.def = ix.def}

(* A plan that runs to its end leaves every desired index on its table;    *)
(* what else there is was there before and stays only without enable_drop. *)
AppliedMatchesDesired ==
    pc = "done" =>
        /\ \A ix \in desired.indexes : Serving(db, ix) # {}
        /\ \A jx \in db.indexes \ UNION {Serving(db, ix) : ix \in desired.indexes} :
            ~enableDrop /\ jx.built = "before"

(* A second run finds nothing to do.                                       *)
SecondRunIsEmpty == pc = "done" => Diff(desired, Exported(db), enableDrop) = <<>>

(* An index the desired schema describes, under its name or the one its    *)
(* annotation gives, is not built again.                                   *)
UnchangedNotRebuilt ==
    pc = "done" =>
        \A ix \in desired.indexes :
            LET names == {ix} \cup {[ix EXCEPT !.name = n] : n \in ix.from}
            IN (\E jx \in names : Serving(DatabaseOf(current), jx) # {}) =>
                \E jx \in Serving(db, ix) : jx.built = "before"

(* The database refuses only the new form of an index whose old form       *)
(* enable_drop does not let go.                                            *)
OnlyChangedRefused ==
    pc = "rejected" =>
        /\ ~enableDrop
        /\ Head(ops).kind = "AddIndex"
        /\ \E jx \in current.indexes :
            IndexKey(jx) = IndexKey(Head(ops).index) /\ jx.def # Head(ops).index.def
===============================================================================
