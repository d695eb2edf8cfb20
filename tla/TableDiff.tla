------------------------------- MODULE TableDiff -------------------------------
(* A run of the tool on tables that come, go and change their names:       *)
(* TableMatch's comparison, ordered, and applied to its database.          *)
EXTENDS TableMatch

CONSTANT Inputs         \* <<exported, desired>> pairs

Diff(tables, exported, enableDrop) ==
    SortDiffOps(CompareTables(tables, exported, enableDrop))

DatabaseOf(exported) == TablesOfExport(exported)
Accepts(d, op) == AcceptsTableOp(d, op)
Effect(d, op) == TableOpEffect(d, op)
Comparable(tables, exported) == TRUE

VARIABLES current, desired, enableDrop, ops, db, pc

INSTANCE PlanRun

-------------------------------------------------------------------------------
(* Properties                                                              *)

DesiredTables == {desired[i] : i \in DOMAIN desired}

Started == DatabaseOf(current)

(* A plan that runs to its end leaves every desired table where its name   *)
(* is looked up, with its shape; what the desired schema does not name is  *)
(* gone with enable_drop and there, under its name, without.               *)
AppliedMatchesDesired ==
    pc = "done" =>
        /\ \A t \in DesiredTables :
            Resolve(db, t.name) # {} /\ db[TheTable(db, t.name)].shape = t.shape
        /\ LET wanted == UNION {Resolve(db, t.name) : t \in DesiredTables}
           IN \A p \in DOMAIN db \ wanted :
                ~enableDrop /\ p \in DOMAIN Started /\ db[p] = Started[p]

(* A second run finds nothing to do.                                       *)
SecondRunIsEmpty == pc = "done" => Diff(desired, ExportedTables(db), enableDrop) = <<>>

(* The rows of a table follow its name, or its annotation when there is no *)
(* table of its name, and go nowhere else.                                 *)
DataFollowsRenames ==
    pc = "done" =>
        \A t \in DesiredTables :
            LET was == Resolve(Started, t.name)
                old == UNION {Resolve(Started, n) : n \in RenamedFrom(t)}
                source == IF was # {} THEN was ELSE old
            IN Resolve(db, t.name) # {} =>
                db[TheTable(db, t.name)].data
                    = IF source = {} THEN Fresh ELSE CHOOSE p \in source : TRUE

(* Without enable_drop no table the run found is ever lost, whatever the   *)
(* names, also when the database stops the plan half way.                  *)
NothingLostWithoutDrop ==
    ~enableDrop =>
        \A p \in DOMAIN Started : \E q \in DOMAIN db : db[q].data = p

(* The database refuses nothing.                                           *)
PlanAccepted == pc # "rejected"
===============================================================================
