------------------------------- MODULE Comparison -------------------------------
(***************************************************************************)
(* The comparisons of core/src/diff side by side: a behaviour is one run   *)
(* of the tool on a schema of one part, TableDiff's (with and without      *)
(* schemas in the export), ColumnDiff's, IndexDiff's, ObjectDiff's,        *)
(* AlterObjects', Privileges' or Partitions', or one plan of which the     *)
(* diagnostics of OpOrder report what is left out.  The parts share the    *)
(* variables.                                                              *)
(***************************************************************************)
EXTENDS TableMatch

CONSTANTS
    (* The <<current, desired>> pairs of each part.                        *)
    QualifiedTables, UnqualifiedTables, ColumnPairs, IndexPairs, ObjectPairs,
    AlteredPairs, PrivilegePairs, PartitionPairs,
    Rank(_),            \* Partitions: the order of names
    Plans               \* the plans operations are left out of

(* What the parts of a schema are, in the program's types: lists are       *)
(* finite, columns and checks have names and checks their fields.          *)
IsColumnSchema(table) ==
    /\ IsFiniteSet(table.columns) /\ {c.name : c \in table.columns} \subseteq Nat
    /\ IsFiniteSet(table.checks)
    /\ \A k \in table.checks : DOMAIN k = {"name", "reads", "expr"} /\ k.name \in Nat

ASSUME ListsAssumption ==
    /\ \A in \in QualifiedTables \cup UnqualifiedTables : IsList(in[2])
    /\ \A in \in PrivilegePairs \cup PartitionPairs : IsList(in[1]) /\ IsList(in[2])
    /\ \A plan \in Plans : IsList(plan)

ASSUME ColumnsAssumption ==
    \A in \in ColumnPairs : IsColumnSchema(in[1]) /\ IsColumnSchema(in[2])

VARIABLES part, current, desired, enableDrop, ops, db, pc

T == INSTANCE TableDiff WITH Inputs <- QualifiedTables
U == INSTANCE TableDiff WITH
        Inputs <- UnqualifiedTables, SearchPath <- <<"main">>, ExportQualifies <- FALSE
C == INSTANCE ColumnDiff WITH Inputs <- ColumnPairs
I == INSTANCE IndexDiff WITH
        Inputs <- IndexPairs, SearchPath <- <<"public">>, ExportQualifies <- TRUE
O == INSTANCE ObjectDiff WITH Inputs <- ObjectPairs
A == INSTANCE AlterObjects WITH Inputs <- AlteredPairs
V == INSTANCE Privileges WITH Inputs <- PrivilegePairs
P == INSTANCE Partitions WITH Inputs <- PartitionPairs

(* The labels of a type are a list and so are the checks of a domain, no   *)
(* two of one name.                                                        *)
IsAlteredSchema(schema) ==
    /\ "Type" \in DOMAIN schema => IsList(schema["Type"])
    /\ "Domain" \in DOMAIN schema =>
            LET checks == schema["Domain"].checks
            IN /\ DOMAIN schema["Domain"] = {"data_type", "default", "not_null", "checks"}
               /\ IsList(checks)
               /\ \A c, d \in EntriesOf(checks) : c.name = d.name /\ c.name # A!None => c = d

(* AlterObjects leaves adding and dropping its column to ColumnDiff.       *)
ASSUME AlteredAssumption ==
    \A in \in AlteredPairs :
        /\ IsAlteredSchema(in[1]) /\ IsAlteredSchema(in[2])
        /\ "Column" \in DOMAIN in[1] <=> "Column" \in DOMAIN in[2]

-------------------------------------------------------------------------------
(* A plan of which an engine leaves out destructive operations one at a    *)
(* time.                                                                   *)

ReportInit ==
    /\ current \in Plans /\ ops = current
    /\ desired = <<>> /\ db = <<>> /\ enableDrop = FALSE /\ pc = "leave out"

LeaveOut ==
    /\ \E i \in DOMAIN ops :
        /\ ops[i].kind \in SuppressedKinds
        /\ ops' = SubSeq(ops, 1, i - 1) \o SubSeq(ops, i + 1, Len(ops))
    /\ UNCHANGED <<current, desired, enableDrop, db, pc>>

NothingToLeaveOut ==
    /\ \A i \in DOMAIN ops : ops[i].kind \notin SuppressedKinds
    /\ UNCHANGED <<current, desired, enableDrop, ops, db, pc>>

-------------------------------------------------------------------------------

Init ==
    \/ part = "qualified tables" /\ T!Init
    \/ part = "tables" /\ U!Init
    \/ part = "columns" /\ C!Init
    \/ part = "indexes" /\ I!Init
    \/ part = "objects" /\ O!Init
    \/ part = "altered" /\ A!Init
    \/ part = "privileges" /\ V!Init
    \/ part = "partitions" /\ P!Init
    \/ part = "report" /\ ReportInit

Next ==
    \/ part = "qualified tables" /\ T!Next /\ UNCHANGED part
    \/ part = "tables" /\ U!Next /\ UNCHANGED part
    \/ part = "columns" /\ C!Next /\ UNCHANGED part
    \/ part = "indexes" /\ I!Next /\ UNCHANGED part
    \/ part = "objects" /\ O!Next /\ UNCHANGED part
    \/ part = "altered" /\ A!Next /\ UNCHANGED part
    \/ part = "privileges" /\ V!Next /\ UNCHANGED part
    \/ part = "partitions" /\ P!Next /\ UNCHANGED part
    \/ part = "report" /\ LeaveOut /\ UNCHANGED part
    \/ part = "report" /\ NothingToLeaveOut /\ UNCHANGED part

vars == <<part, current, desired, enableDrop, ops, db, pc>>

Spec == Init /\ [][Next]_vars

-------------------------------------------------------------------------------
(* Properties: what each of the modules promises, under one name.          *)

(* A plan that runs to its end leaves the database as the desired schema   *)
(* describes it, and nothing else in it with enable_drop; without, what    *)
(* else there was is untouched.                                            *)
AppliedMatchesDesired ==
    /\ part = "qualified tables" => T!AppliedMatchesDesired
    /\ part = "tables" => U!AppliedMatchesDesired
    /\ part = "columns" => C!AppliedMatchesDesired
    /\ part = "indexes" => I!AppliedMatchesDesired
    /\ part = "objects" => O!AppliedMatchesDesired
    /\ part = "altered" => A!AppliedMatchesDesired
    /\ part = "privileges" => V!AppliedMatchesDesired
    /\ part = "partitions" => P!AppliedMatchesDesired

(* A second run finds nothing to do in what the database exports.  Not: an *)
(* annotated index (compare.rs:366).                                       *)
SecondRunIsEmpty ==
    /\ part = "qualified tables" => T!SecondRunIsEmpty
    /\ part = "tables" => U!SecondRunIsEmpty
    /\ part = "columns" => C!SecondRunIsEmpty
    /\ part = "indexes" /\ (\A ix \in desired.indexes : ix.from = {}) => I!SecondRunIsEmpty
    /\ part = "objects" => O!SecondRunIsEmpty
    /\ part = "altered" => A!SecondRunIsEmpty
    /\ part = "partitions" => P!SecondRunIsEmpty

(* The rows of a table, the values of a column and the label a row holds   *)
(* follow its name, or the annotation that renames it, and go nowhere      *)
(* else.                                                                   *)
DataFollowsRenames ==
    /\ part = "qualified tables" => T!DataFollowsRenames
    /\ part = "tables" => U!DataFollowsRenames
    /\ part = "columns" => C!DataFollowsRenames
    /\ part = "altered" => A!RowKeepsItsLabel

(* Without enable_drop nothing is lost, whatever the names, also when the  *)
(* database stops the plan half way.                                       *)
NothingLostWithoutDrop ==
    /\ part = "qualified tables" => T!NothingLostWithoutDrop
    /\ part = "tables" => U!NothingLostWithoutDrop
    /\ part = "columns" => C!NothingLostWithoutDrop
    /\ part = "objects" => O!NothingLostWithoutDrop
    /\ part = "altered" => A!NothingLostWithoutDrop
    /\ part = "privileges" => V!NothingRevokedWithoutDrop
    /\ part = "partitions" => P!NothingLostWithoutDrop

(* What both schemas have is kept as it is and not made anew: an index is  *)
(* not rebuilt, an operation stays granted at every moment of the run, a   *)
(* partition is not dropped.                                               *)
SharedIsKept ==
    /\ part = "indexes" => I!UnchangedNotRebuilt
    /\ part = "privileges" => V!SharedStayGranted
    /\ part = "partitions" => P!SharedPartitionsStay

(* The database refuses nothing of a plan but the new form of an object    *)
(* whose old form enable_drop does not let go.                             *)
OnlyReplacementsRefused ==
    /\ part = "qualified tables" => T!PlanAccepted
    /\ part = "tables" => U!PlanAccepted
    /\ part = "columns" => C!PlanAccepted
    /\ part = "indexes" => I!OnlyChangedRefused
    /\ part = "objects" => O!OnlyRecreationRefused
    /\ part = "altered" => A!OnlyRedefinitionRefused
    /\ part = "privileges" => pc # "rejected"
    /\ part = "partitions" => P!OnlyChangedRefused

DomainChecksStay ==
    "Domain" \in DOMAIN current \cap DOMAIN desired =>
        F!Range(current["Domain"].checks) \subseteq F!Range(desired["Domain"].checks)

(* Whatever a plan leaves out for want of enable_drop is reported as       *)
(* skipped, as often as it is left out, and nothing else is.  Not: a check *)
(* of a domain that goes or changes (compare_remaining.rs:880).            *)
SkippedAreReported ==
    /\ part = "columns" => C!SkippedAreReported
    /\ part = "objects" => O!SkippedAreReported
    /\ part = "altered" /\ DomainChecksStay => A!SkippedAreReported
    /\ part = "privileges" => V!SkippedAreReported
    /\ part = "report" => AccountFor(current, ops, Skipped(current, ops))
================================================================================
