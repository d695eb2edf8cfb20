------------------------------ MODULE Orchestrator ------------------------------
(***************************************************************************)
(* Runs of the tool from the command line to the database (cli/src/main.rs *)
(* and core/src/orchestrator.rs), one after the other, with another        *)
(* session changing the same database.                                     *)
(*                                                                         *)
(* A run connects, exports the schema (one query per object, no            *)
(* transaction around them), parses and compares, generates the plan and   *)
(* hands it to the executor.  What the executor makes of a plan is         *)
(* PlanExecution, which Executor implements: unit by unit, where the last  *)
(* unit of a failed run may or may not have taken effect.                  *)
(*                                                                         *)
(* A database maps an object to its version, 0 when it is absent.          *)
(***************************************************************************)
EXTENDS Statements, DependencyOrder

CONSTANTS
    Objects,        \* in the order of their creation
    Needs(_),       \* the objects an object needs to exist
    OwnerOf(_),     \* of them, the table it goes with: an index is dropped
                    \* with its table, while a view keeps its table
    Concurrent,     \* objects created by a non-transactional statement
    DesiredSchema,  \* the versions the schema file asks for
    Databases,      \* what the database holds at first
    Arguments,      \* the command lines the operator uses
    MaxChanges,     \* bound on the changes of the other session
    MaxFaults       \* bound on lost connections and killed processes

(* The objects of a schema have different names.                           *)
ASSUME ObjectsAssumption ==
    /\ Objects \in Seq(EntriesOf(Objects))
    /\ \A i, j \in 1..Len(Objects) : Objects[i] = Objects[j] => i = j

(* A table is there before what it owns.                                   *)
ASSUME OwnerAssumption ==
    \A o \in EntriesOf(Objects) : OwnerOf(o) \subseteq Needs(o) \cap EntriesOf(Objects)

(* The flags run_with_dialect and DiffConfig look at; what stands for the  *)
(* input is explained at HasInput.                                         *)
ASSUME ArgumentsAssumption ==
    Arguments \subseteq [flag : {"none", "apply", "dry-run", "export"},
                         input : {"schema", "empty file", "empty stdin"},
                         enableDrop : BOOLEAN]

VARIABLES
    args,       \* of the run: [flag, input, enableDrop]
    pc,
    toRead,     \* objects export_schema has not read yet
    seen,       \* the versions it has read
    ops,        \* the plan: [object, to]
    kinds,      \* of its statements
    durable,    \* positions of the plan that have taken effect
    outcome,    \* of the executor
    db,
    disturbed,  \* the other session changed something since the run began
    changes, faults

runVars == <<args, pc, toRead, seen, ops, kinds, durable, outcome>>
vars == <<runVars, db, disturbed, changes, faults>>

Everything == EntriesOf(Objects)
Empty == [o \in Everything |-> 0]

-------------------------------------------------------------------------------
(* main.rs                                                                 *)

(* read_desired_sql: a terminal and an empty standard input are no input,  *)
(* an empty file is.                                                       *)
HasInput(a) == a.input \in {"schema", "empty file"}
DesiredOf(a) == IF a.input = "schema" THEN DesiredSchema ELSE Empty

(* Mutant: with an input and no flag the plan is applied.                  *)
ModeApplies(a) == IF a.flag = "none" THEN "apply" ELSE a.flag

(* run_with_dialect                                                        *)
Mode(a) == IF a.flag = "none" THEN "dry-run" ELSE a.flag

(* Nothing is asked of an export.                                          *)
ArgumentsComplete(a) == Mode(a) = "export" \/ HasInput(a)

-------------------------------------------------------------------------------
(* The plan: drops in reverse, then what is created or altered, in order.  *)

(* Where the objects stand that only the database has.                     *)
Gone(new, old) == {i \in DOMAIN Objects : new[Objects[i]] = 0 /\ old[Objects[i]] # 0}

(* Mutant: objects are dropped without being asked for.                    *)
DropsAlways(new, old, enableDrop) ==
    [r \in 1..Cardinality(Gone(new, old)) |->
        [object |-> Objects[InOrder(Gone(new, old))[Cardinality(Gone(new, old)) + 1 - r]],
         to |-> 0]]

Drops(new, old, enableDrop) ==
    LET gone == InOrder(Gone(new, old))
    IN IF enableDrop
       THEN [r \in DOMAIN gone |-> [object |-> Objects[gone[Len(gone) + 1 - r]], to |-> 0]]
       ELSE <<>>

(* Mutant: what exists is taken to be as desired.                          *)
ChangedNew(new, old) ==
    LET created == InOrder({i \in DOMAIN Objects :
                              new[Objects[i]] # 0 /\ old[Objects[i]] = 0})
    IN [r \in DOMAIN created |->
           [object |-> Objects[created[r]], to |-> new[Objects[created[r]]]]]

Changed(new, old) ==
    LET changed == InOrder({i \in DOMAIN Objects :
                              new[Objects[i]] # 0 /\ new[Objects[i]] # old[Objects[i]]})
    IN [r \in DOMAIN changed |->
           [object |-> Objects[changed[r]], to |-> new[Objects[changed[r]]]]]

Plan(new, old, enableDrop) == Drops(new, old, enableDrop) \o Changed(new, old)

Kinds(o) == [i \in DOMAIN o |-> IF o[i].object \in Concurrent THEN "nontx" ELSE "tx"]

Exec == INSTANCE PlanExecution WITH plan <- kinds, Plans <- Seq(StatementKind)

-------------------------------------------------------------------------------
(* The database.                                                           *)

NeedsMet(d) == \A o \in Everything : d[o] # 0 => \A n \in Needs(o) : d[n] # 0

(* DROP TABLE takes the indexes of the table along, also those nobody      *)
(* named.                                                                  *)
Put(d, op) ==
    [o \in Everything |->
        IF o = op.object THEN op.to
        ELSE IF op.to = 0 /\ op.object \in OwnerOf(o) THEN 0 ELSE d[o]]

(* Mutant: CREATE replaces what there is.                                  *)
AcceptsReplacing(d, op) ==
    /\ seen[op.object] # 0 => d[op.object] # 0
    /\ NeedsMet(Put(d, op))

(* An object to create must not exist, one to alter or drop must.          *)
Accepts(d, op) ==
    /\ IF seen[op.object] = 0 THEN d[op.object] = 0 ELSE d[op.object] # 0
    /\ NeedsMet(Put(d, op))

(* The database after the statements at the positions in S; a plan holds   *)
(* an object once and drops before it creates.                             *)
After(d, S) ==
    [o \in Everything |->
        IF \E i \in S : ops[i].object = o
        THEN ops[CHOOSE i \in S : ops[i].object = o].to
        ELSE IF \E i \in S : ops[i].to = 0 /\ ops[i].object \in OwnerOf(o) THEN 0 ELSE d[o]]

UnitAccepted(d, unit) ==
    \A i \in unit : Accepts(After(d, {j \in unit : j < i}), ops[i])

-------------------------------------------------------------------------------
Init ==
    /\ args \in Arguments
    /\ pc = "stopped"
    /\ toRead = <<>>
    /\ seen = Empty
    /\ ops = <<>>
    /\ kinds = <<>>
    /\ durable = {}
    /\ outcome = "running"
    /\ db \in Databases
    /\ disturbed = FALSE
    /\ changes = 0
    /\ faults = 0

Ended == pc \in {"stopped", "applied", "printed", "failed"}

(* A new run; without its input it ends at once.                           *)
Start(a) ==
    /\ Ended
    /\ args' = a
    /\ pc' = IF ArgumentsComplete(a) THEN "export" ELSE "failed"
    /\ toRead' = IF ArgumentsComplete(a) THEN Objects ELSE <<>>
    /\ seen' = Empty
    /\ ops' = <<>>
    /\ kinds' = <<>>
    /\ durable' = {}
    /\ outcome' = "running"
    /\ disturbed' = FALSE
    /\ UNCHANGED <<db, changes, faults>>

(* One query of export_schema.                                             *)
Export ==
    /\ pc = "export"
    /\ toRead # <<>>
    /\ seen' = [seen EXCEPT ![Head(toRead)] = db[Head(toRead)]]
    /\ toRead' = Tail(toRead)
    /\ UNCHANGED <<args, pc, ops, kinds, durable, outcome, db, disturbed, changes, faults>>

(* Mode::Export, Mode::DryRun: the output is printed.                      *)
PrintOutput ==
    /\ pc = "export"
    /\ toRead = <<>>
    /\ Mode(args) \in {"export", "dry-run"}
    /\ pc' = "printed"
    /\ UNCHANGED <<args, toRead, seen, ops, kinds, durable, outcome, db, disturbed, changes, faults>>

(* Mode::Apply: the plan is complete before the executor gets it.          *)
StartPlan ==
    /\ pc = "export"
    /\ toRead = <<>>
    /\ Mode(args) = "apply"
    /\ ops' = Plan(DesiredOf(args), seen, args.enableDrop)
    /\ kinds' = Kinds(ops')
    /\ pc' = "execute"
    /\ UNCHANGED <<args, toRead, seen, durable, outcome, db, disturbed, changes, faults>>

NextUnit ==
    UNION {UnitFrom(kinds, i) : i \in {i \in Exec!Remaining : \A j \in Exec!Remaining : i <= j}}

(* A unit takes effect, answered or not.                                   *)
ExecuteUnit ==
    /\ pc = "execute"
    /\ Exec!ApplyUnit
    /\ UnitAccepted(db, NextUnit)
    /\ db' = After(db, NextUnit)
    /\ faults' = IF outcome' = "failed" THEN faults + 1 ELSE faults
    /\ faults' <= MaxFaults
    /\ UNCHANGED <<args, pc, toRead, seen, ops, disturbed, changes>>

(* A statement of the next unit is refused, the unit rolled back.          *)
RefuseUnit ==
    /\ pc = "execute"
    /\ Exec!Remaining # {}
    /\ ~UnitAccepted(db, NextUnit)
    /\ Exec!Fail
    /\ UNCHANGED <<args, pc, toRead, seen, ops, db, disturbed, changes, faults>>

(* The connection is lost or the process killed.                           *)
Interrupt ==
    /\ pc \in {"export", "execute"}
    /\ outcome = "running"
    /\ faults < MaxFaults
    /\ faults' = faults + 1
    /\ pc' = "failed"
    /\ UNCHANGED <<args, toRead, seen, ops, kinds, durable, outcome, db, disturbed, changes>>

Return ==
    /\ pc = "execute"
    /\ \/ outcome = "failed" /\ pc' = "failed" /\ UNCHANGED <<kinds, durable, outcome>>
       \/ Exec!Succeed /\ pc' = "applied"
    /\ UNCHANGED <<args, toRead, seen, ops, db, disturbed, changes, faults>>

(* The other session changes one object, at any time.                      *)
Other ==
    /\ changes < MaxChanges
    /\ \E o \in Everything, v \in 0..2 :
          /\ v # db[o]
          /\ db' = Put(db, [object |-> o, to |-> v])
          /\ NeedsMet(db')
    /\ changes' = changes + 1
    /\ disturbed' = TRUE
    /\ UNCHANGED <<runVars, faults>>

Run == Export \/ PrintOutput \/ StartPlan \/ ExecuteUnit \/ RefuseUnit \/ Return

Next == Run \/ Interrupt \/ Other \/ \E a \in Arguments : Start(a)

Spec == Init /\ [][Next]_vars

(* The run is a sequential program, so it goes on.  That the operator runs *)
(* it again is no property of the program; without it nothing is retried.  *)
FairSpec == Spec /\ WF_vars(Run) /\ WF_vars(\E a \in Arguments : Start(a))

-------------------------------------------------------------------------------
(* Properties                                                              *)

(* A step of a run changes the database only with --apply, which is not    *)
(* the default, and removes an object only with --enable-drop.             *)
WritesOnlyWhatIsAsked ==
    [][db' # db => \/ Other
                   \/ /\ args.flag = "apply"
                      /\ (\E o \in Everything : db[o] # 0 /\ db'[o] = 0) => args.enableDrop]_vars

(* What the export did not show is no target of the run, also when the     *)
(* other session made it while the run was on its way: it is not replaced  *)
(* and not altered, the run fails; and it is removed only as a part of a   *)
(* table that the run has seen and is asked to drop.                       *)
GoesWithItsTable(o) ==
    /\ db'[o] = 0
    /\ \E t \in OwnerOf(o) :
        seen[t] # 0 /\ DesiredOf(args)[t] = 0 /\ args.enableDrop /\ db'[t] = 0

UnseenGoesOnlyWithItsTable ==
    [][\A o \in Everything :
        pc = "execute" /\ seen[o] = 0 /\ db[o] # 0 =>
            Other \/ db'[o] = db[o] \/ GoesWithItsTable(o)]_vars

(* Whatever a run leaves half done, and whatever other command lines and   *)
(* the other session did in between: once the operator only starts full    *)
(* runs, and goes on starting them, the database ends as desired.          *)
FullRun == args.flag = "apply" /\ args.input = "schema" /\ args.enableDrop
Converges == <>[]FullRun => <>[](db = DesiredSchema)
===============================================================================
