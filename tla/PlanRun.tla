-------------------------------- MODULE PlanRun --------------------------------
(***************************************************************************)
(* A run of the tool (core/src/orchestrator.rs, Orchestrator::run): the    *)
(* exported schema is compared with the desired one and the operations of  *)
(* the plan are applied to the database one at a time, up to the first one *)
(* it refuses.  The modules that compare one kind of object instantiate    *)
(* this one; Executor models how the statements reach the database and     *)
(* Orchestrator what else may happen meanwhile.                            *)
(***************************************************************************)
EXTENDS Sequences

CONSTANTS
    Inputs,             \* <<current, desired>> pairs of schemas
    DatabaseOf(_),      \* the database a schema is the export of
    Comparable(_, _),   \* the diff engine and the generator raise no error
    Diff(_, _, _),      \* desired, current, enableDrop: the plan
    Accepts(_, _),      \* database, operation
    Effect(_, _)        \* database, operation

VARIABLES
    current,        \* the exported schema
    desired,        \* the desired schema
    enableDrop,     \* DiffConfig.enable_drop
    ops,            \* what is left of the plan
    db,             \* the database
    pc

vars == <<current, desired, enableDrop, ops, db, pc>>

Init ==
    /\ \E in \in Inputs : current = in[1] /\ desired = in[2]
    /\ enableDrop \in BOOLEAN
    /\ ops = <<>>
    /\ db = DatabaseOf(current)
    /\ pc = "diff"

Plan ==
    /\ pc = "diff"
    /\ Comparable(desired, current)
    /\ ops' = Diff(desired, current, enableDrop)
    /\ pc' = "apply"
    /\ UNCHANGED <<current, desired, enableDrop, db>>

(* An error of the comparison ends the run before anything is executed.    *)
Fail ==
    /\ pc = "diff"
    /\ ~Comparable(desired, current)
    /\ pc' = "failed"
    /\ UNCHANGED <<current, desired, enableDrop, ops, db>>

Apply ==
    /\ pc = "apply"
    /\ ops # <<>>
    /\ Accepts(db, Head(ops))
    /\ db' = Effect(db, Head(ops))
    /\ ops' = Tail(ops)
    /\ UNCHANGED <<current, desired, enableDrop, pc>>

(* The run stops at an operation the database refuses.                     *)
Reject ==
    /\ pc = "apply"
    /\ ops # <<>>
    /\ ~Accepts(db, Head(ops))
    /\ pc' = "rejected"
    /\ UNCHANGED <<current, desired, enableDrop, ops, db>>

Finish ==
    /\ pc = "apply"
    /\ ops = <<>>
    /\ pc' = "done"
    /\ UNCHANGED <<current, desired, enableDrop, ops, db>>

Terminated == pc \in {"done", "rejected", "failed"} /\ UNCHANGED vars

Next == Plan \/ Fail \/ Apply \/ Reject \/ Finish \/ Terminated

Spec == Init /\ [][Next]_vars
===============================================================================
