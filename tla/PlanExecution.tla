----------------------------- MODULE PlanExecution -----------------------------
(***************************************************************************)
(* What applying a plan promises, whatever the failures (DESIGN.md 3.7 and *)
(* safety cases S1-S5): the database moves through the plan one unit at a  *)
(* time, in order, where a unit is one non-transactional statement or one  *)
(* whole transactional group.  A failure stops the run; at most the unit   *)
(* that was in flight has taken effect without being acknowledged.         *)
(***************************************************************************)
EXTENDS Statements

CONSTANT Plans

VARIABLES plan, durable, outcome

pvars == <<plan, durable, outcome>>

Init ==
    /\ plan \in Plans
    /\ durable = {}
    /\ outcome = "running"

Remaining == AllSql(plan) \ durable

(* The unit of the first remaining statement takes effect; "failed" is the *)
(* case in which its acknowledgement never arrives.                        *)
ApplyUnit ==
    /\ outcome = "running"
    /\ \E i \in Remaining :
          /\ \A j \in Remaining : i <= j
          /\ durable' = durable \cup UnitFrom(plan, i)
    /\ outcome' \in {"running", "failed"}
    /\ UNCHANGED plan

Fail ==
    /\ outcome = "running"
    /\ outcome' = "failed"
    /\ UNCHANGED <<plan, durable>>

Succeed ==
    /\ outcome = "running"
    /\ Remaining = {}
    /\ outcome' = "ok"
    /\ UNCHANGED <<plan, durable>>

Next == ApplyUnit \/ Fail \/ Succeed

Spec == Init /\ [][Next]_pvars
===============================================================================
