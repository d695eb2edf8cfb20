------------------------------ MODULE MCExecutor ------------------------------
(***************************************************************************)
(* Every plan of at most MaxLen statements.                                *)
(***************************************************************************)
EXTENDS Executor

CONSTANT MaxLen

MCPlans == UNION {[1..n -> StatementKind] : n \in 0..MaxLen}
===============================================================================
