------------------------------- MODULE Executor -------------------------------
(***************************************************************************)
(* The plan executor (core/src/executor.rs) and the RAII Transaction       *)
(* handle it drives (core/src/adapter.rs), against one database session.   *)
(*                                                                         *)
(* Executor::execute_plan is sequential: one action per round trip to the  *)
(* database, with the Rust code between two round trips folded into the    *)
(* step.  Around it, the connection may be lost and the process may be     *)
(* killed between any two steps, or while a request is in flight.          *)
(***************************************************************************)
EXTENDS Statements, DbSession, FiniteSets

CONSTANT Plans      \* the plans generate_ddl may hand over

ASSUME PlansAssumption == Plans \subseteq Seq(StatementKind)

VARIABLES
    plan,       \* statements
    pc,         \* where execute_plan stands, see Phase
    index,      \* start of the group being dispatched
    cursor,     \* execute_transactional_group: next statement
    last,       \* execute_transactional_group: last_statement_index
    executed,   \* executed_statements
    report      \* the StatementFailed error, or NoReport

execVars == <<plan, pc, index, cursor, last, executed, report>>
vars == <<execVars, dbVars>>

(* "dispatch": the loop of execute_plan.  "group": inside                  *)
(* execute_transactional_group, which owns a Transaction.  "unwind": an    *)
(* error leaves that function and the uncommitted Transaction is dropped.  *)
Phase == {"dispatch", "group", "unwind", "returned", "crashed"}

NoReport == [index |-> 0, executed |-> 0]

TypeOK ==
    /\ plan \in Plans
    /\ pc \in Phase
    /\ index \in 1..(Len(plan) + 1)
    /\ cursor \in 1..(Len(plan) + 1)
    /\ last \in 1..(Len(plan) + 1)
    /\ executed \in Nat
    /\ report \in [index : Nat, executed : Nat]
    /\ link \in {"up", "down"}
    /\ txState \in {"idle", "open"}
    /\ pending \in SUBSET (1..Len(plan))
    /\ durable \in SUBSET (1..Len(plan))
    /\ rollback \in {"none", "done", "failed"}

Init ==
    /\ plan \in Plans
    /\ pc = "dispatch"
    /\ index = 1
    /\ cursor = 1
    /\ last = 1
    /\ executed = 0
    /\ report = NoReport
    /\ DbInit

Dispatching(kind) ==
    /\ pc = "dispatch"
    /\ index <= Len(plan)
    /\ plan[index] = kind

InGroupAt(kind) ==
    /\ pc = "group"
    /\ cursor <= Len(plan)
    /\ plan[cursor] = kind

AtGroupEnd == pc = "group" /\ (cursor > Len(plan) \/ InGroupAt("nontx"))

(* Mutant: the failed statement is counted as executed.                    *)
ReportCountsFailed(i) == report' = [index |-> i, executed |-> executed + 1]

(* build_statement_failed                                                  *)
Report(i) == report' = [index |-> i, executed |-> executed]

-------------------------------------------------------------------------------
(* execute_plan and execute_next_group                                     *)

SkipBoundary ==
    /\ Dispatching("boundary")
    /\ index' = index + 1
    /\ UNCHANGED <<plan, pc, cursor, last, executed, report, dbVars>>

BeginGroup ==
    /\ Dispatching("tx")
    /\ DbBegin
    /\ pc' = "group"
    /\ cursor' = index
    /\ last' = index
    /\ UNCHANGED <<plan, index, executed, report>>

BeginGroupFails ==
    /\ Dispatching("tx")
    /\ DbRefuse
    /\ Report(index)
    /\ pc' = "returned"
    /\ UNCHANGED <<plan, index, cursor, last, executed>>

ExecuteNonTransactional ==
    /\ Dispatching("nontx")
    /\ DbPerform(index)
    /\ executed' = executed + 1
    /\ index' = index + 1
    /\ UNCHANGED <<plan, pc, cursor, last, report>>

(* Mutant: the error is dropped and the plan goes on.                      *)
ExecuteNonTransactionalIgnoresError ==
    /\ Dispatching("nontx")
    /\ DbRefuse
    /\ index' = index + 1
    /\ UNCHANGED <<plan, pc, cursor, last, executed, report>>

ExecuteNonTransactionalFails ==
    /\ Dispatching("nontx")
    /\ DbRefuse \/ DbPerformUnanswered(index)
    /\ Report(index)
    /\ pc' = "returned"
    /\ UNCHANGED <<plan, index, cursor, last, executed>>

Finish ==
    /\ pc = "dispatch"
    /\ index > Len(plan)
    /\ pc' = "returned"
    /\ UNCHANGED <<plan, index, cursor, last, executed, report, dbVars>>

-------------------------------------------------------------------------------
(* execute_transactional_group                                             *)

ExecuteInGroup ==
    /\ InGroupAt("tx")
    /\ DbPerform(cursor)
    /\ executed' = executed + 1
    /\ last' = cursor
    /\ cursor' = cursor + 1
    /\ UNCHANGED <<plan, pc, index, report>>

(* Mutant: the error names the last statement that succeeded.              *)
ExecuteInGroupFailsReportsLast ==
    /\ InGroupAt("tx")
    /\ DbRefuse \/ DbPerformUnanswered(cursor)
    /\ Report(last)
    /\ pc' = "unwind"
    /\ UNCHANGED <<plan, index, cursor, last, executed>>

ExecuteInGroupFails ==
    /\ InGroupAt("tx")
    /\ DbRefuse \/ DbPerformUnanswered(cursor)
    /\ Report(cursor)
    /\ pc' = "unwind"
    /\ UNCHANGED <<plan, index, cursor, last, executed>>

(* Mutants: BatchBoundary commits; BatchBoundary does not advance.         *)
SkipBoundaryCommits ==
    /\ InGroupAt("boundary")
    /\ durable' = durable \cup pending
    /\ pending' = {}
    /\ cursor' = cursor + 1
    /\ UNCHANGED <<plan, pc, index, last, executed, report, link, txState, rollback>>

SkipBoundaryStalls == InGroupAt("boundary") /\ UNCHANGED vars

SkipBoundaryInGroup ==
    /\ InGroupAt("boundary")
    /\ cursor' = cursor + 1
    /\ UNCHANGED <<plan, pc, index, last, executed, report, dbVars>>

(* Mutants: the statement that ended the group is stepped over; the group  *)
(* is left without a flush.                                                *)
CommitGroupSkipsNext ==
    /\ AtGroupEnd
    /\ DbCommit
    /\ index' = IF cursor > Len(plan) THEN cursor ELSE cursor + 1
    /\ pc' = "dispatch"
    /\ UNCHANGED <<plan, cursor, last, executed, report>>

CommitGroupForgotten ==
    /\ AtGroupEnd
    /\ index' = cursor
    /\ pc' = "dispatch"
    /\ UNCHANGED <<plan, cursor, last, executed, report, dbVars>>

CommitGroup ==
    /\ AtGroupEnd
    /\ DbCommit
    /\ index' = cursor
    /\ pc' = "dispatch"
    /\ UNCHANGED <<plan, cursor, last, executed, report>>

CommitGroupFails ==
    /\ AtGroupEnd
    /\ DbRefuseCommit \/ DbCommitUnanswered
    /\ Report(last)
    /\ pc' = "unwind"
    /\ UNCHANGED <<plan, index, cursor, last, executed>>

(* Mutants: dropping the handle does nothing; it commits.                  *)
DropTransactionLeavesOpen ==
    /\ pc = "unwind"
    /\ pc' = "returned"
    /\ UNCHANGED <<plan, index, cursor, last, executed, report, dbVars>>

DropTransactionCommits ==
    /\ pc = "unwind"
    /\ IF link = "up" THEN DbCommit ELSE DbRollback
    /\ pc' = "returned"
    /\ UNCHANGED <<plan, index, cursor, last, executed, report>>

(* Transaction::drop: ROLLBACK, its result ignored.                        *)
DropTransaction ==
    /\ pc = "unwind"
    /\ DbRollback \/ DbRollbackFails
    /\ pc' = "returned"
    /\ UNCHANGED <<plan, index, cursor, last, executed, report>>

-------------------------------------------------------------------------------
(* The environment                                                         *)

LoseConnection ==
    /\ link = "up"
    /\ DbEnd
    /\ UNCHANGED execVars

(* The process is killed; a request it had sent may still be performed.    *)
Crash ==
    /\ pc \in {"dispatch", "group", "unwind"}
    /\ pc' = "crashed"
    /\ \/ DbEnd
       \/ Dispatching("nontx") /\ DbPerformUnanswered(index)
       \/ InGroupAt("tx") /\ DbPerformUnanswered(cursor)
       \/ AtGroupEnd /\ DbCommitUnanswered
    /\ UNCHANGED <<plan, index, cursor, last, executed, report>>

Terminated ==
    /\ pc \in {"returned", "crashed"}
    /\ UNCHANGED vars

ExecutorStep ==
    \/ SkipBoundary
    \/ BeginGroup
    \/ BeginGroupFails
    \/ ExecuteNonTransactional
    \/ ExecuteNonTransactionalFails
    \/ Finish
    \/ ExecuteInGroup
    \/ ExecuteInGroupFails
    \/ SkipBoundaryInGroup
    \/ CommitGroup
    \/ CommitGroupFails
    \/ DropTransaction

Next == ExecutorStep \/ LoseConnection \/ Crash \/ Terminated

(* The executor never waits for anything but the answer of the database.   *)
Fairness == WF_vars(ExecutorStep)

Spec == Init /\ [][Next]_vars

FairSpec == Spec /\ Fairness

-------------------------------------------------------------------------------
(* Properties                                                              *)

(* What is committed is always everything before some commit point of the  *)
(* plan: statements take effect in plan order, a transactional group       *)
(* entirely or not at all, and a BatchBoundary never commits (DESIGN.md    *)
(* 3.7; safety cases S1-S5).  Holds without AutoCommitDDL.                 *)
DurableAtCommitPoint ==
    \E k \in 1..(Len(plan) + 1) :
        CommitPoint(plan, k) /\ durable = SqlBefore(plan, k)

(* On any database, what the session sees is a prefix of the plan: no      *)
(* statement is skipped, repeated or overtaken across groups and           *)
(* boundaries (executor.rs, the index/cursor hand-over).                   *)
EffectsFollowPlanOrder ==
    \E k \in 1..(Len(plan) + 1) : durable \cup pending = SqlBefore(plan, k)

(* execute_plan returns Ok only when every SQL statement of the plan is    *)
(* committed, the last group included.                                     *)
SuccessIsComplete ==
    pc = "returned" /\ report = NoReport => durable = AllSql(plan)

(* The StatementFailed error can be trusted to resume from: its index is a *)
(* SQL statement, executed_statements counts exactly those before it (or,  *)
(* when COMMIT failed, the group that ends with it), and nothing at or     *)
(* after it is committed unless the connection broke under the request.    *)
ReportLocatesFailure ==
    report # NoReport =>
        LET i == report.index
        IN /\ plan[i] # "boundary"
           /\ \/ report.executed = Cardinality(SqlBefore(plan, i))
              \/ /\ report.executed = Cardinality(SqlBefore(plan, i + 1))
                 /\ GroupFrom(plan, i) = {i}
           /\ \/ durable \subseteq SqlBefore(plan, i)
              \/ link = "down" /\ durable = SqlBefore(plan, i + 1)

(* The strengthening of DurableAtCommitPoint and SuccessIsComplete that    *)
(* every step preserves: between groups the committed part is what         *)
(* precedes `index`; inside a group it still is, and the open transaction  *)
(* holds what was executed from there to `cursor`.                         *)
CommittedUpTo(k) == CommitPoint(plan, k) /\ durable = SqlBefore(plan, k)

InGroupInv ==
    /\ CommittedUpTo(index)
    /\ index <= Len(plan)
    /\ plan[index] = "tx"
    /\ index <= cursor
    /\ \A n \in index..(cursor - 1) : plan[n] # "nontx"
    /\ link = "up" =>
          txState = "open" /\ pending = SqlBefore(plan, cursor) \ SqlBefore(plan, index)

IInv ==
    /\ TypeOK
    /\ DurableAtCommitPoint
    /\ pc = "dispatch" => CommittedUpTo(index) /\ report = NoReport
    /\ pc = "group" => InGroupInv /\ report = NoReport
    /\ pc = "unwind" => report # NoReport
    /\ pc \in {"dispatch", "crashed"} \/ link = "down" => txState = "idle" /\ pending = {}
    /\ SuccessIsComplete

(* A failed statement takes its transaction with it: while the connection  *)
(* is alive, no committed transactional statement belongs to the group of  *)
(* the reported one (DESIGN.md:1507, "the executor rolls back the current  *)
(* transaction and stops").                                                *)
FailedGroupRolledBack ==
    pc = "returned" /\ report # NoReport /\ link = "up" =>
        \A j \in durable : \E n \in j..report.index : plan[n] = "nontx"

(* No way out of execute_plan leaves a transaction open on the connection  *)
(* the adapter keeps, unless Transaction::drop asked for its end and was   *)
(* refused, which the code does not notice (core/src/adapter.rs:50); then  *)
(* execute_plan has failed.                                                *)
NothingLeftOpen ==
    pc = "returned" =>
        \/ txState = "idle" /\ pending = {}
        \/ rollback = "failed" /\ report # NoReport

(* Where DDL commits by itself, executed_statements is exactly what the    *)
(* database kept: nothing counted is ever undone, nothing else was done.   *)
ExecutedCountIsDurable ==
    AutoCommitDDL /\ report # NoReport /\ link = "up" =>
        report.executed = Cardinality(durable)

(* The strengthening of EffectsFollowPlanOrder, ReportLocatesFailure and   *)
(* ExecutedCountIsDurable that every step preserves, on any server.        *)
(* Between groups, what precedes `index` is committed and counted; inside  *)
(* one, what precedes `cursor` is counted, and it is committed where DDL   *)
(* commits by itself, or pending until the connection goes.                *)
Settled ==
    /\ report = NoReport
    /\ txState = "idle"
    /\ pending = {}
    /\ durable = SqlBefore(plan, index)
    /\ executed = Cardinality(SqlBefore(plan, index))

(* `last` is the last statement before `cursor`; both start at `index`.    *)
LastBeforeCursor ==
    \/ cursor = index /\ last = index
    \/ /\ index <= last
       /\ last < cursor
       /\ plan[last] = "tx"
       /\ \A n \in (last + 1)..(cursor - 1) : plan[n] = "boundary"

MidGroup ==
    /\ report = NoReport
    /\ index <= Len(plan)
    /\ plan[index] = "tx"
    /\ index <= cursor
    /\ \A n \in index..(cursor - 1) : plan[n] # "nontx"
    /\ LastBeforeCursor
    /\ executed = Cardinality(SqlBefore(plan, cursor))
    /\ durable = SqlBefore(plan, IF AutoCommitDDL THEN cursor ELSE index)
    /\ link = "up" => durable \cup pending = SqlBefore(plan, cursor)
    /\ link = "up" /\ ~AutoCommitDDL => txState = "open"
    /\ AutoCommitDDL /\ txState = "open" => cursor = index

OrderInv ==
    /\ TypeOK
    /\ EffectsFollowPlanOrder
    /\ \E k \in 1..(Len(plan) + 1) : durable = SqlBefore(plan, k)
    /\ link = "down" \/ AutoCommitDDL => pending = {}
    /\ pc = "dispatch" => Settled
    /\ pc = "group" => MidGroup
    /\ pc = "unwind" => report # NoReport
    /\ ReportLocatesFailure
    /\ ExecutedCountIsDurable

(* execute_plan ends, whatever mixture of kinds and failures it meets.     *)
Terminates == <>(pc \in {"returned", "crashed"})

(* With transactional DDL the executor implements PlanExecution.           *)
Outcome ==
    IF pc # "returned" THEN "running"
    ELSE IF report = NoReport THEN "ok" ELSE "failed"

Abstract == INSTANCE PlanExecution WITH outcome <- Outcome

ImplementsPlanExecution == Abstract!Spec
===============================================================================
