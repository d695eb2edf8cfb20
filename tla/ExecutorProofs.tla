---------------------------- MODULE ExecutorProofs ----------------------------
(***************************************************************************)
(* Proofs about the executor for plans of any length: against a server     *)
(* with transactional DDL, groups are atomic and the executor implements   *)
(* PlanExecution; against any server, whether or not it commits DDL by     *)
(* itself, effects follow the order of the plan, and the error             *)
(* execute_plan returns says where it stopped and what was done.           *)
(***************************************************************************)
EXTENDS Executor, FiniteSetTheorems, TLAPS

(***************************************************************************)
(* Facts about plans                                                       *)
(***************************************************************************)

(* Moving over a BatchBoundary sends nothing; moving over a SQL statement  *)
(* sends that statement.                                                   *)
LEMMA SqlBeforeStep ==
    ASSUME NEW p \in Seq(StatementKind), NEW k \in 1..Len(p)
    PROVE  /\ p[k] = "boundary" => SqlBefore(p, k + 1) = SqlBefore(p, k)
           /\ p[k] # "boundary" => SqlBefore(p, k + 1) = SqlBefore(p, k) \cup {k}
BY DEF SqlBefore

(* A plan can be stopped before its first statement.                       *)
LEMMA StartIsCommitPoint ==
    ASSUME NEW p \in Seq(StatementKind)
    PROVE  CommitPoint(p, 1) /\ SqlBefore(p, 1) = {}
BY DEF CommitPoint, CutsGroup, SqlBefore

(* Past a statement that is not transactional, a commit point stays one.   *)
LEMMA CommitPointStep ==
    ASSUME NEW p \in Seq(StatementKind), NEW k \in 1..Len(p),
           CommitPoint(p, k), p[k] # "tx"
    PROVE  CommitPoint(p, k + 1)
BY DEF CommitPoint, CutsGroup

(* The end of a group, where the plan ends or a "nontx" stands, is a       *)
(* commit point.                                                           *)
LEMMA GroupEndIsCommitPoint ==
    ASSUME NEW p \in Seq(StatementKind), NEW k \in 1..(Len(p) + 1),
           k > Len(p) \/ p[k] = "nontx"
    PROVE  CommitPoint(p, k)
BY DEF CommitPoint, CutsGroup

(***************************************************************************)
(* Type correctness                                                        *)
(***************************************************************************)

(* The plan is a sequence of statements of the kinds there are.            *)
LEMMA PlanIsSequence ==
    ASSUME TypeOK
    PROVE  /\ plan \in Seq(StatementKind)
           /\ Len(plan) \in Nat
           /\ \A i \in 1..Len(plan) : plan[i] \in StatementKind
BY PlansAssumption DEF TypeOK

(* A report consists of two numbers.                                       *)
LEMMA ReportType ==
    ASSUME TypeOK, NEW i \in 1..(Len(plan) + 1), Report(i)
    PROVE  report' \in [index : Nat, executed : Nat]
<1>1. i \in Nat /\ executed \in Nat
  BY PlanIsSequence DEF TypeOK
<1> QED
  BY <1>1 DEF Report

(* What an answered, refused or unanswered request does to the session     *)
(* stays within the plan's positions.                                      *)
LEMMA DbTypes ==
    ASSUME TypeOK
    PROVE  /\ \A i \in 1..Len(plan) :
                 DbPerform(i) \/ DbPerformUnanswered(i) =>
                     /\ link' \in {"up", "down"} /\ txState' \in {"idle", "open"}
                     /\ pending' \in SUBSET (1..Len(plan))
                     /\ durable' \in SUBSET (1..Len(plan))
                     /\ rollback' \in {"none", "done", "failed"}
           /\ DbBegin \/ DbCommit \/ DbRefuse \/ DbRefuseCommit \/ DbEnd
                 \/ DbCommitUnanswered \/ DbRollback \/ DbRollbackFails =>
                     /\ link' \in {"up", "down"} /\ txState' \in {"idle", "open"}
                     /\ pending' \in SUBSET (1..Len(plan))
                     /\ durable' \in SUBSET (1..Len(plan))
                     /\ rollback' \in {"none", "done", "failed"}
<1>1. /\ link \in {"up", "down"} /\ txState \in {"idle", "open"}
      /\ pending \in SUBSET (1..Len(plan))
      /\ durable \in SUBSET (1..Len(plan)) /\ rollback \in {"none", "done", "failed"}
  BY DEF TypeOK
<1>2. ASSUME NEW i \in 1..Len(plan), DbPerform(i) \/ DbPerformUnanswered(i)
      PROVE  /\ link' \in {"up", "down"} /\ txState' \in {"idle", "open"}
             /\ pending' \in SUBSET (1..Len(plan))
             /\ durable' \in SUBSET (1..Len(plan))
             /\ rollback' \in {"none", "done", "failed"}
  BY <1>1, <1>2 DEF DbPerform, DbPerformUnanswered
<1>3. DbBegin \/ DbCommit \/ DbRefuse \/ DbRefuseCommit \/ DbEnd
         \/ DbCommitUnanswered \/ DbRollback \/ DbRollbackFails =>
          /\ link' \in {"up", "down"} /\ txState' \in {"idle", "open"}
          /\ pending' \in SUBSET (1..Len(plan))
          /\ durable' \in SUBSET (1..Len(plan))
          /\ rollback' \in {"none", "done", "failed"}
  BY <1>1 DEF DbBegin, DbCommit, DbRefuse, DbRefuseCommit, DbEnd,
              DbCommitUnanswered, DbRollback, DbRollbackFails, dbVars
<1> QED
  BY <1>2, <1>3

(* The first state has the type.                                           *)
LEMMA InitTypeOK == Init => TypeOK
<1> SUFFICES ASSUME Init PROVE TypeOK
  OBVIOUS
<1>1. Len(plan) \in Nat
  BY PlansAssumption DEF Init
<1> QED
  BY <1>1 DEF Init, DbInit, TypeOK, Phase, NoReport

(* Every step keeps the type.                                              *)
LEMMA NextTypeOK == TypeOK /\ [Next]_vars => TypeOK'
<1> SUFFICES ASSUME TypeOK, [Next]_vars PROVE TypeOK'
  OBVIOUS
<1> USE PlanIsSequence, DbTypes DEF TypeOK, Phase
<1>1. CASE SkipBoundary
  BY <1>1 DEF SkipBoundary, Dispatching, dbVars
<1>2. CASE BeginGroup
  BY <1>2 DEF BeginGroup, Dispatching
<1>3. CASE BeginGroupFails
  BY <1>3, ReportType DEF BeginGroupFails, Dispatching
<1>4. CASE ExecuteNonTransactional
  BY <1>4 DEF ExecuteNonTransactional, Dispatching
<1>5. CASE ExecuteNonTransactionalFails
  <2>1. /\ pc' = "returned" /\ Report(index) /\ (DbRefuse \/ DbPerformUnanswered(index))
        /\ UNCHANGED <<plan, index, cursor, last, executed>>
        /\ index \in 1..(Len(plan) + 1) /\ index \in 1..Len(plan)
    BY <1>5 DEF ExecuteNonTransactionalFails, Dispatching
  <2>2. report' \in [index : Nat, executed : Nat]
    BY <2>1, ReportType
  <2> QED
    BY <2>1, <2>2
<1>6. CASE Finish
  BY <1>6 DEF Finish, dbVars
<1>7. CASE ExecuteInGroup
  BY <1>7 DEF ExecuteInGroup, InGroupAt
<1>8. CASE ExecuteInGroupFails
  <2>1. /\ pc' = "unwind" /\ Report(cursor) /\ (DbRefuse \/ DbPerformUnanswered(cursor))
        /\ UNCHANGED <<plan, index, cursor, last, executed>>
        /\ cursor \in 1..(Len(plan) + 1) /\ cursor \in 1..Len(plan)
    BY <1>8 DEF ExecuteInGroupFails, InGroupAt
  <2>2. report' \in [index : Nat, executed : Nat]
    BY <2>1, ReportType
  <2> QED
    BY <2>1, <2>2
<1>9. CASE SkipBoundaryInGroup
  BY <1>9 DEF SkipBoundaryInGroup, InGroupAt, dbVars
<1>10. CASE CommitGroup
  BY <1>10 DEF CommitGroup
<1>11. CASE CommitGroupFails
  BY <1>11, ReportType DEF CommitGroupFails
<1>12. CASE DropTransaction
  BY <1>12 DEF DropTransaction
<1>13. CASE LoseConnection
  BY <1>13 DEF LoseConnection, execVars
<1>14. CASE Crash
  BY <1>14 DEF Crash, Dispatching, InGroupAt
<1>15. CASE UNCHANGED vars
  BY <1>15 DEF vars, execVars, dbVars
<1> QED
  BY <1>1, <1>2, <1>3, <1>4, <1>5, <1>6, <1>7, <1>8, <1>9, <1>10, <1>11, <1>12,
     <1>13, <1>14, <1>15 DEF Next, ExecutorStep, Terminated

(* Every variable keeps its type, for every set of plans.                  *)
THEOREM TypeCorrect == Spec => []TypeOK
BY InitTypeOK, NextTypeOK, PTL DEF Spec

(***************************************************************************)
(* Transactional DDL: what is committed ends at a commit point             *)
(***************************************************************************)

(* Nothing is committed at first, which is a commit point.                 *)
LEMMA InitIInv == Init => IInv
<1> SUFFICES ASSUME Init PROVE IInv
  OBVIOUS
<1>1. TypeOK
  BY InitTypeOK
<1>2. CommittedUpTo(1) /\ 1 \in 1..(Len(plan) + 1)
  BY <1>1, PlanIsSequence, StartIsCommitPoint DEF Init, DbInit, CommittedUpTo
<1> QED
  BY <1>1, <1>2 DEF Init, DbInit, IInv, DurableAtCommitPoint, CommittedUpTo,
                    SuccessIsComplete

(* Inside a group, everything up to the cursor is committed or pending.    *)
LEMMA GroupEndCommits ==
    ASSUME TypeOK, InGroupInv, AtGroupEnd
    PROVE  /\ CommitPoint(plan, cursor)
           /\ link = "up" => durable \cup pending = SqlBefore(plan, cursor)
<1>1. CommitPoint(plan, cursor)
  BY PlanIsSequence, GroupEndIsCommitPoint DEF AtGroupEnd, InGroupAt, TypeOK
<1>2. SqlBefore(plan, index) \subseteq SqlBefore(plan, cursor)
  BY PlanIsSequence DEF SqlBefore, InGroupInv, TypeOK
<1> QED
  BY <1>1, <1>2 DEF InGroupInv, CommittedUpTo

(* With transactional DDL every step keeps IInv.                           *)
LEMMA NextIInv ==
    ASSUME ~AutoCommitDDL
    PROVE  IInv /\ [Next]_vars => IInv'
<1> SUFFICES ASSUME IInv, [Next]_vars PROVE IInv'
  OBVIOUS
<1>a. TypeOK /\ TypeOK'
  BY NextTypeOK DEF IInv
<1>b. /\ plan \in Seq(StatementKind) /\ Len(plan) \in Nat
      /\ \A i \in 1..Len(plan) : plan[i] \in StatementKind
      /\ index \in 1..(Len(plan) + 1) /\ cursor \in 1..(Len(plan) + 1)
  BY <1>a, PlanIsSequence DEF TypeOK
<1>c. ASSUME NEW i \in 1..(Len(plan) + 1), Report(i) PROVE report' # NoReport
  BY <1>b, <1>c DEF Report, NoReport
<1> USE DEF IInv, DurableAtCommitPoint, SuccessIsComplete, CommittedUpTo, InGroupInv
<1>1. CASE SkipBoundary
  <2>1. /\ index \in 1..Len(plan) /\ plan[index] = "boundary"
        /\ CommitPoint(plan, index) /\ durable = SqlBefore(plan, index)
    BY <1>1, <1>b DEF SkipBoundary, Dispatching
  <2>2. CommitPoint(plan, index + 1) /\ SqlBefore(plan, index + 1) = durable
    BY <2>1, <1>b, SqlBeforeStep, CommitPointStep
  <2> QED
    BY <1>1, <1>a, <2>2 DEF SkipBoundary, Dispatching, dbVars
<1>2. CASE BeginGroup
  <2>1. /\ index <= Len(plan) /\ plan[index] = "tx"
        /\ pending = {} /\ CommittedUpTo(index) /\ report = NoReport
    BY <1>2 DEF BeginGroup, Dispatching
  <2>2. /\ cursor' = index /\ index' = index /\ plan' = plan /\ durable' = durable
        /\ pending' = {} /\ txState' = "open" /\ link' = "up" /\ pc' = "group"
        /\ report' = report
    BY <1>2, <2>1 DEF BeginGroup, DbBegin
  <2>3. InGroupInv'
    BY <1>b, <2>1, <2>2
  <2> QED
    BY <1>a, <2>1, <2>2, <2>3
<1>3. CASE BeginGroupFails
  <2>1. /\ durable' = durable /\ plan' = plan /\ txState' = "idle" /\ pending' = {}
    BY <1>3 DEF BeginGroupFails, Dispatching, DbRefuse, dbVars
  <2> QED
    BY <1>3, <1>a, <1>b, <1>c, <2>1 DEF BeginGroupFails
<1>4. CASE ExecuteNonTransactional
  <2>1. /\ index \in 1..Len(plan) /\ plan[index] = "nontx" /\ CommittedUpTo(index)
        /\ txState = "idle" /\ pending = {} /\ report = NoReport
    BY <1>4, <1>b DEF ExecuteNonTransactional, Dispatching
  <2>2. /\ durable' = durable \cup {index} /\ pending' = {} /\ txState' = "idle"
        /\ plan' = plan /\ index' = index + 1 /\ pc' = "dispatch" /\ report' = report
    BY <1>4, <2>1 DEF ExecuteNonTransactional, Dispatching, DbPerform, DefersEffects
  <2>3. CommitPoint(plan, index + 1) /\ SqlBefore(plan, index + 1) = durable'
    BY <1>b, <2>1, <2>2, SqlBeforeStep, CommitPointStep
  <2> QED
    BY <1>a, <1>b, <2>1, <2>2, <2>3
<1>5. CASE ExecuteNonTransactionalFails
  <2>1. /\ index \in 1..Len(plan) /\ plan[index] = "nontx" /\ CommittedUpTo(index)
        /\ txState = "idle" /\ pending = {}
    BY <1>5, <1>b DEF ExecuteNonTransactionalFails, Dispatching
  <2>2. /\ durable' \in {durable, durable \cup {index}}
        /\ pending' = {} /\ txState' = "idle"
        /\ plan' = plan /\ pc' = "returned" /\ report' # NoReport
    BY <1>5, <1>b, <1>c, <2>1
       DEF ExecuteNonTransactionalFails, DbRefuse, DbPerformUnanswered, DefersEffects,
           dbVars
  <2>3. /\ CommitPoint(plan, index + 1)
        /\ SqlBefore(plan, index + 1) = durable \cup {index}
    BY <1>b, <2>1, SqlBeforeStep, CommitPointStep
  <2>4. \E k \in 1..(Len(plan) + 1) : CommitPoint(plan, k) /\ durable' = SqlBefore(plan, k)
    <3>1. CASE durable' = durable
      BY <1>b, <2>1, <3>1
    <3>2. CASE durable' = durable \cup {index}
      BY <1>b, <2>1, <2>3, <3>2
    <3> QED
      BY <2>2, <3>1, <3>2
  <2> QED
    BY <1>a, <2>2, <2>4
<1>6. CASE Finish
  <2>1. /\ CommittedUpTo(index) /\ index = Len(plan) + 1
    BY <1>6, <1>b DEF Finish
  <2> QED
    BY <1>6, <1>a, <1>b, <2>1 DEF Finish, dbVars, AllSql
<1>7. CASE ExecuteInGroup
  <2>1. /\ InGroupInv /\ cursor \in 1..Len(plan) /\ plan[cursor] = "tx" /\ link = "up"
        /\ report = NoReport
    BY <1>7, <1>b DEF ExecuteInGroup, InGroupAt, DbPerform
  <2>2. /\ pending' = pending \cup {cursor} /\ txState' = "open" /\ link' = "up"
        /\ durable' = durable /\ plan' = plan /\ index' = index
        /\ cursor' = cursor + 1 /\ pc' = "group" /\ report' = report
    BY <1>7, <2>1 DEF ExecuteInGroup, InGroupAt, DbPerform, DefersEffects
  <2>3. SqlBefore(plan, cursor + 1) = SqlBefore(plan, cursor) \cup {cursor}
    BY <1>b, <2>1, SqlBeforeStep
  <2>4. cursor \notin SqlBefore(plan, index)
    BY <1>b, <2>1 DEF SqlBefore
  <2>5. \A n \in index..cursor : plan[n] # "nontx"
    BY <1>b, <2>1
  <2>6. InGroupInv'
    BY <1>b, <2>1, <2>2, <2>3, <2>4, <2>5
  <2> QED
    BY <1>a, <2>1, <2>2, <2>6
<1>8. CASE ExecuteInGroupFails
  <2>1. /\ InGroupInv /\ cursor \in 1..Len(plan)
    BY <1>8, <1>b DEF ExecuteInGroupFails, InGroupAt
  <2>2. /\ durable' = durable /\ plan' = plan /\ pc' = "unwind"
        /\ link' = "down" => txState' = "idle" /\ pending' = {}
    BY <1>8, <2>1
       DEF ExecuteInGroupFails, InGroupAt, DbRefuse, DbPerformUnanswered, DefersEffects,
           dbVars
  <2>3. report' # NoReport
    BY <1>8, <1>b, <1>c DEF ExecuteInGroupFails
  <2> QED
    BY <1>a, <1>b, <2>1, <2>2, <2>3
<1>9. CASE SkipBoundaryInGroup
  <2>1. /\ InGroupInv /\ cursor \in 1..Len(plan) /\ plan[cursor] = "boundary"
        /\ report = NoReport
    BY <1>9, <1>b DEF SkipBoundaryInGroup, InGroupAt
  <2>2. SqlBefore(plan, cursor + 1) = SqlBefore(plan, cursor)
    BY <1>b, <2>1, SqlBeforeStep
  <2>3. \A n \in index..cursor : plan[n] # "nontx"
    BY <1>b, <2>1
  <2>4. /\ cursor' = cursor + 1 /\ plan' = plan /\ index' = index /\ pc' = "group"
        /\ durable' = durable /\ pending' = pending /\ txState' = txState
        /\ link' = link /\ report' = report
    BY <1>9 DEF SkipBoundaryInGroup, InGroupAt, dbVars
  <2>5. InGroupInv'
    BY <1>b, <2>1, <2>2, <2>3, <2>4
  <2> QED
    BY <1>a, <2>1, <2>4, <2>5
<1>10. CASE CommitGroup
  <2>1. /\ InGroupInv /\ AtGroupEnd /\ link = "up" /\ report = NoReport
    BY <1>10 DEF CommitGroup, AtGroupEnd, DbCommit
  <2>2. CommitPoint(plan, cursor) /\ durable \cup pending = SqlBefore(plan, cursor)
    BY <1>a, <2>1, GroupEndCommits
  <2>3. /\ durable' = durable \cup pending /\ pending' = {} /\ txState' = "idle"
        /\ plan' = plan /\ index' = cursor /\ pc' = "dispatch" /\ report' = report
    BY <1>10 DEF CommitGroup, DbCommit
  <2> QED
    BY <1>a, <1>b, <2>1, <2>2, <2>3
<1>11. CASE CommitGroupFails
  <2>1. /\ InGroupInv /\ AtGroupEnd
    BY <1>11 DEF CommitGroupFails, AtGroupEnd
  <2>2. /\ CommitPoint(plan, cursor)
        /\ link = "up" => durable \cup pending = SqlBefore(plan, cursor)
    BY <1>a, <2>1, GroupEndCommits
  <2>3. /\ plan' = plan /\ pc' = "unwind"
        /\ durable' = durable \/ (link = "up" /\ durable' = durable \cup pending)
        /\ link' = "down" => txState' = "idle" /\ pending' = {}
    BY <1>11, <2>1
       DEF CommitGroupFails, AtGroupEnd, DbRefuseCommit, DbRefuse, DbCommitUnanswered,
           dbVars
  <2>4. report' # NoReport
    BY <1>11, <1>a, <1>c DEF CommitGroupFails, TypeOK
  <2>5. DurableAtCommitPoint'
    BY <1>b, <2>2, <2>3
  <2> QED
    BY <1>a, <2>3, <2>4, <2>5
<1>12. CASE DropTransaction
  BY <1>12, <1>a DEF DropTransaction, DbRollback, DbRollbackFails
<1>13. CASE LoseConnection
  BY <1>13, <1>a DEF LoseConnection, DbEnd, execVars
<1>14. CASE Crash
  <2>1. CASE DbEnd
    BY <1>14, <1>a, <2>1 DEF Crash, DbEnd
  <2>2. CASE Dispatching("nontx") /\ DbPerformUnanswered(index)
    <3>1. /\ index \in 1..Len(plan) /\ plan[index] = "nontx" /\ CommittedUpTo(index)
          /\ txState = "idle" /\ pending = {}
      BY <1>b, <2>2 DEF Dispatching
    <3>2. /\ durable' = durable \cup {index} /\ pending' = {} /\ txState' = "idle"
          /\ plan' = plan /\ pc' = "crashed"
      BY <1>14, <2>2, <3>1 DEF Crash, DbPerformUnanswered, DefersEffects
    <3>3. /\ CommitPoint(plan, index + 1)
          /\ SqlBefore(plan, index + 1) = durable \cup {index}
      BY <1>b, <3>1, SqlBeforeStep, CommitPointStep
    <3>4. \E k \in 1..(Len(plan) + 1) : CommitPoint(plan, k) /\ durable' = SqlBefore(plan, k)
      BY <1>b, <3>1, <3>2, <3>3
    <3> QED
      BY <1>a, <3>2, <3>4
  <2>3. CASE InGroupAt("tx") /\ DbPerformUnanswered(cursor)
    <3>1. /\ durable' = durable /\ pending' = {} /\ txState' = "idle"
          /\ plan' = plan /\ pc' = "crashed"
      BY <1>14, <2>3 DEF Crash, InGroupAt, DbPerformUnanswered, DefersEffects
    <3> QED
      BY <1>a, <3>1
  <2>4. CASE AtGroupEnd /\ DbCommitUnanswered
    <3>1. CommitPoint(plan, cursor) /\ durable \cup pending = SqlBefore(plan, cursor)
      BY <1>a, <2>4, GroupEndCommits DEF AtGroupEnd, DbCommitUnanswered
    <3>2. /\ durable' = durable \cup pending /\ pending' = {} /\ txState' = "idle"
          /\ plan' = plan /\ pc' = "crashed"
      BY <1>14, <2>4 DEF Crash, DbCommitUnanswered
    <3> QED
      BY <1>a, <1>b, <3>1, <3>2
  <2> QED BY <1>14, <2>1, <2>2, <2>3, <2>4 DEF Crash
<1>15. CASE UNCHANGED vars
  BY <1>15, <1>a DEF vars, execVars, dbVars
<1> QED
  BY <1>1, <1>2, <1>3, <1>4, <1>5, <1>6, <1>7, <1>8, <1>9, <1>10, <1>11, <1>12,
     <1>13, <1>14, <1>15 DEF Next, ExecutorStep, Terminated

(* The inductive invariant holds in every reachable state.                 *)
THEOREM InductiveInvariant ==
    ASSUME ~AutoCommitDDL
    PROVE  Spec => []IInv
BY InitIInv, NextIInv, PTL DEF Spec

(* Without implicit commits, every committed state is the part of the plan *)
(* before a commit point, through every failure, lost connection or crash. *)
THEOREM AtomicGroups ==
    ASSUME ~AutoCommitDDL
    PROVE  Spec => []DurableAtCommitPoint
<1>1. IInv => DurableAtCommitPoint
  BY DEF IInv
<1> QED
  BY <1>1, InductiveInvariant, PTL

(* A plan without non-transactional statements is one transaction: nothing *)
(* of it is committed, or all of it (DESIGN.md:1502).                      *)
WholePlanIsOneTransaction ==
    (\A i \in 1..Len(plan) : plan[i] # "nontx") => durable \in {{}, AllSql(plan)}

(* The only commit points of such a plan are its start and its end, so a   *)
(* commit keeps all of it.                                                 *)
THEOREM TransactionalPlanIsAtomic ==
    ASSUME ~AutoCommitDDL
    PROVE  Spec => []WholePlanIsOneTransaction
<1>1. IInv => WholePlanIsOneTransaction
  <2> SUFFICES ASSUME IInv, \A i \in 1..Len(plan) : plan[i] # "nontx"
               PROVE  durable \in {{}, AllSql(plan)}
    BY DEF WholePlanIsOneTransaction
  <2>1. PICK k \in 1..(Len(plan) + 1) :
            CommitPoint(plan, k) /\ durable = SqlBefore(plan, k)
    BY DEF IInv, DurableAtCommitPoint
  <2>2. /\ plan \in Seq(StatementKind) /\ Len(plan) \in Nat
        /\ \A i \in 1..Len(plan) : plan[i] \in {"tx", "boundary"}
    BY PlanIsSequence DEF IInv, StatementKind
  <2>3. ~\E i \in 1..(k - 1), j \in k..Len(plan) : plan[i] = "tx" /\ plan[j] = "tx"
    BY <2>1, <2>2 DEF CommitPoint, CutsGroup
  <2>4. CASE \E i \in 1..(k - 1) : plan[i] = "tx"
    BY <2>1, <2>2, <2>3, <2>4 DEF SqlBefore, AllSql
  <2>5. CASE ~\E i \in 1..(k - 1) : plan[i] = "tx"
    BY <2>1, <2>2, <2>5 DEF SqlBefore
  <2> QED
    BY <2>4, <2>5
<1> QED
  BY <1>1, InductiveInvariant, PTL

(***************************************************************************)
(* Refinement                                                              *)
(***************************************************************************)

(* The SQL statement at k is the first one not before k.                   *)
LEMMA FirstRemaining ==
    ASSUME NEW p \in Seq(StatementKind), NEW k \in 1..Len(p), p[k] # "boundary"
    PROVE  /\ k \in AllSql(p) \ SqlBefore(p, k)
           /\ \A j \in AllSql(p) \ SqlBefore(p, k) : k <= j
BY DEF AllSql, SqlBefore

(* What lies between a group's first statement and its end is the group.   *)
LEMMA GroupIsUnit ==
    ASSUME NEW p \in Seq(StatementKind), NEW k \in 1..Len(p), p[k] = "tx",
           NEW c \in k..(Len(p) + 1), c > Len(p) \/ p[c] = "nontx",
           \A n \in k..(c - 1) : p[n] # "nontx"
    PROVE  SqlBefore(p, c) = SqlBefore(p, k) \cup UnitFrom(p, k)
<1>1. \A i \in 1..Len(p) : p[i] \in StatementKind
  OBVIOUS
<1>2. ASSUME NEW j \in GroupFrom(p, k) PROVE j \in SqlBefore(p, c)
  BY DEF GroupFrom, SqlBefore
<1>3. ASSUME NEW j \in SqlBefore(p, c), j \notin SqlBefore(p, k)
      PROVE  j \in GroupFrom(p, k)
  <2>1. j \in k..(c - 1) /\ j \in k..Len(p) /\ p[j] # "boundary"
    BY <1>3 DEF SqlBefore
  <2>2. p[j] = "tx" /\ \A n \in k..j : p[n] # "nontx"
    BY <1>1, <2>1 DEF StatementKind
  <2> QED
    BY <2>1, <2>2 DEF GroupFrom
<1>4. SqlBefore(p, k) \subseteq SqlBefore(p, c)
  BY DEF SqlBefore
<1> QED
  BY <1>2, <1>3, <1>4 DEF UnitFrom

(* The instance's copies of the operators on plans are the executor's.     *)
LEMMA SamePlanOperators ==
    /\ Abstract!Remaining = AllSql(plan) \ durable
    /\ \A i : Abstract!UnitFrom(plan, i) = UnitFrom(plan, i)
BY DEF Abstract!Remaining, Abstract!AllSql, Abstract!SqlBefore, AllSql, SqlBefore,
       Abstract!UnitFrom, Abstract!GroupFrom, UnitFrom, GroupFrom

(* Every step of the executor is a step of PlanExecution or changes        *)
(* nothing it can see.                                                     *)
LEMMA StepRefines ==
    ASSUME ~AutoCommitDDL
    PROVE  IInv /\ [Next]_vars => [Abstract!Next]_Abstract!pvars
<1> SUFFICES ASSUME IInv, [Next]_vars PROVE [Abstract!Next]_Abstract!pvars
  OBVIOUS
<1>a. /\ plan \in Seq(StatementKind) /\ Len(plan) \in Nat
      /\ index \in 1..(Len(plan) + 1) /\ cursor \in 1..(Len(plan) + 1)
      /\ last \in 1..(Len(plan) + 1)
      /\ TypeOK
  BY PlanIsSequence DEF IInv, TypeOK
<1>b. ASSUME NEW i \in 1..(Len(plan) + 1), Report(i) PROVE report' # NoReport
  BY <1>a, <1>b DEF Report, NoReport
(* Steps that keep the plan, what is committed and the outcome.            *)
<1>c. ASSUME plan' = plan, durable' = durable, pc # "returned", pc' # "returned"
      PROVE  UNCHANGED Abstract!pvars
  BY <1>c DEF Abstract!pvars, Outcome
<1>d. ASSUME plan' = plan, durable' = durable, pc # "returned", pc' = "returned",
             report' # NoReport
      PROVE  Abstract!Next
  BY <1>d DEF Abstract!Next, Abstract!Fail, Outcome
(* Steps that commit the unit at `index`.                                  *)
<1>e. ASSUME plan' = plan, index <= Len(plan), plan[index] # "boundary",
             durable = SqlBefore(plan, index),
             durable' = durable \cup UnitFrom(plan, index),
             pc # "returned", pc' # "returned" \/ report' # NoReport
      PROVE  Abstract!Next
  <2>1. index \in AllSql(plan) \ durable /\ \A j \in AllSql(plan) \ durable : index <= j
    BY <1>a, <1>e, FirstRemaining
  <2>2. /\ durable' = durable \cup Abstract!UnitFrom(plan, index)
        /\ index \in Abstract!Remaining /\ \A j \in Abstract!Remaining : index <= j
    BY <1>e, <2>1, SamePlanOperators
  <2>3. Outcome = "running" /\ Outcome' \in {"running", "failed"}
    BY <1>e DEF Outcome
  <2>4. Abstract!ApplyUnit
    BY <1>e, <2>2, <2>3 DEF Abstract!ApplyUnit
  <2> QED
    BY <2>4 DEF Abstract!Next
<1>f. ASSUME InGroupInv, AtGroupEnd, link = "up"
      PROVE  /\ index <= Len(plan) /\ plan[index] # "boundary"
             /\ durable = SqlBefore(plan, index)
             /\ durable \cup pending = durable \cup UnitFrom(plan, index)
  <2>1. /\ index \in 1..Len(plan) /\ plan[index] = "tx" /\ cursor \in index..(Len(plan) + 1)
        /\ \A n \in index..(cursor - 1) : plan[n] # "nontx"
        /\ cursor > Len(plan) \/ plan[cursor] = "nontx"
    BY <1>a, <1>f DEF InGroupInv, AtGroupEnd, InGroupAt
  <2>2. SqlBefore(plan, cursor) = SqlBefore(plan, index) \cup UnitFrom(plan, index)
    BY <1>a, <2>1, GroupIsUnit
  <2> QED
    BY <1>a, <1>f, <2>1, <2>2, GroupEndCommits DEF InGroupInv, CommittedUpTo
<1>1. CASE SkipBoundary
  BY <1>1, <1>c DEF SkipBoundary, Dispatching, dbVars
<1>2. CASE BeginGroup
  BY <1>2, <1>c DEF BeginGroup, Dispatching, DbBegin
<1>3. CASE BeginGroupFails
  BY <1>3, <1>a, <1>b, <1>d DEF BeginGroupFails, Dispatching, DbRefuse, dbVars
<1>4. CASE ExecuteNonTransactional
  <2>1. /\ index <= Len(plan) /\ plan[index] = "nontx" /\ durable = SqlBefore(plan, index)
        /\ txState = "idle" /\ pending = {}
    BY <1>4 DEF ExecuteNonTransactional, Dispatching, IInv, CommittedUpTo
  <2>2. /\ durable' = durable \cup {index} /\ plan' = plan /\ pc = "dispatch"
        /\ pc' = "dispatch"
    BY <1>4, <2>1 DEF ExecuteNonTransactional, Dispatching, DbPerform, DefersEffects
  <2> QED
    BY <1>e, <2>1, <2>2 DEF UnitFrom
<1>5. CASE ExecuteNonTransactionalFails
  <2>1. /\ index <= Len(plan) /\ plan[index] = "nontx" /\ durable = SqlBefore(plan, index)
        /\ txState = "idle" /\ pending = {}
        /\ plan' = plan /\ pc = "dispatch" /\ pc' = "returned" /\ report' # NoReport
    BY <1>5, <1>a, <1>b
       DEF ExecuteNonTransactionalFails, Dispatching, IInv, CommittedUpTo
  <2>2. CASE DbRefuse
    BY <1>d, <2>1, <2>2 DEF DbRefuse, dbVars
  <2>3. CASE DbPerformUnanswered(index)
    BY <1>e, <2>1, <2>3 DEF DbPerformUnanswered, DefersEffects, UnitFrom
  <2> QED
    BY <1>5, <2>2, <2>3 DEF ExecuteNonTransactionalFails
<1>6. CASE Finish
  <2>1. /\ durable = AllSql(plan) /\ report = NoReport /\ plan' = plan
        /\ durable' = durable /\ pc = "dispatch" /\ pc' = "returned" /\ report' = report
    BY <1>6, <1>a DEF Finish, IInv, CommittedUpTo, AllSql, dbVars
  <2> QED
    BY <2>1, SamePlanOperators DEF Abstract!Next, Abstract!Succeed, Outcome
<1>7. CASE ExecuteInGroup
  <2>1. durable' = durable
    BY <1>7 DEF ExecuteInGroup, InGroupAt, DbPerform, DefersEffects, IInv, InGroupInv
  <2> QED
    BY <1>7, <1>c, <2>1 DEF ExecuteInGroup, InGroupAt
<1>8. CASE ExecuteInGroupFails
  <2>1. durable' = durable
    BY <1>8 DEF ExecuteInGroupFails, InGroupAt, DbRefuse, DbPerformUnanswered,
                DefersEffects, dbVars, IInv, InGroupInv
  <2> QED
    BY <1>8, <1>c, <2>1 DEF ExecuteInGroupFails, InGroupAt
<1>9. CASE SkipBoundaryInGroup
  BY <1>9, <1>c DEF SkipBoundaryInGroup, InGroupAt, dbVars
<1>10. CASE CommitGroup
  <2>1. /\ InGroupInv /\ AtGroupEnd /\ link = "up" /\ durable' = durable \cup pending
        /\ plan' = plan /\ pc = "group" /\ pc' = "dispatch"
    BY <1>10 DEF CommitGroup, AtGroupEnd, DbCommit, IInv
  <2> QED
    BY <1>e, <1>f, <2>1
<1>11. CASE CommitGroupFails
  <2>1. /\ InGroupInv /\ AtGroupEnd /\ plan' = plan /\ pc = "group" /\ pc' = "unwind"
    BY <1>11 DEF CommitGroupFails, AtGroupEnd, IInv
  <2>2. CASE DbRefuseCommit
    BY <1>c, <2>1, <2>2 DEF DbRefuseCommit, DbRefuse, dbVars
  <2>3. CASE DbCommitUnanswered
    BY <1>e, <1>f, <2>1, <2>3 DEF DbCommitUnanswered
  <2> QED
    BY <1>11, <2>2, <2>3 DEF CommitGroupFails
<1>12. CASE DropTransaction
  BY <1>12, <1>d DEF DropTransaction, DbRollback, DbRollbackFails, IInv
<1>13. CASE LoseConnection
  BY <1>13 DEF LoseConnection, DbEnd, execVars, Abstract!pvars, Outcome
<1>14. CASE Crash
  <2>1. pc \in {"dispatch", "group", "unwind"} /\ pc' = "crashed" /\ plan' = plan
    BY <1>14 DEF Crash
  <2>2. CASE DbEnd
    BY <1>c, <2>1, <2>2 DEF DbEnd
  <2>3. CASE Dispatching("nontx") /\ DbPerformUnanswered(index)
    BY <1>e, <2>1, <2>3
       DEF Dispatching, DbPerformUnanswered, DefersEffects, UnitFrom, IInv, CommittedUpTo
  <2>4. CASE InGroupAt("tx") /\ DbPerformUnanswered(cursor)
    BY <1>c, <2>1, <2>4
       DEF InGroupAt, DbPerformUnanswered, DefersEffects, IInv, InGroupInv
  <2>5. CASE AtGroupEnd /\ DbCommitUnanswered
    BY <1>e, <1>f, <2>1, <2>5 DEF AtGroupEnd, DbCommitUnanswered, IInv
  <2> QED
    BY <1>14, <2>2, <2>3, <2>4, <2>5 DEF Crash
<1>15. CASE UNCHANGED vars
  BY <1>15 DEF vars, execVars, dbVars, Abstract!pvars, Outcome
<1> QED
  BY <1>1, <1>2, <1>3, <1>4, <1>5, <1>6, <1>7, <1>8, <1>9, <1>10, <1>11, <1>12,
     <1>13, <1>14, <1>15 DEF Next, ExecutorStep, Terminated

(* With transactional DDL the executor implements PlanExecution.           *)
THEOREM ExecutorImplementsPlanExecution ==
    ASSUME ~AutoCommitDDL
    PROVE  Spec => ImplementsPlanExecution
<1>1. Init => Abstract!Init
  BY DEF Init, DbInit, Abstract!Init, Outcome
<1>2. IInv /\ [Next]_vars => [Abstract!Next]_Abstract!pvars
  BY StepRefines
<1> QED
  BY <1>1, <1>2, InductiveInvariant, PTL DEF Spec, ImplementsPlanExecution, Abstract!Spec

-------------------------------------------------------------------------------
(* Order, reports and returns, against any server.                         *)

(***************************************************************************)
(* Counting statements                                                     *)
(***************************************************************************)

(* The statements before a position are finitely many.                     *)
LEMMA SqlBeforeFinite ==
    ASSUME NEW p \in Seq(StatementKind), NEW k \in 1..(Len(p) + 1)
    PROVE  IsFiniteSet(SqlBefore(p, k)) /\ Cardinality(SqlBefore(p, k)) \in Nat
<1>1. SqlBefore(p, k) \subseteq 1..(k - 1)
  BY DEF SqlBefore
<1>2. IsFiniteSet(1..(k - 1))
  BY FS_Interval
<1> QED
  BY <1>1, <1>2, FS_Subset, FS_CardinalityType

(* executed_statements goes up by one with each SQL statement and stays    *)
(* over a BatchBoundary.                                                   *)
LEMMA CountStep ==
    ASSUME NEW p \in Seq(StatementKind), NEW k \in 1..Len(p)
    PROVE  /\ p[k] = "boundary" =>
                 Cardinality(SqlBefore(p, k + 1)) = Cardinality(SqlBefore(p, k))
           /\ p[k] # "boundary" =>
                 Cardinality(SqlBefore(p, k + 1)) = Cardinality(SqlBefore(p, k)) + 1
<1>1. CASE p[k] = "boundary"
  BY <1>1, SqlBeforeStep
<1>2. CASE p[k] # "boundary"
  <2>1. SqlBefore(p, k + 1) = SqlBefore(p, k) \cup {k}
    BY <1>2, SqlBeforeStep
  <2>2. k \notin SqlBefore(p, k)
    BY DEF SqlBefore
  <2>3. IsFiniteSet(SqlBefore(p, k))
    BY SqlBeforeFinite
  <2> QED
    BY <1>2, <2>1, <2>2, <2>3, FS_AddElement
<1> QED
  BY <1>1, <1>2

(* Nothing is sent between the last statement of a group and the cursor.   *)
LEMMA OnlyBoundariesBetween ==
    ASSUME NEW p \in Seq(StatementKind), NEW l \in 1..Len(p),
           NEW c \in (l + 1)..(Len(p) + 1),
           \A n \in (l + 1)..(c - 1) : p[n] = "boundary"
    PROVE  SqlBefore(p, l + 1) = SqlBefore(p, c)
BY DEF SqlBefore

(* SqlBefore grows with the position.                                      *)
LEMMA SqlBeforeGrows ==
    ASSUME NEW p \in Seq(StatementKind),
           NEW k \in 1..(Len(p) + 1), NEW m \in k..(Len(p) + 1)
    PROVE  SqlBefore(p, k) \subseteq SqlBefore(p, m)
BY DEF SqlBefore

(***************************************************************************)
(* The reports                                                             *)
(***************************************************************************)

(* What the module's abbreviations give in a typed state.                  *)
LEMMA Typed ==
    ASSUME TypeOK
    PROVE  /\ plan \in Seq(StatementKind) /\ Len(plan) \in Nat
           /\ \A i \in 1..Len(plan) : plan[i] \in StatementKind
           /\ index \in 1..(Len(plan) + 1) /\ cursor \in 1..(Len(plan) + 1)
           /\ last \in 1..(Len(plan) + 1)
BY PlanIsSequence DEF TypeOK

(* A report names a position and what was counted by then.                 *)
LEMMA ReportIsReport ==
    ASSUME TypeOK, NEW i \in 1..(Len(plan) + 1), Report(i)
    PROVE  /\ report' # NoReport
           /\ report'.index = i /\ report'.executed = executed
BY Typed DEF Report, NoReport

(* A statement that failed: everything before it counted, and either none  *)
(* of it or, over a lost connection, it alone on top is committed.         *)
LEMMA StatementReport ==
    ASSUME TypeOK, NEW i \in 1..Len(plan), Report(i), plan' = plan, plan[i] # "boundary",
           executed = Cardinality(SqlBefore(plan, i)),
           \/ /\ durable' \subseteq SqlBefore(plan, i)
              /\ AutoCommitDDL => durable' = SqlBefore(plan, i)
           \/ link' = "down" /\ durable' = SqlBefore(plan, i + 1)
    PROVE  ReportLocatesFailure' /\ ExecutedCountIsDurable'
<1>1. i \in 1..(Len(plan) + 1)
  BY Typed
<1>2. link' = "down" => link' # "up"
  OBVIOUS
<1>3. ReportLocatesFailure'
  BY <1>1, ReportIsReport DEF ReportLocatesFailure
<1>4. ExecutedCountIsDurable'
  BY <1>1, <1>2, ReportIsReport DEF ExecutedCountIsDurable
<1> QED
  BY <1>3, <1>4

(* A COMMIT that failed: the report names the last statement of the group, *)
(* which has nothing after it, and counts the whole group.                 *)
LEMMA CommitReport ==
    ASSUME TypeOK, MidGroup, AtGroupEnd, Report(last), plan' = plan,
           \/ durable' = durable /\ (AutoCommitDDL => link' = "down")
           \/ link' = "down" /\ durable' = SqlBefore(plan, cursor)
    PROVE  ReportLocatesFailure' /\ ExecutedCountIsDurable'
<1>a. /\ plan \in Seq(StatementKind) /\ Len(plan) \in Nat
      /\ index \in 1..Len(plan) /\ cursor \in 1..(Len(plan) + 1)
      /\ cursor > Len(plan) \/ plan[cursor] = "nontx"
      /\ plan[index] = "tx"
  BY Typed DEF MidGroup, AtGroupEnd, InGroupAt
<1>1. /\ last \in index..(cursor - 1) /\ last \in 1..Len(plan) /\ plan[last] = "tx"
      /\ \A n \in (last + 1)..(cursor - 1) : plan[n] = "boundary"
  BY <1>a, Typed DEF MidGroup, LastBeforeCursor
<1>2. SqlBefore(plan, last + 1) = SqlBefore(plan, cursor)
  BY <1>a, <1>1, OnlyBoundariesBetween
<1>3. GroupFrom(plan, last) = {last}
  <2>1. ASSUME NEW j \in GroupFrom(plan, last), j # last PROVE FALSE
    <3>1. j \in (last + 1)..Len(plan) /\ plan[j] = "tx" /\ \A n \in last..j : plan[n] # "nontx"
      BY <1>1, <2>1 DEF GroupFrom
    <3>2. CASE j < cursor
      BY <1>a, <1>1, <3>1, <3>2
    <3>3. CASE j >= cursor
      BY <1>a, <1>1, <3>1, <3>3
    <3> QED
      BY <1>a, <3>1, <3>2, <3>3
  <2>2. last \in GroupFrom(plan, last)
    BY <1>1 DEF GroupFrom
  <2> QED
    BY <2>1, <2>2
<1>4. SqlBefore(plan, index) \subseteq SqlBefore(plan, last)
  BY <1>a, <1>1, SqlBeforeGrows
<1>5. \/ durable' \subseteq SqlBefore(plan, last) /\ ~AutoCommitDDL
      \/ link' = "down" /\ durable' = SqlBefore(plan, last + 1)
  <2>1. link' = "up" \/ link' = "down" \/ durable' = durable
    OBVIOUS
  <2>2. CASE durable' = durable /\ ~AutoCommitDDL
    BY <1>4, <2>2 DEF MidGroup
  <2>3. CASE durable' = durable /\ AutoCommitDDL
    BY <1>2, <2>3 DEF MidGroup
  <2> QED
    BY <1>2, <2>2, <2>3
<1>6. /\ report'.index = last
      /\ report'.executed = Cardinality(SqlBefore(plan, last + 1))
  BY <1>1, <1>2, <1>a, ReportIsReport DEF MidGroup
<1>7. ReportLocatesFailure'
  BY <1>1, <1>3, <1>5, <1>6 DEF ReportLocatesFailure
<1>8. ExecutedCountIsDurable'
  BY <1>5 DEF ExecutedCountIsDurable
<1> QED
  BY <1>7, <1>8

(***************************************************************************)
(* The inductive invariant                                                 *)
(***************************************************************************)

(* Nothing is done yet when the executor starts.                           *)
LEMMA InitOrderInv == Init => OrderInv
<1> SUFFICES ASSUME Init PROVE OrderInv
  OBVIOUS
<1>1. TypeOK
  BY InitTypeOK
<1>2. SqlBefore(plan, 1) = {} /\ 1 \in 1..(Len(plan) + 1)
  BY <1>1, Typed, StartIsCommitPoint
<1>3. Cardinality({}) = 0
  BY FS_EmptySet
<1> QED
  BY <1>1, <1>2, <1>3 DEF Init, DbInit, OrderInv, EffectsFollowPlanOrder, Settled,
                          ReportLocatesFailure, ExecutedCountIsDurable

(* A state between groups, or after the last one, and a state inside one.  *)
OutsideGroups == TypeOK /\ Settled /\ pc \notin {"group", "unwind"}

InsideGroup ==
    /\ TypeOK
    /\ MidGroup
    /\ pc = "group"
    /\ link = "down" \/ AutoCommitDDL => pending = {}

(* A state between groups satisfies OrderInv.                              *)
LEMMA OutsideIsOrderInv == OutsideGroups => OrderInv
BY Typed DEF OutsideGroups, OrderInv, EffectsFollowPlanOrder, Settled,
             ReportLocatesFailure, ExecutedCountIsDurable

(* So does a state inside one.                                             *)
LEMMA InsideIsOrderInv == InsideGroup => OrderInv
<1> SUFFICES ASSUME InsideGroup PROVE OrderInv
  OBVIOUS
<1>1. /\ index \in 1..(Len(plan) + 1) /\ cursor \in 1..(Len(plan) + 1)
      /\ link \in {"up", "down"}
  BY Typed DEF InsideGroup, TypeOK
<1>2. \E k \in 1..(Len(plan) + 1) : durable = SqlBefore(plan, k)
  BY <1>1 DEF InsideGroup, MidGroup
<1>3. EffectsFollowPlanOrder
  BY <1>1, <1>2 DEF InsideGroup, MidGroup, EffectsFollowPlanOrder
<1> QED
  BY <1>2, <1>3 DEF InsideGroup, OrderInv, MidGroup, ReportLocatesFailure,
                    ExecutedCountIsDurable

(* The same two facts about the state after a step.                        *)
LEMMA StepLandsInOrderInv ==
    (OutsideGroups' => OrderInv') /\ (InsideGroup' => OrderInv')
BY OutsideIsOrderInv, InsideIsOrderInv, PTL

(* Every step keeps the order.                                             *)
LEMMA NextOrderInv == OrderInv /\ [Next]_vars => OrderInv'
<1> SUFFICES ASSUME OrderInv, [Next]_vars PROVE OrderInv'
  OBVIOUS
<1>a. TypeOK /\ TypeOK'
  BY NextTypeOK DEF OrderInv
<1>b. /\ plan \in Seq(StatementKind) /\ Len(plan) \in Nat
      /\ index \in 1..(Len(plan) + 1) /\ cursor \in 1..(Len(plan) + 1)
      /\ last \in 1..(Len(plan) + 1) /\ link \in {"up", "down"}
  BY <1>a, Typed DEF TypeOK
<1>c. /\ EffectsFollowPlanOrder
      /\ \E k \in 1..(Len(plan) + 1) : durable = SqlBefore(plan, k)
      /\ link = "down" \/ AutoCommitDDL => pending = {}
      /\ ReportLocatesFailure /\ ExecutedCountIsDurable
      /\ pc = "dispatch" => Settled
      /\ pc = "group" => MidGroup
      /\ pc = "unwind" => report # NoReport
  BY DEF OrderInv
(* A failed request leaves a prefix committed and a report behind.         *)
<1>d. ASSUME pc' \in {"unwind", "returned"}, plan' = plan, report' # NoReport,
             ReportLocatesFailure', ExecutedCountIsDurable',
             \E k \in 1..(Len(plan) + 1) : durable' = SqlBefore(plan, k),
             \/ pending' = {}
             \/ /\ durable' = durable /\ pending' = pending
                /\ link' = "down" \/ AutoCommitDDL => pending' = {}
      PROVE  OrderInv'
  BY <1>a, <1>c, <1>d DEF OrderInv, EffectsFollowPlanOrder
<1>1. CASE SkipBoundary
  <2>1. /\ Settled /\ index \in 1..Len(plan) /\ plan[index] = "boundary"
        /\ index' = index + 1 /\ plan' = plan /\ pc' = "dispatch" /\ executed' = executed
        /\ report' = report
        /\ txState' = txState /\ pending' = pending /\ durable' = durable
    BY <1>1, <1>b, <1>c DEF SkipBoundary, Dispatching, dbVars
  <2>2. /\ SqlBefore(plan, index + 1) = SqlBefore(plan, index)
        /\ Cardinality(SqlBefore(plan, index + 1)) = Cardinality(SqlBefore(plan, index))
    BY <1>b, <2>1, SqlBeforeStep, CountStep
  <2>3. Settled'
    BY <2>1, <2>2 DEF Settled
  <2> QED
    BY <1>a, <2>1, <2>3, StepLandsInOrderInv DEF OutsideGroups
<1>2. CASE BeginGroup
  <2>1. /\ Settled /\ index <= Len(plan) /\ plan[index] = "tx" /\ link' = "up"
        /\ plan' = plan /\ pc' = "group" /\ index' = index /\ cursor' = index
        /\ last' = index /\ executed' = executed /\ report' = report
        /\ txState' = "open" /\ pending' = pending /\ durable' = durable
    BY <1>2, <1>c DEF BeginGroup, Dispatching, DbBegin
  <2>2. MidGroup'
    BY <1>b, <2>1 DEF Settled, MidGroup, LastBeforeCursor
  <2> QED
    BY <1>a, <2>1, <2>2, StepLandsInOrderInv DEF InsideGroup, Settled
<1>3. CASE BeginGroupFails
  <2>1. /\ Settled /\ index \in 1..Len(plan) /\ plan[index] = "tx" /\ pc' = "returned"
        /\ plan' = plan /\ Report(index) /\ durable' = durable /\ pending' = {}
    BY <1>3, <1>b, <1>c
       DEF BeginGroupFails, Dispatching, DbRefuse, dbVars, Settled
  <2>2. ReportLocatesFailure' /\ ExecutedCountIsDurable'
    BY <1>a, <2>1, StatementReport DEF Settled
  <2> QED
    BY <1>a, <1>b, <1>c, <1>d, <2>1, <2>2, ReportIsReport
<1>4. CASE ExecuteNonTransactional
  <2>1. /\ Settled /\ index \in 1..Len(plan) /\ plan[index] = "nontx"
        /\ index' = index + 1 /\ plan' = plan /\ pc' = "dispatch"
        /\ executed' = executed + 1 /\ report' = report
        /\ txState' = "idle" /\ pending' = {} /\ durable' = durable \cup {index}
    BY <1>4, <1>b, <1>c
       DEF ExecuteNonTransactional, Dispatching, DbPerform, DefersEffects, Settled
  <2>2. /\ SqlBefore(plan, index + 1) = SqlBefore(plan, index) \cup {index}
        /\ Cardinality(SqlBefore(plan, index + 1)) = Cardinality(SqlBefore(plan, index)) + 1
    BY <1>b, <2>1, SqlBeforeStep, CountStep
  <2>3. Settled'
    BY <2>1, <2>2 DEF Settled
  <2> QED
    BY <1>a, <2>1, <2>3, StepLandsInOrderInv DEF OutsideGroups
<1>5. CASE ExecuteNonTransactionalFails
  <2>1. /\ Settled /\ index \in 1..Len(plan) /\ plan[index] = "nontx" /\ pc' = "returned"
        /\ plan' = plan /\ Report(index) /\ pending' = {}
        /\ durable' = durable \/ (link' = "down" /\ durable' = durable \cup {index})
    BY <1>5, <1>b, <1>c
       DEF ExecuteNonTransactionalFails, Dispatching, DbRefuse, DbPerformUnanswered,
           DefersEffects, dbVars, Settled
  <2>2. SqlBefore(plan, index + 1) = SqlBefore(plan, index) \cup {index}
    BY <1>b, <2>1, SqlBeforeStep
  <2>3. ReportLocatesFailure' /\ ExecutedCountIsDurable'
    BY <1>a, <2>1, <2>2, StatementReport DEF Settled
  <2>4. \E k \in 1..(Len(plan) + 1) : durable' = SqlBefore(plan, k)
    <3>1. index \in 1..(Len(plan) + 1) /\ index + 1 \in 1..(Len(plan) + 1)
      BY <1>b, <2>1
    <3> QED
      BY <2>1, <2>2, <3>1 DEF Settled
  <2> QED
    BY <1>a, <1>b, <1>d, <2>1, <2>3, <2>4, ReportIsReport
<1>6. CASE Finish
  <2>1. /\ Settled /\ pc' = "returned" /\ plan' = plan /\ index' = index
        /\ executed' = executed /\ report' = report
        /\ txState' = txState /\ pending' = pending /\ durable' = durable
    BY <1>6, <1>c DEF Finish, dbVars
  <2>2. Settled'
    BY <2>1 DEF Settled
  <2> QED
    BY <1>a, <2>1, <2>2, StepLandsInOrderInv DEF OutsideGroups
<1>7. CASE ExecuteInGroup
  <2>1. /\ MidGroup /\ cursor \in 1..Len(plan) /\ plan[cursor] = "tx" /\ link = "up"
        /\ plan' = plan /\ pc' = "group" /\ index' = index /\ cursor' = cursor + 1
        /\ last' = cursor /\ executed' = executed + 1 /\ report' = report
        /\ link' = "up" /\ index <= cursor /\ index' \in Nat
    BY <1>7, <1>b, <1>c DEF ExecuteInGroup, InGroupAt, DbPerform, MidGroup
  <2>2. /\ SqlBefore(plan, cursor + 1) = SqlBefore(plan, cursor) \cup {cursor}
        /\ Cardinality(SqlBefore(plan, cursor + 1)) = Cardinality(SqlBefore(plan, cursor)) + 1
    BY <1>b, <2>1, SqlBeforeStep, CountStep
  <2>3. /\ \A n \in index'..(cursor' - 1) : plan[n] # "nontx"
        /\ LastBeforeCursor'
    BY <1>b, <2>1 DEF MidGroup, LastBeforeCursor
  <2>4. /\ durable' = SqlBefore(plan, IF AutoCommitDDL THEN cursor + 1 ELSE index)
        /\ durable' \cup pending' = SqlBefore(plan, cursor + 1)
        /\ ~AutoCommitDDL => txState' = "open"
        /\ AutoCommitDDL => txState' = "idle" /\ pending' = {}
    BY <1>7, <2>1, <2>2, <1>c DEF ExecuteInGroup, DbPerform, DefersEffects, MidGroup
  <2>5. MidGroup'
    BY <2>1, <2>2, <2>3, <2>4 DEF MidGroup
  <2> QED
    BY <1>a, <2>1, <2>4, <2>5, StepLandsInOrderInv DEF InsideGroup
<1>8. CASE ExecuteInGroupFails
  <2>1. /\ MidGroup /\ cursor \in 1..Len(plan) /\ plan[cursor] = "tx" /\ pc' = "unwind"
        /\ plan' = plan /\ Report(cursor) /\ index \in 1..cursor
        /\ DbRefuse \/ DbPerformUnanswered(cursor)
    BY <1>8, <1>b, <1>c DEF ExecuteInGroupFails, InGroupAt, MidGroup
  <2>2. SqlBefore(plan, cursor + 1) = SqlBefore(plan, cursor) \cup {cursor}
    BY <1>b, <2>1, SqlBeforeStep
  <2>3. /\ durable \subseteq SqlBefore(plan, cursor)
        /\ AutoCommitDDL => durable = SqlBefore(plan, cursor)
    BY <1>b, <2>1, SqlBeforeGrows DEF MidGroup
  <2>4. \/ durable' = durable
        \/ link' = "down" /\ durable' = SqlBefore(plan, cursor + 1)
    BY <1>c, <2>1, <2>2
       DEF DbRefuse, DbPerformUnanswered, DefersEffects, dbVars, MidGroup
  <2>5. \/ pending' = {}
        \/ durable' = durable /\ pending' = pending /\ link' = link
    BY <2>1 DEF DbRefuse, DbPerformUnanswered, dbVars
  <2>6. ReportLocatesFailure' /\ ExecutedCountIsDurable'
    BY <1>a, <2>1, <2>3, <2>4, StatementReport DEF MidGroup
  <2>7. \E k \in 1..(Len(plan) + 1) : durable' = SqlBefore(plan, k)
    <3>1. cursor + 1 \in 1..(Len(plan) + 1)
      BY <1>b, <2>1
    <3> QED
      BY <1>c, <2>4, <3>1
  <2> QED
    BY <1>a, <1>b, <1>c, <1>d, <2>1, <2>5, <2>6, <2>7, ReportIsReport
<1>9. CASE SkipBoundaryInGroup
  <2>1. /\ MidGroup /\ cursor \in 1..Len(plan) /\ plan[cursor] = "boundary"
        /\ plan' = plan /\ pc' = "group" /\ index' = index /\ cursor' = cursor + 1
        /\ last' = last /\ executed' = executed /\ report' = report
        /\ link' = link /\ txState' = txState /\ pending' = pending
        /\ durable' = durable /\ index \in 1..cursor
    BY <1>9, <1>b, <1>c DEF SkipBoundaryInGroup, InGroupAt, dbVars, MidGroup
  <2>2. index < cursor
    BY <1>b, <2>1 DEF MidGroup
  <2>3. /\ SqlBefore(plan, cursor + 1) = SqlBefore(plan, cursor)
        /\ Cardinality(SqlBefore(plan, cursor + 1)) = Cardinality(SqlBefore(plan, cursor))
    BY <1>b, <2>1, SqlBeforeStep, CountStep
  <2>4. /\ \A n \in index'..(cursor' - 1) : plan[n] # "nontx"
        /\ LastBeforeCursor'
    BY <1>b, <2>1, <2>2 DEF MidGroup, LastBeforeCursor
  <2>5. ~(AutoCommitDDL /\ txState = "open")
    BY <1>b, <2>1, <2>2 DEF MidGroup
  <2>6. MidGroup'
    BY <1>b, <2>1, <2>3, <2>4, <2>5 DEF MidGroup
  <2> QED
    BY <1>a, <1>c, <2>1, <2>6, StepLandsInOrderInv DEF InsideGroup
<1>10. CASE CommitGroup
  <2>1. /\ MidGroup /\ link = "up" /\ plan' = plan /\ pc' = "dispatch"
        /\ index' = cursor /\ executed' = executed /\ report' = report
        /\ txState' = "idle" /\ pending' = {} /\ durable' = durable \cup pending
    BY <1>10, <1>c DEF CommitGroup, AtGroupEnd, DbCommit, InGroupAt
  <2>2. Settled'
    BY <2>1 DEF MidGroup, Settled
  <2> QED
    BY <1>a, <2>1, <2>2, StepLandsInOrderInv DEF OutsideGroups
<1>11. CASE CommitGroupFails
  <2>1. /\ MidGroup /\ AtGroupEnd /\ Report(last) /\ pc' = "unwind" /\ plan' = plan
        /\ DbRefuseCommit \/ DbCommitUnanswered
    BY <1>11, <1>c DEF CommitGroupFails, AtGroupEnd, InGroupAt
  <2>2. index < cursor
    BY <1>b, <2>1 DEF MidGroup, AtGroupEnd, InGroupAt
  <2>3. \/ durable' = durable /\ (AutoCommitDDL => link' = "down")
        \/ link' = "down" /\ durable' = SqlBefore(plan, cursor)
    <3>1. CASE DbCommitUnanswered
      BY <2>1, <3>1 DEF DbCommitUnanswered, MidGroup
    <3>2. CASE DbRefuseCommit
      <4>1. AutoCommitDDL => txState # "open"
        BY <1>b, <2>1, <2>2 DEF MidGroup
      <4>2. AutoCommitDDL => link = "down"
        BY <1>b, <3>2, <4>1 DEF DbRefuseCommit
      <4> QED
        BY <3>2, <4>1, <4>2 DEF DbRefuseCommit, DbRefuse, dbVars
    <3> QED
      BY <2>1, <3>1, <3>2
  <2>4. ReportLocatesFailure' /\ ExecutedCountIsDurable'
    BY <1>a, <2>1, <2>3, CommitReport
  <2>5. \E k \in 1..(Len(plan) + 1) : durable' = SqlBefore(plan, k)
    BY <1>b, <1>c, <2>3
  <2>6. \/ pending' = {}
        \/ durable' = durable /\ pending' = pending /\ link' = link
    BY <2>1 DEF DbRefuseCommit, DbRefuse, DbCommitUnanswered, dbVars
  <2> QED
    BY <1>a, <1>b, <1>c, <1>d, <2>1, <2>4, <2>5, <2>6, ReportIsReport
<1>12. CASE DropTransaction
  <2>1. /\ report # NoReport /\ plan' = plan /\ pc' = "returned" /\ report' = report
        /\ link' = link /\ durable' = durable /\ pending' \in {{}, pending}
    BY <1>12, <1>c DEF DropTransaction, DbRollback, DbRollbackFails
  <2>2. ReportLocatesFailure' /\ ExecutedCountIsDurable'
    BY <1>c, <2>1 DEF ReportLocatesFailure, ExecutedCountIsDurable
  <2> QED
    BY <1>c, <1>d, <2>1, <2>2
<1>13. CASE LoseConnection
  <2>1. /\ plan' = plan /\ pc' = pc /\ index' = index /\ cursor' = cursor /\ last' = last
        /\ executed' = executed /\ report' = report /\ link' = "down"
        /\ txState' = "idle" /\ pending' = {} /\ durable' = durable
    BY <1>13 DEF LoseConnection, DbEnd, execVars
  <2>2. ReportLocatesFailure' /\ ExecutedCountIsDurable'
    BY <1>c, <2>1 DEF ReportLocatesFailure, ExecutedCountIsDurable
  <2>3. pc' = "dispatch" => Settled'
    BY <1>c, <2>1 DEF Settled
  <2>4. pc' = "group" => MidGroup'
    BY <1>c, <2>1 DEF MidGroup, LastBeforeCursor
  <2> QED
    BY <1>a, <1>c, <2>1, <2>2, <2>3, <2>4 DEF OrderInv, EffectsFollowPlanOrder
<1>14. CASE Crash
  <2>1. /\ pc \in {"dispatch", "group", "unwind"} /\ pc' = "crashed"
        /\ plan' = plan /\ report' = report /\ link' = "down" /\ pending' = {}
    BY <1>14 DEF Crash, DbEnd, DbPerformUnanswered, DbCommitUnanswered
  <2>2. \E k \in 1..(Len(plan) + 1) : durable' = SqlBefore(plan, k)
    <3>1. CASE DbEnd
      BY <1>c, <3>1 DEF DbEnd
    <3>2. CASE Dispatching("nontx") /\ DbPerformUnanswered(index)
      <4>1. Settled /\ index \in 1..Len(plan) /\ plan[index] = "nontx"
        BY <1>b, <1>c, <3>2 DEF Dispatching
      <4>2. durable' = SqlBefore(plan, index + 1)
        BY <1>b, <3>2, <4>1, SqlBeforeStep
           DEF DbPerformUnanswered, DefersEffects, Settled
      <4>3. index + 1 \in 1..(Len(plan) + 1)
        BY <1>b, <4>1
      <4> QED
        BY <4>2, <4>3
    <3>3. CASE InGroupAt("tx") /\ DbPerformUnanswered(cursor)
      <4>1. MidGroup /\ cursor \in 1..Len(plan) /\ plan[cursor] = "tx"
        BY <1>b, <1>c, <3>3 DEF InGroupAt
      <4>2. durable' \in {durable, SqlBefore(plan, cursor + 1)}
        BY <1>b, <3>3, <4>1, SqlBeforeStep
           DEF DbPerformUnanswered, DefersEffects, MidGroup
      <4>3. cursor + 1 \in 1..(Len(plan) + 1)
        BY <1>b, <4>1
      <4> QED
        BY <1>c, <4>2, <4>3
    <3>4. CASE AtGroupEnd /\ DbCommitUnanswered
      BY <1>b, <1>c, <3>4 DEF AtGroupEnd, InGroupAt, DbCommitUnanswered, MidGroup
    <3> QED
      BY <1>14, <3>1, <3>2, <3>3, <3>4 DEF Crash
  <2>3. report = NoReport \/ durable' = durable
    BY <1>14, <1>c, <2>1 DEF Crash, Dispatching, InGroupAt, AtGroupEnd, DbEnd, Settled,
                             MidGroup
  <2>4. ReportLocatesFailure' /\ ExecutedCountIsDurable'
    BY <1>c, <2>1, <2>3 DEF ReportLocatesFailure, ExecutedCountIsDurable
  <2> QED
    BY <1>a, <2>1, <2>2, <2>4 DEF OrderInv, EffectsFollowPlanOrder
<1>15. CASE UNCHANGED vars
  <2>1. /\ plan' = plan /\ pc' = pc /\ index' = index /\ cursor' = cursor /\ last' = last
        /\ executed' = executed /\ report' = report /\ link' = link
        /\ txState' = txState /\ pending' = pending /\ durable' = durable
    BY <1>15 DEF vars, execVars, dbVars
  <2>2. ReportLocatesFailure' /\ ExecutedCountIsDurable'
    BY <1>c, <2>1 DEF ReportLocatesFailure, ExecutedCountIsDurable
  <2>3. /\ pc' = "dispatch" => Settled'
        /\ pc' = "group" => MidGroup'
    BY <1>c, <2>1 DEF Settled, MidGroup, LastBeforeCursor
  <2> QED
    BY <1>a, <1>c, <2>1, <2>2, <2>3 DEF OrderInv, EffectsFollowPlanOrder
<1> QED
  BY <1>1, <1>2, <1>3, <1>4, <1>5, <1>6, <1>7, <1>8, <1>9, <1>10, <1>11, <1>12,
     <1>13, <1>14, <1>15 DEF Next, ExecutorStep, Terminated

(* OrderInv holds in every reachable state, on any server.                 *)
THEOREM OrderInvariant == Spec => []OrderInv
BY InitOrderInv, NextOrderInv, PTL DEF Spec

(* What the session sees is a prefix of the plan: no statement is skipped, *)
(* repeated or overtaken, across groups, boundaries, failures and crashes. *)
THEOREM EffectsInPlanOrder == Spec => []EffectsFollowPlanOrder
<1>1. OrderInv => EffectsFollowPlanOrder
  BY DEF OrderInv
<1> QED
  BY <1>1, OrderInvariant, PTL

(* The StatementFailed error names the statement execute_plan stopped at   *)
(* and counts exactly what came before it.                                 *)
THEOREM ReportIsExact == Spec => []ReportLocatesFailure
<1>1. OrderInv => ReportLocatesFailure
  BY DEF OrderInv
<1> QED
  BY <1>1, OrderInvariant, PTL

(* Where DDL commits by itself and the connection lives, the count in the  *)
(* error is the number of statements the database kept.                    *)
THEOREM CountIsWhatWasKept == Spec => []ExecutedCountIsDurable
<1>1. OrderInv => ExecutedCountIsDurable
  BY DEF OrderInv
<1> QED
  BY <1>1, OrderInvariant, PTL

(***************************************************************************)
(* Returning                                                               *)
(***************************************************************************)

ReturnInv == SuccessIsComplete /\ NothingLeftOpen

(* Only three steps return without passing through the ROLLBACK of a       *)
(* group, and all three leave a settled session.                           *)
LEMMA NextReturnInv == OrderInv /\ ReturnInv /\ [Next]_vars => ReturnInv'
<1> SUFFICES ASSUME OrderInv, ReturnInv, [Next]_vars PROVE ReturnInv'
  OBVIOUS
<1>a. /\ TypeOK /\ plan \in Seq(StatementKind) /\ Len(plan) \in Nat
      /\ index \in 1..(Len(plan) + 1)
  BY Typed DEF OrderInv
<1>b. ASSUME pc' # "returned" PROVE ReturnInv'
  BY <1>b DEF ReturnInv, SuccessIsComplete, NothingLeftOpen
<1>c. ASSUME report' # NoReport, txState' = "idle", pending' = {} PROVE ReturnInv'
  BY <1>c DEF ReturnInv, SuccessIsComplete, NothingLeftOpen
<1>1. CASE BeginGroupFails \/ ExecuteNonTransactionalFails
  <2>1. /\ Settled /\ index \in 1..Len(plan) /\ Report(index)
        /\ DbRefuse \/ DbPerformUnanswered(index)
    BY <1>1, <1>a
       DEF BeginGroupFails, ExecuteNonTransactionalFails, Dispatching, OrderInv
  <2>2. txState' = "idle" /\ pending' = {}
    BY <2>1 DEF DbRefuse, DbPerformUnanswered, dbVars, Settled
  <2> QED
    BY <1>a, <1>c, <2>1, <2>2, ReportIsReport
<1>2. CASE Finish
  <2>1. /\ Settled /\ index = Len(plan) + 1 /\ plan' = plan /\ txState' = txState
        /\ pending' = pending /\ durable' = durable
    BY <1>2, <1>a DEF Finish, OrderInv, dbVars
  <2> QED
    BY <2>1 DEF Settled, ReturnInv, SuccessIsComplete, NothingLeftOpen, AllSql
<1>3. CASE DropTransaction
  <2>1. /\ report' # NoReport
        /\ rollback' = "failed" \/ (txState' = "idle" /\ pending' = {})
    BY <1>3 DEF DropTransaction, DbRollback, DbRollbackFails, OrderInv
  <2> QED
    BY <2>1 DEF ReturnInv, SuccessIsComplete, NothingLeftOpen
<1>4. CASE LoseConnection
  BY <1>4 DEF LoseConnection, DbEnd, execVars, ReturnInv, SuccessIsComplete,
              NothingLeftOpen
<1>5. CASE UNCHANGED vars
  BY <1>5 DEF vars, execVars, dbVars, ReturnInv, SuccessIsComplete, NothingLeftOpen
<1>6. CASE \/ SkipBoundary \/ BeginGroup \/ ExecuteNonTransactional \/ ExecuteInGroup
           \/ ExecuteInGroupFails \/ SkipBoundaryInGroup \/ CommitGroup
           \/ CommitGroupFails \/ Crash
  BY <1>6, <1>b
     DEF SkipBoundary, BeginGroup, ExecuteNonTransactional, Dispatching,
         ExecuteInGroup, ExecuteInGroupFails, SkipBoundaryInGroup, InGroupAt,
         CommitGroup, CommitGroupFails, AtGroupEnd, Crash
<1> QED
  BY <1>1, <1>2, <1>3, <1>4, <1>5, <1>6 DEF Next, ExecutorStep, Terminated

(* ReturnInv holds throughout.                                             *)
LEMMA ReturnInvariant == Spec => []ReturnInv
<1>1. Init => ReturnInv
  BY DEF Init, ReturnInv, SuccessIsComplete, NothingLeftOpen
<1> QED
  BY <1>1, NextReturnInv, OrderInvariant, PTL DEF Spec

(* Ok from execute_plan means that the whole plan is committed, the last   *)
(* group included.                                                         *)
THEOREM OkMeansApplied == Spec => []SuccessIsComplete
<1>1. ReturnInv => SuccessIsComplete
  BY DEF ReturnInv
<1> QED
  BY <1>1, ReturnInvariant, PTL

(* No return from execute_plan leaves a transaction open, unless a         *)
(* ROLLBACK was sent and refused, and then the return is an error.         *)
THEOREM TransactionClosedOnReturn == Spec => []NothingLeftOpen
<1>1. ReturnInv => NothingLeftOpen
  BY DEF ReturnInv
<1> QED
  BY <1>1, ReturnInvariant, PTL

(***************************************************************************)
(* Transactional DDL: a failure takes its group with it                    *)
(***************************************************************************)

(* FailedGroupRolledBack from the moment of the failure on, which is what  *)
(* every step preserves.                                                   *)
RolledBackSinceFailure ==
    report # NoReport /\ link = "up" =>
        \A j \in durable : \E n \in j..report.index : plan[n] = "nontx"

(* What precedes a commit point is cut off by a "nontx" from a statement   *)
(* reported after it, when the reported one is not itself a boundary.      *)
LEMMA BeforeCommitPointIsCutOff ==
    ASSUME NEW p \in Seq(StatementKind), NEW k \in 1..Len(p), p[k] # "boundary",
           CommitPoint(p, k), NEW j \in SqlBefore(p, k), NEW i \in k..Len(p)
    PROVE  \E n \in j..i : p[n] = "nontx"
<1>1. j \in 1..(k - 1) /\ p[j] \in {"tx", "nontx"} /\ p[k] \in {"tx", "nontx"}
  BY DEF SqlBefore, StatementKind
<1>2. CASE p[j] = "nontx"
  BY <1>1, <1>2
<1>3. CASE p[k] = "nontx"
  BY <1>1, <1>3
<1>4. CASE p[j] = "tx" /\ p[k] = "tx"
  <2>1. \E n \in j..k : p[n] = "nontx"
    BY <1>1, <1>4 DEF CommitPoint, CutsGroup, StatementKind
  <2> QED
    BY <1>1, <2>1
<1> QED
  BY <1>1, <1>2, <1>3, <1>4

(* Every step keeps RolledBackSinceFailure.                                *)
LEMMA NextRolledBack ==
    ASSUME ~AutoCommitDDL
    PROVE  IInv /\ OrderInv /\ RolledBackSinceFailure /\ [Next]_vars
              => RolledBackSinceFailure'
<1> SUFFICES ASSUME IInv, OrderInv, RolledBackSinceFailure, [Next]_vars
             PROVE  RolledBackSinceFailure'
  OBVIOUS
<1>a. TypeOK /\ TypeOK'
  BY NextTypeOK DEF OrderInv
<1>b. /\ plan \in Seq(StatementKind) /\ Len(plan) \in Nat
      /\ index \in 1..(Len(plan) + 1) /\ cursor \in 1..(Len(plan) + 1)
      /\ last \in 1..(Len(plan) + 1) /\ link \in {"up", "down"}
  BY <1>a, Typed DEF TypeOK
(* A step after which there is no connection, or still no report, and a    *)
(* step that changes neither the report nor what is committed.             *)
<1>c. link' # "up" \/ report' = NoReport => RolledBackSinceFailure'
  BY DEF RolledBackSinceFailure
<1>d. ASSUME plan' = plan, report' = report, durable' = durable, link' = link
      PROVE  RolledBackSinceFailure'
  BY <1>d DEF RolledBackSinceFailure
(* A failure at or after the start of the group, with all before that      *)
(* start committed and nothing else.                                       *)
<1>e. ASSUME NEW i \in index..Len(plan), Report(i), plan' = plan, durable' = durable,
             index <= Len(plan), CommittedUpTo(index), plan[index] # "boundary"
      PROVE  RolledBackSinceFailure'
  <2>1. i \in 1..(Len(plan) + 1) /\ index \in 1..Len(plan)
    BY <1>b, <1>e
  <2>2. report'.index = i
    BY <1>a, <1>e, <2>1, ReportIsReport
  <2>3. \A j \in durable : \E n \in j..i : plan[n] = "nontx"
    BY <1>b, <1>e, <2>1, BeforeCommitPointIsCutOff DEF CommittedUpTo
  <2> QED
    BY <1>e, <2>2, <2>3 DEF RolledBackSinceFailure
<1>1. CASE pc = "dispatch"
  <2>1. CommittedUpTo(index) /\ report = NoReport
    BY <1>1 DEF IInv
  <2>2. CASE BeginGroupFails
    <3>1. index \in 1..Len(plan) /\ plan[index] = "tx"
      BY <1>b, <2>2 DEF BeginGroupFails, Dispatching
    <3>2. Report(index) /\ plan' = plan /\ durable' = durable
      BY <2>2 DEF BeginGroupFails, DbRefuse, dbVars
    <3> QED
      BY <1>b, <1>e, <2>1, <3>1, <3>2
  <2>3. CASE ExecuteNonTransactionalFails
    <3>1. index \in 1..Len(plan) /\ plan[index] = "nontx"
      BY <1>b, <2>3 DEF ExecuteNonTransactionalFails, Dispatching
    <3>2. Report(index) /\ plan' = plan /\ (link' # "up" \/ durable' = durable)
      BY <2>3
         DEF ExecuteNonTransactionalFails, DbRefuse, DbPerformUnanswered, dbVars
    <3> QED
      BY <1>b, <1>c, <1>e, <2>1, <3>1, <3>2
  <2>4. CASE ~(BeginGroupFails \/ ExecuteNonTransactionalFails)
    <3>1. report' = report
      BY <1>1, <2>4
         DEF Next, ExecutorStep, SkipBoundary, BeginGroup, ExecuteNonTransactional,
             Finish, ExecuteInGroup, ExecuteInGroupFails, SkipBoundaryInGroup,
             CommitGroup, CommitGroupFails, DropTransaction, InGroupAt, AtGroupEnd,
             LoseConnection, Crash, Terminated, vars, execVars
    <3> QED
      BY <1>c, <2>1, <3>1
  <2> QED
    BY <2>2, <2>3, <2>4
<1>2. CASE pc = "group"
  <2>1. /\ InGroupInv /\ MidGroup /\ report = NoReport /\ index \in 1..Len(plan)
        /\ CommittedUpTo(index) /\ plan[index] = "tx" /\ index <= cursor
    BY <1>2, <1>b DEF IInv, OrderInv, InGroupInv
  <2>2. CASE ExecuteInGroupFails
    <3>1. cursor \in index..Len(plan)
      BY <1>b, <2>1, <2>2 DEF ExecuteInGroupFails, InGroupAt
    <3>2. Report(cursor) /\ plan' = plan /\ (link' # "up" \/ durable' = durable)
      BY <2>2 DEF ExecuteInGroupFails, DbRefuse, DbPerformUnanswered, dbVars
    <3> QED
      BY <1>b, <1>c, <1>e, <2>1, <3>1, <3>2
  <2>3. CASE CommitGroupFails
    <3>1. last \in index..Len(plan)
      BY <1>b, <2>1, <2>3
         DEF CommitGroupFails, AtGroupEnd, InGroupAt, MidGroup, LastBeforeCursor
    <3>2. Report(last) /\ plan' = plan /\ (link' # "up" \/ durable' = durable)
      BY <2>3
         DEF CommitGroupFails, DbRefuseCommit, DbRefuse, DbCommitUnanswered, dbVars
    <3> QED
      BY <1>b, <1>c, <1>e, <2>1, <3>1, <3>2
  <2>4. CASE ~(ExecuteInGroupFails \/ CommitGroupFails)
    <3>1. report' = report
      BY <1>2, <2>4
         DEF Next, ExecutorStep, SkipBoundary, BeginGroup, BeginGroupFails,
             ExecuteNonTransactional, ExecuteNonTransactionalFails, Finish,
             Dispatching, ExecuteInGroup, SkipBoundaryInGroup, CommitGroup,
             DropTransaction, LoseConnection, Crash, Terminated, vars, execVars
    <3> QED
      BY <1>c, <2>1, <3>1
  <2> QED
    BY <2>2, <2>3, <2>4
<1>3. CASE pc \notin {"dispatch", "group"}
  <2>1. DropTransaction \/ LoseConnection \/ Crash \/ UNCHANGED vars
    BY <1>3
       DEF Next, ExecutorStep, SkipBoundary, BeginGroup, BeginGroupFails,
           ExecuteNonTransactional, ExecuteNonTransactionalFails, Finish, Dispatching,
           ExecuteInGroup, ExecuteInGroupFails, SkipBoundaryInGroup, CommitGroup,
           CommitGroupFails, InGroupAt, AtGroupEnd, Terminated
  <2>2. CASE DropTransaction
    BY <1>d, <2>2 DEF DropTransaction, DbRollback, DbRollbackFails
  <2>3. CASE LoseConnection
    BY <1>c, <2>3 DEF LoseConnection, DbEnd
  <2>4. CASE Crash
    BY <1>c, <2>4 DEF Crash, DbEnd, DbPerformUnanswered, DbCommitUnanswered
  <2>5. CASE UNCHANGED vars
    BY <1>d, <2>5 DEF vars, execVars, dbVars
  <2> QED
    BY <2>1, <2>2, <2>3, <2>4, <2>5
<1> QED
  BY <1>1, <1>2, <1>3

(* With transactional DDL a failed statement takes its transaction with    *)
(* it (DESIGN.md:1507); the run on a server that commits DDL by itself     *)
(* shows that the hypothesis cannot be left out.                           *)
THEOREM FailureRollsItsGroupBack ==
    ASSUME ~AutoCommitDDL
    PROVE  Spec => []FailedGroupRolledBack
<1>1. Init => RolledBackSinceFailure
  BY DEF Init, RolledBackSinceFailure
<1>2. IInv /\ OrderInv /\ RolledBackSinceFailure /\ [Next]_vars => RolledBackSinceFailure'
  BY NextRolledBack
<1>3. RolledBackSinceFailure => FailedGroupRolledBack
  BY DEF RolledBackSinceFailure, FailedGroupRolledBack
<1> QED
  BY <1>1, <1>2, <1>3, InductiveInvariant, OrderInvariant, PTL DEF Spec

===============================================================================
