------------------------------- MODULE DbSession -------------------------------
(***************************************************************************)
(* The database session at the other end of the adapter's one connection.  *)
(* The server is not part of the repository: this is what the adapters'    *)
(* execute/begin and the Transaction handle rely on.                       *)
(*                                                                         *)
(* `durable` and `pending` hold the positions of the plan's statements     *)
(* whose effects are committed, or done in the open transaction.  With     *)
(* AutoCommitDDL the server commits implicitly around every DDL statement  *)
(* (MySQL); otherwise DDL is transactional (PostgreSQL, SQLite, SQL        *)
(* Server).                                                                *)
(***************************************************************************)
EXTENDS Naturals

CONSTANT AutoCommitDDL

ASSUME AutoCommitDDLAssumption == AutoCommitDDL \in BOOLEAN

VARIABLES
    link,       \* "up" while the connection lives
    txState,    \* "open" while the server has a transaction of this session
    pending,    \* done inside that transaction
    durable,    \* committed
    rollback    \* "done" or "failed" once a ROLLBACK has been sent

dbVars == <<link, txState, pending, durable, rollback>>

DbInit ==
    /\ link = "up"
    /\ txState = "idle"
    /\ pending = {}
    /\ durable = {}
    /\ rollback = "none"

DbBegin ==
    /\ link = "up"
    /\ txState = "idle"
    /\ txState' = "open"
    /\ UNCHANGED <<link, pending, durable, rollback>>

DefersEffects == txState = "open" /\ ~AutoCommitDDL

(* Statement i is performed and acknowledged.                              *)
DbPerform(i) ==
    /\ link = "up"
    /\ UNCHANGED <<link, rollback>>
    /\ \/ /\ DefersEffects
          /\ pending' = pending \cup {i}
          /\ UNCHANGED <<txState, durable>>
       \/ /\ ~DefersEffects
          /\ durable' = durable \cup pending \cup {i}
          /\ pending' = {}
          /\ txState' = "idle"

DbCommit ==
    /\ link = "up"
    /\ durable' = durable \cup pending
    /\ pending' = {}
    /\ txState' = "idle"
    /\ UNCHANGED <<link, rollback>>

(* The request is answered by an error: the server kept the transaction    *)
(* as it was, or ended it by rolling it back, or there is no connection.   *)
DbRefuse ==
    \/ UNCHANGED dbVars
    \/ /\ link = "up"
       /\ txState = "open"
       /\ txState' = "idle"
       /\ pending' = {}
       /\ UNCHANGED <<link, durable, rollback>>

(* COMMIT is refused only where there is something to commit.              *)
DbRefuseCommit == DbRefuse /\ (link = "up" => txState = "open")

(* The session ends and the server discards what it had not committed.     *)
DbEnd ==
    /\ link' = "down"
    /\ txState' = "idle"
    /\ pending' = {}
    /\ UNCHANGED <<durable, rollback>>

(* The server performs statement i, or commits, but the connection goes    *)
(* before it can answer.                                                   *)
DbPerformUnanswered(i) ==
    /\ link = "up"
    /\ link' = "down"
    /\ txState' = "idle"
    /\ pending' = {}
    /\ durable' = IF DefersEffects THEN durable ELSE durable \cup pending \cup {i}
    /\ UNCHANGED rollback

DbCommitUnanswered ==
    /\ link = "up"
    /\ link' = "down"
    /\ txState' = "idle"
    /\ pending' = {}
    /\ durable' = durable \cup pending
    /\ UNCHANGED rollback

(* ROLLBACK; with nothing open it does nothing.                            *)
DbRollback ==
    /\ txState' = "idle"
    /\ pending' = {}
    /\ rollback' = "done"
    /\ UNCHANGED <<link, durable>>

(* ROLLBACK is answered by an error, and what was open stays so.           *)
DbRollbackFails ==
    /\ rollback' = "failed"
    /\ UNCHANGED <<link, txState, pending, durable>>
===============================================================================
