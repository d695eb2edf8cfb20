------------------------------- MODULE MsSqlScript -------------------------------
(***************************************************************************)
(* What the SQL Server generator makes of a plan, and the two ways its     *)
(* statements reach a server: sent one by one in a transaction             *)
(* (core/src/executor.rs), or printed (core/src/renderer.rs) and run by    *)
(* sqlcmd -b, which sends batch by batch, each statement committing by     *)
(* itself, and stops at a batch that is refused.  Both happen here, each   *)
(* to a database of its own.                                               *)
(*                                                                         *)
(* An operation is [kind, shape, needs, gives, takes]: shape says what the *)
(* generator may refuse it for, the rest are sets of objects.              *)
(***************************************************************************)
EXTENDS Sequences, FiniteSets, Naturals
LOCAL SE == INSTANCE SequencesExt

CONSTANTS
    Plans,           \* sequences of operations
    Objects          \* what is in the database at first

VARIABLES
    plan,
    statements,      \* generate_ddl's answer, {} when it is an error
    applied,         \* the database the statements are sent to, as the
                     \* transaction sees it
    committed,       \* the same as everybody else does
    scripted,        \* the database of the script
    sent, run        \* statements sent, batches run

vars == <<plan, statements, applied, committed, scripted, sent, run>>

Boundary == [kind |-> "GO"]

-------------------------------------------------------------------------------
(* generator.rs                                                            *)

Kinds ==
    {"CreateTable", "DropTable", "RenameTable", "AddColumn", "DropColumn", "RenameColumn", "AddIndex",
     "DropIndex", "RenameIndex", "AddForeignKey", "DropForeignKey", "AddCheck", "DropCheck",
     "SetPrimaryKey", "CreateView", "DropView", "CreateTrigger", "DropTrigger", "CreateFunction",
     "DropFunction", "CreateSchema", "DropSchema"}

(* Another schema for a table, a position or an expression for a column,   *)
(* the index of a view, a deferrable key, a check that is not inherited.   *)
Refused ==
    {<<"RenameTable", "other schema">>, <<"AddColumn", "positioned">>, <<"AddColumn", "generated">>,
     <<"AddIndex", "of a view">>, <<"DropIndex", "of a view">>, <<"RenameIndex", "of a view">>,
     <<"AddForeignKey", "deferrable">>, <<"AddCheck", "no inherit">>, <<"CreateTable", "partitioned">>}

(* emit_op                                                                 *)
Supported(op) == op.kind \in Kinds /\ <<op.kind, op.shape>> \notin Refused

(* Mutant: a boundary only in front of what has to begin a batch.          *)
AppendSqlBefore(out, op) ==
    IF out # <<>> /\ op.kind \in {"CreateView", "CreateTrigger", "CreateFunction", "CreateSchema"}
    THEN out \o <<Boundary, op>>
    ELSE Append(out, op)

(* append_sql                                                              *)
AppendSql(out, op) ==
    IF out # <<>> /\ SE!Last(out) # Boundary THEN out \o <<Boundary, op>> ELSE Append(out, op)

(* generate_ddl                                                            *)
Generate(p) ==
    IF \A i \in DOMAIN p : Supported(p[i]) THEN {SE!FoldLeft(AppendSql, <<>>, p)} ELSE {}

-------------------------------------------------------------------------------
(* renderer.rs                                                             *)

(* render: every statement, a line GO for a boundary.                      *)
Render(stmts) == stmts

(* What sqlcmd sends at once.                                              *)
RECURSIVE Batches(_)
Batches(script) ==
    LET go == {i \in DOMAIN script : script[i] = Boundary}
        first == CHOOSE i \in go : \A j \in go : i <= j
    IN IF script = <<>> THEN <<>>
       ELSE IF go = {} THEN <<script>>
       ELSE <<SubSeq(script, 1, first - 1)>> \o Batches(SubSeq(script, first + 1, Len(script)))

-------------------------------------------------------------------------------
(* The server.                                                             *)

Start == [objects |-> Objects, refused |-> FALSE]

Execute(d, op) ==
    IF op.needs \subseteq d.objects /\ op.gives \cap d.objects = {}
    THEN [d EXCEPT !.objects = (@ \ op.takes) \cup op.gives]
    ELSE [d EXCEPT !.refused = TRUE]

(* A view and a schema want a batch to themselves; a trigger and a         *)
(* function want to begin one, and their body lasts to its end.            *)
ExecuteBatch(d, batch) ==
    IF Len(batch) > 1 /\ \E i \in DOMAIN batch :
            \/ batch[i].kind \in {"CreateView", "CreateSchema"}
            \/ i > 1 /\ batch[i].kind \in {"CreateTrigger", "CreateFunction"}
    THEN [d EXCEPT !.refused = TRUE]
    ELSE IF batch[1].kind \in {"CreateTrigger", "CreateFunction"} THEN Execute(d, batch[1])
    ELSE SE!FoldLeft(LAMBDA e, op : IF e.refused THEN e ELSE Execute(e, op), d, batch)

Init ==
    /\ plan \in Plans
    /\ statements = Generate(plan)
    /\ applied = Start
    /\ committed = Start
    /\ scripted = Start
    /\ sent = 0
    /\ run = 0

Answer == CHOOSE s \in statements : TRUE

(* Every statement is transactional (sql_statement) and a boundary ends no *)
(* group, so the plan is one transaction.  A boundary is not sent; a       *)
(* statement that is refused rolls back all there were before it.          *)
SendStatement ==
    /\ statements # {} /\ sent < Len(Answer) /\ ~applied.refused
    /\ sent' = sent + 1
    /\ applied' =
        IF Answer[sent'] = Boundary THEN applied
        ELSE LET next == Execute(applied, Answer[sent'])
             IN IF next.refused THEN [committed EXCEPT !.refused = TRUE] ELSE next
    /\ UNCHANGED <<plan, statements, committed, scripted, run>>

CommitTransaction ==
    /\ statements # {} /\ sent = Len(Answer) /\ ~applied.refused
    /\ committed # applied
    /\ committed' = applied
    /\ UNCHANGED <<plan, statements, applied, scripted, sent, run>>

RunBatch ==
    /\ statements # {} /\ run < Len(Batches(Render(Answer))) /\ ~scripted.refused
    /\ run' = run + 1
    /\ scripted' = ExecuteBatch(scripted, Batches(Render(Answer))[run'])
    /\ UNCHANGED <<plan, statements, applied, committed, sent>>

Ended ==
    statements # {} =>
        /\ applied.refused \/ (sent = Len(Answer) /\ committed = applied)
        /\ scripted.refused \/ run = Len(Batches(Render(Answer)))

Done == Ended /\ UNCHANGED vars

Next == SendStatement \/ CommitTransaction \/ RunBatch \/ Done

Spec == Init /\ [][Next]_vars

-------------------------------------------------------------------------------
(* Properties                                                              *)

(* The printed script is refused exactly when the statements sent one by   *)
(* one are, and otherwise leaves the same database.  When they are, the    *)
(* apply leaves the database as it was, while the script leaves what all   *)
(* operations before the refused one do.                                   *)
ScriptMatchesApply ==
    Ended =>
        /\ scripted.refused <=> applied.refused
        /\ ~applied.refused => scripted = committed
        /\ applied.refused =>
            /\ committed = Start
            /\ scripted.objects = SE!FoldLeft(Execute, Start, SubSeq(plan, 1, run - 1)).objects
===============================================================================
