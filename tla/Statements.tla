------------------------------ MODULE Statements ------------------------------
(***************************************************************************)
(* Generated plans: the Vec<Statement> a dialect's generate_ddl returns    *)
(* and the executor and renderer consume (core/src/statement.rs).          *)
(*                                                                         *)
(* A statement is reduced to what the executor branches on: "tx" is        *)
(* Sql{transactional: true}, "nontx" is Sql{transactional: false} and      *)
(* "boundary" is BatchBoundary.  SQL text and context are abstracted by    *)
(* the statement's position, counted from 1 (the code counts from 0).      *)
(***************************************************************************)
EXTENDS Naturals, Sequences

StatementKind == {"tx", "nontx", "boundary"}

(* Positions below k that hold SQL: what a run standing at k has sent.     *)
SqlBefore(p, k) == {j \in 1..(k - 1) : p[j] # "boundary"}

AllSql(p) == SqlBefore(p, Len(p) + 1)

(* The transactional statements from i on that no "nontx" separates from i.*)
GroupFrom(p, i) ==
    {j \in i..Len(p) : p[j] = "tx" /\ \A n \in i..j : p[n] # "nontx"}

(* What takes effect together with the statement at i: a "nontx" alone.    *)
UnitFrom(p, i) == IF p[i] = "nontx" THEN {i} ELSE GroupFrom(p, i)

(* Position k cuts a group when transactional statements on both its sides *)
(* have no "nontx" between them.                                           *)
CutsGroup(p, k) ==
    \E i \in 1..(k - 1), j \in k..Len(p) :
        p[i] = "tx" /\ p[j] = "tx" /\ \A n \in i..j : p[n] # "nontx"

CommitPoint(p, k) == k \in 1..(Len(p) + 1) /\ ~CutsGroup(p, k)
===============================================================================
