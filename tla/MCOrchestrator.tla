---------------------------- MODULE MCOrchestrator ----------------------------
(* A table, a view of it and an index built concurrently on it, for        *)
(* Orchestrator.                                                           *)
EXTENDS Orchestrator

Three == <<"users", "active", "by_email">>
TableNeeded(o) == IF o = "users" THEN {} ELSE {"users"}
TableOwning(o) == IF o = "by_email" THEN {"users"} ELSE {}
Index == {"by_email"}
Version(u, a, b) == [o \in Everything |-> CASE o = "users" -> u [] o = "active" -> a [] OTHER -> b]

Wanted == Version(2, 1, 1)
EveryDatabase == {d \in [Everything -> 0..2] : NeedsMet(d)}

CommandLines ==
    {[flag |-> flag, input |-> input, enableDrop |-> drop] :
        flag \in {"none", "apply", "dry-run", "export"},
        input \in {"schema", "empty file", "empty stdin"}, drop \in BOOLEAN}
===============================================================================
