----------------------------- MODULE MCFkPlanning -----------------------------
(* <<current, desired>> schema pairs for FkPlanning.                       *)
EXTENDS FkPlanning

(* At most one key per pair of tables; a schema names all its keys or none *)
(* of them; a key references a table of its schema.                        *)
Keys(tables, named) == SUBSET [to : tables, named : {named}]
SchemasOf(named) == UNION {[ts -> Keys(ts, named)] : ts \in SUBSET Table}

(* Tables come and go; those that stay keep their keys.  Not: a kept table *)
(* that gains or loses a key, which no operation is planned for            *)
(* (compare.rs:159).                                                       *)
KeptTablesUnchanged ==
    {in \in UNION {SchemasOf(named) \X SchemasOf(named) : named \in BOOLEAN} :
        SameKeys(in[1], in[2])}

(* The inputs are those the theorems are about.                            *)
ASSUME InputsAreCovered ==
    \A in \in Inputs : ReferencesExist(in[2]) /\ SameKeys(in[1], in[2])
===============================================================================
