---------------------------- MODULE MCViewPlanning ----------------------------
(* Families of <<current, desired>> pairs of view schemas.                 *)
EXTENDS ViewPlanning

(* Names come in every order.                                              *)
Schemas(vs, defs) ==
    {s \in UNION {[ws -> defs] : ws \in SUBSET vs} : Complete(s) /\ Acyclic(s)}

SameColumns(plain) ==
    Schemas(View, [reads : SUBSET View, missed : {{}}, columns : {1}, plain : plain])

(* Views come, go and change what they read, never their columns.          *)
ComeGoChange == SameColumns({TRUE}) \X SameColumns(BOOLEAN)

(* View 1 stays as it is.  View 2 comes, goes and changes, may read view 1 *)
(* in a place the scan misses, and gains columns.  Not: a view missed by   *)
(* the scan that changes (view_rebuild.rs:205), a plain definition that    *)
(* loses columns (dialect-postgres/src/generator.rs:57).                   *)
Definitions ==
    [reads : {{}}, missed : {{}, {1}}, columns : {1, 2}, plain : BOOLEAN]

OverAFixedView ==
    {in \in Schemas({1, 2}, Definitions) \X Schemas({1, 2}, Definitions) :
        /\ 1 \in DOMAIN in[1] \cap DOMAIN in[2]
        /\ in[1][1] = in[2][1]
        /\ 2 \in DOMAIN in[1] \cap DOMAIN in[2] =>
              \/ in[1][2].columns <= in[2][2].columns
              \/ ~in[2][2].plain}

ViewPairs == ComeGoChange \cup OverAFixedView

(* The inputs are those the theorem on RebuildAccepted is about.           *)
ASSUME InputsRebuildable == \A in \in Inputs : Rebuildable(in[1], in[2])
===============================================================================
