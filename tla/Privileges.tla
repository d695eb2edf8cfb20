------------------------------- MODULE Privileges -------------------------------
(***************************************************************************)
(* The comparison of privileges (core/src/diff/privilege.rs) and what the  *)
(* GRANT and REVOKE statements of the PostgreSQL generator do.  A schema   *)
(* is a sequence of privileges: a key for the object and the grantee, a    *)
(* set of operations and the grant option.  The database has for every key *)
(* the operations held and those held with the grant option.               *)
(***************************************************************************)
EXTENDS OpOrder

CONSTANT Inputs          \* <<current, desired>> pairs

Keys(schema) == {schema[i].key : i \in DOMAIN schema}

(* push_grant, push_revoke: nothing is planned for no operations.          *)
Change(kind, p, operations, option) ==
    IF operations = {} THEN <<>>
    ELSE <<[kind |-> kind, key |-> p.key, operations |-> operations, option |-> option]>>

(* Mutants: everything is revoked and granted again; what is added comes   *)
(* without the grant option.                                               *)
PrivilegeChangesAnew(new, old, enableDrop) ==
    (IF enableDrop THEN Change("Revoke", old, old.operations, FALSE) ELSE <<>>)
    \o Change("Grant", new, new.operations, new.option)

PrivilegeChangesPlain(new, old, enableDrop) ==
    (IF enableDrop THEN Change("Revoke", old, old.operations \ new.operations, FALSE) ELSE <<>>)
    \o Change("Grant", new, new.operations \ old.operations, FALSE)

(* Mutant: revokes whatever enable_drop says.                              *)
PrivilegeChangesRevokeAlways(new, old, enableDrop) ==
    Change("Revoke", old, old.operations \ new.operations, FALSE)
    \o Change("Grant", new, new.operations \ old.operations, new.option)

(* push_privilege_changes                                                  *)
PrivilegeChanges(new, old, enableDrop) ==
    LET shared == new.operations \cap old.operations
    IN (IF enableDrop THEN Change("Revoke", old, old.operations \ new.operations, FALSE)
                      ELSE <<>>)
       \o Change("Grant", new, new.operations \ old.operations, new.option)
       \o (IF new.option = old.option THEN <<>>
           ELSE IF new.option THEN Change("Grant", new, shared, TRUE)
           ELSE IF enableDrop THEN Change("Revoke", old, shared, TRUE) ELSE <<>>)

(* find_matching_current: the first privilege with the key that no desired *)
(* privilege before took.                                                  *)
MatchPrivilege(new, old, matched) ==
    LET candidates == {i \in DOMAIN old \ matched : old[i].key = new.key}
    IN IF candidates = {} THEN 0 ELSE Smallest(candidates)

(* compare_privileges                                                      *)
ComparePrivileges(new, old, enableDrop) ==
    LET Compared(acc, p) ==
            LET m == MatchPrivilege(p, old, acc.matched)
            IN IF m = 0
               THEN [acc EXCEPT !.ops = @ \o Change("Grant", p, p.operations, p.option)]
               ELSE [ops |-> acc.ops \o PrivilegeChanges(p, old[m], enableDrop),
                     matched |-> acc.matched \cup {m}]
        pass[i \in 0..Len(new)] ==
            IF i = 0 THEN [ops |-> <<>>, matched |-> {}] ELSE Compared(pass[i - 1], new[i])
        Unmatched(i) ==
            IF i \in pass[Len(new)].matched \/ ~enableDrop THEN <<>>
            ELSE Change("Revoke", old[i], old[i].operations, FALSE)
    IN pass[Len(new)].ops \o SE!FlattenSeq([i \in DOMAIN old |-> Unmatched(i)])

Diff(new, old, enableDrop) == SortDiffOps(ComparePrivileges(new, old, enableDrop))

-------------------------------------------------------------------------------
(* The database.  render_revoke has no GRANT OPTION FOR: the operations go *)
(* with their grant option, whatever the operation of the plan asks for.   *)

Granted(schema, key, options) ==
    UNION {schema[i].operations :
             i \in {j \in DOMAIN schema : schema[j].key = key /\ schema[j].option \in options}}

DatabaseOf(exported) ==
    [key \in Keys(exported) |->
        [held |-> Granted(exported, key, BOOLEAN), option |-> Granted(exported, key, {TRUE})]]

Held(d, key) == IF key \in DOMAIN d THEN d[key] ELSE [held |-> {}, option |-> {}]

Accepts(d, op) == TRUE

Effect(d, op) ==
    LET h == Held(d, op.key)
        after == IF op.kind = "Grant"
                 THEN [held |-> h.held \cup op.operations,
                       option |-> h.option \cup (IF op.option THEN op.operations ELSE {})]
                 ELSE [held |-> h.held \ op.operations, option |-> h.option \ op.operations]
    IN [k \in DOMAIN d \cup {op.key} |-> IF k = op.key THEN after ELSE d[k]]

Comparable(new, old) == TRUE

VARIABLES current, desired, enableDrop, ops, db, pc

INSTANCE PlanRun

-------------------------------------------------------------------------------
(* Properties                                                              *)

(* A plan that runs to its end leaves every grantee with the operations    *)
(* desired and, with enable_drop, no other; without, nothing is missing.   *)
AppliedMatchesDesired ==
    pc = "done" =>
        \A key \in Keys(current) \cup Keys(desired) :
            LET h == Held(db, key)
                held == Granted(desired, key, BOOLEAN)
                option == Granted(desired, key, {TRUE})
            IN IF enableDrop THEN h = [held |-> held, option |-> option]
               ELSE held \subseteq h.held /\ option \subseteq h.option

(* What both schemas grant is held at every moment of the run: there is no *)
(* revocation that a later grant makes good.                               *)
SharedStayGranted ==
    \A key \in Keys(current) \cap Keys(desired) :
        Granted(current, key, BOOLEAN) \cap Granted(desired, key, BOOLEAN)
            \subseteq Held(db, key).held

(* Without enable_drop no grantee loses anything.                          *)
NothingRevokedWithoutDrop ==
    ~enableDrop =>
        \A key \in Keys(current) :
            /\ Granted(current, key, BOOLEAN) \subseteq Held(db, key).held
            /\ Granted(current, key, {TRUE}) \subseteq Held(db, key).option

(* Whatever the plan leaves out for want of enable_drop is reported as     *)
(* skipped, and nothing else is.                                           *)
SkippedAreReported ==
    pc = "diff" =>
        LET full == Diff(desired, current, TRUE)
            emitted == Diff(desired, current, FALSE)
        IN AccountFor(full, emitted, Diagnostics(full, emitted, FALSE))
===============================================================================
