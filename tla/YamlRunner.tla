------------------------------ MODULE YamlRunner ------------------------------
(***************************************************************************)
(* The runner of the YAML test cases (testkit/src/yaml_runner.rs): what it *)
(* makes of a case, of a tool that may have a defect, of a server and of a *)
(* connection that may break.                                              *)
(*                                                                         *)
(* A schema maps an object to its version, 0 when it is absent, and a plan *)
(* is the set of objects it changes.  A case is a record of                *)
(*   current, desired, enableDrop   the two schemas and the flag           *)
(*   directions   which of `up` and `down` it has                          *)
(*   error        the message it expects, or "none"                        *)
(*   flavor       whether the flavor it requires is the dialect's          *)
(*   min, max     version requirements, <<>> when there is none            *)
(* The texts of `up` and `down` are those of a tool without defect, which  *)
(* is what the author of a case means by them.                             *)
(***************************************************************************)
EXTENDS Naturals, Sequences

CONSTANTS
    Objects,
    Cases,
    Defects,     \* of the tool: [kind, object]
    Servers,     \* versions of the server, <<major, minor>>
    Modes,       \* "online", "offline"
    MaxFaults    \* bound on lost connections

ASSUME CasesAssumption ==
    \A c \in Cases :
        /\ c.current \in [Objects -> Nat] /\ c.desired \in [Objects -> Nat]
        /\ c.enableDrop \in BOOLEAN
        /\ c.directions \in {"none", "both", "up only"}
        /\ c.error \in {"none", "refused"}
        /\ c.flavor \in {"matches", "differs"}
        /\ c.min \in Seq(Nat) /\ Len(c.min) <= 2
        /\ c.max \in Seq(Nat) /\ Len(c.max) <= 2

ASSUME DefectsAssumption ==
    \A d \in Defects : /\ d.kind \in {"none", "no effect", "export", "refused", "blind"}
                       /\ d.object \in Objects

ASSUME ServersAssumption == Servers \subseteq Nat \X Nat
ASSUME FaultsAssumption == MaxFaults \in Nat

VARIABLES
    case, defect, server, mode,
    pc,          \* the step of the flow that comes next
    db,
    plan,        \* the statements generated last
    forwardDb,   \* what the database held after the plan was applied
    error,       \* what stopped the flow, "none" while nothing has
    verdict,
    faults

fixed == <<case, defect, server, mode>>
vars == <<fixed, pc, db, plan, forwardDb, error, verdict, faults>>

Empty == [o \in Objects |-> 0]

-------------------------------------------------------------------------------
(* The tool under test: generate_statements compares, apply_statements     *)
(* hands the plan to the executor.                                         *)

Difference(new, old, enableDrop) ==
    {o \in Objects : new[o] # old[o] /\ (new[o] = 0 => enableDrop)}

Redefined(new, old) == {o \in Objects : new[o] # old[o] /\ new[o] # 0 /\ old[o] # 0}

(* A tool that is blind to an object compares nothing but its name.        *)
GenerateStatements(new, old) ==
    LET unseen == IF defect.kind = "blind" THEN Redefined(new, old) ELSE {}
    IN Difference(new, old, case.enableDrop) \ (unseen \cap {defect.object})

(* A statement of no effect is accepted and leaves an existing object as   *)
(* it was.                                                                 *)
Applied(new) ==
    LET idle == IF defect.kind = "no effect" THEN Redefined(new, db) ELSE {}
    IN [o \in Objects |->
           IF o \in plan \ (idle \cap {defect.object}) THEN new[o] ELSE db[o]]

(* What export_schema answers.                                             *)
Exported ==
    IF defect.kind = "export"
    THEN [db EXCEPT ![defect.object] = IF @ = 2 THEN 1 ELSE @]
    ELSE db

Refused == defect.kind = "refused" /\ defect.object \in plan

-------------------------------------------------------------------------------
(* evaluate_online_version_gate                                            *)

(* Mutant: a requirement that is shorter than the version is filled up     *)
(* with zeros.                                                             *)
CompareFilledUp(version, requirement) ==
    LET asked(i) == IF i \in DOMAIN requirement THEN requirement[i] ELSE 0
        differ == {i \in DOMAIN version : version[i] # asked(i)}
        first == CHOOSE i \in differ : \A j \in differ : i <= j
    IN CASE differ = {} -> "equal"
         [] differ # {} /\ version[first] < asked(first) -> "less"
         [] OTHER -> "greater"

(* compare_version_against_requirement: the components both have.          *)
CompareVersion(version, requirement) ==
    LET differ == {i \in DOMAIN version \cap DOMAIN requirement : version[i] # requirement[i]}
        first == CHOOSE i \in differ : \A j \in differ : i <= j
    IN CASE differ = {} -> "equal"
         [] differ # {} /\ version[first] < requirement[first] -> "less"
         [] OTHER -> "greater"

(* version_skip_reason                                                     *)
OutOfRange ==
    \/ case.min # <<>> /\ CompareVersion(server, case.min) = "less"
    \/ case.max # <<>> /\ CompareVersion(server, case.max) = "greater"

-------------------------------------------------------------------------------
(* The verdict.                                                            *)

(* Mutant: any error will do.                                              *)
AnyExpectedError(result) ==
    IF case.error = "none" THEN result
    ELSE IF result = "none" THEN "assertion" ELSE "none"

(* evaluate_expected_error, from the result of the flow to that of the     *)
(* case: "none" when it is as expected.                                    *)
EvaluateExpectedError(result) ==
    IF case.error = "none" THEN result
    ELSE IF result = case.error THEN "none" ELSE "assertion"

(* run_with_flavor_expectation                                             *)
Verdict(result) ==
    IF case.flavor = "matches"
    THEN IF result = "none" THEN "passed" ELSE "failed"
    ELSE IF result = "none" THEN "failed" ELSE "skipped"

Finish(result) ==
    /\ pc' = "done"
    /\ error' = result
    /\ verdict' = Verdict(EvaluateExpectedError(result))

GoOn(step) == pc' = step /\ UNCHANGED <<error, verdict>>

-------------------------------------------------------------------------------
Init ==
    /\ case \in Cases /\ defect \in Defects /\ server \in Servers /\ mode \in Modes
    /\ pc = IF mode = "online" THEN "gate" ELSE "directions"
    /\ db = Empty /\ forwardDb = Empty
    /\ plan = {}
    /\ error = "none" /\ verdict = "none"
    /\ faults = 0

(* run_online_test: a version outside the range is skipped before anything *)
(* is run.                                                                 *)
Gate ==
    /\ pc = "gate"
    /\ IF OutOfRange
       THEN pc' = "done" /\ verdict' = "skipped" /\ UNCHANGED error
       ELSE GoOn("directions")
    /\ UNCHANGED <<fixed, db, plan, forwardDb, faults>>

(* validate_direction_expectations                                         *)
ValidateDirections ==
    /\ pc = "directions"
    /\ IF case.directions = "up only" THEN Finish("assertion")
       ELSE GoOn(IF mode = "online" THEN "seed" ELSE "offline up")
    /\ UNCHANGED <<fixed, db, plan, forwardDb, faults>>

(* run_offline_test_flow: both plans from the texts of the case, compared  *)
(* with `up` and `down`, and nothing else.                                 *)
OfflinePlan(step, new, old, next) ==
    /\ pc = step
    /\ plan' = GenerateStatements(new, old)
    /\ IF case.directions = "both" /\ plan' # Difference(new, old, case.enableDrop)
       THEN Finish("assertion")
       ELSE IF next = "done" THEN Finish("none") ELSE GoOn(next)
    /\ UNCHANGED <<fixed, db, forwardDb, faults>>

OfflineUp == OfflinePlan("offline up", case.desired, case.current, "offline down")
OfflineDown == OfflinePlan("offline down", case.current, case.desired, "done")

(* apply_statements: the executor makes the whole plan or nothing of it.   *)
ApplyStatements(new, next) ==
    /\ IF Refused
       THEN Finish("refused") /\ UNCHANGED db
       ELSE db' = Applied(new) /\ GoOn(next)
    /\ UNCHANGED <<fixed, plan, faults>>

(* Step 1 compares with the empty schema and not with the database.        *)
Seed ==
    /\ pc = "seed"
    /\ plan' = GenerateStatements(case.current, Empty)
    /\ GoOn("apply seed")
    /\ UNCHANGED <<fixed, db, forwardDb, faults>>

ApplySeed ==
    pc = "apply seed" /\ ApplyStatements(case.current, "check current") /\ UNCHANGED forwardDb

(* Mutant: the plan is computed and not looked at.                         *)
UncheckedIdempotency(step, expected, next) ==
    /\ pc = step
    /\ IF next = "done" THEN Finish("none") ELSE GoOn(next)
    /\ UNCHANGED <<fixed, db, plan, forwardDb, faults>>

(* assert_online_idempotency                                               *)
AssertIdempotency(step, expected, next) ==
    /\ pc = step
    /\ IF GenerateStatements(expected, Exported) # {} THEN Finish("assertion")
       ELSE IF next = "done" THEN Finish("none") ELSE GoOn(next)
    /\ UNCHANGED <<fixed, db, plan, forwardDb, faults>>

CheckCurrent == AssertIdempotency("check current", case.current, "forward")
CheckDesired == AssertIdempotency("check desired", case.desired, "reverse")
CheckReverse == AssertIdempotency("check reverse", case.current, "done")

(* Mutant: `up` is compared with the plan between the texts of the case.   *)
ExpectedFromTexts(new) ==
    Difference(new, IF new = case.desired THEN case.current ELSE case.desired, case.enableDrop)

ExpectedSql(new) == Difference(new, db, case.enableDrop)

(* generate_statements_from_export and assert_expected_sql                 *)
GenerateFromExport(step, new, next) ==
    /\ pc = step
    /\ plan' = GenerateStatements(new, Exported)
    /\ IF case.directions = "both" /\ plan' # ExpectedSql(new)
       THEN Finish("assertion")
       ELSE GoOn(next)
    /\ UNCHANGED <<fixed, db, forwardDb, faults>>

Forward == GenerateFromExport("forward", case.desired, "apply forward")
Reverse == GenerateFromExport("reverse", case.current, "apply reverse")

ApplyForward ==
    /\ pc = "apply forward"
    /\ ApplyStatements(case.desired, "check desired")
    /\ forwardDb' = db'

ApplyReverse ==
    pc = "apply reverse" /\ ApplyStatements(case.current, "check reverse") /\ UNCHANGED forwardDb

(* Every step but the comparison of texts asks the server something.       *)
LoseConnection ==
    /\ mode = "online" /\ pc \notin {"directions", "done"}
    /\ faults < MaxFaults /\ faults' = faults + 1
    /\ Finish("lost")
    /\ UNCHANGED <<fixed, db, plan, forwardDb>>

Done == pc = "done" /\ UNCHANGED vars

Next ==
    \/ Gate \/ ValidateDirections \/ OfflineUp \/ OfflineDown
    \/ Seed \/ ApplySeed \/ CheckCurrent
    \/ Forward \/ ApplyForward \/ CheckDesired
    \/ Reverse \/ ApplyReverse \/ CheckReverse
    \/ LoseConnection \/ Done

Spec == Init /\ [][Next]_vars

-------------------------------------------------------------------------------
Reaches(state, schema) ==
    \A o \in Objects : schema[o] # 0 \/ case.enableDrop => state[o] = schema[o]

(* A case that passes online without an expected error has had the         *)
(* database at its desired schema and back: no defect of the tool slips    *)
(* through all of the checks.  A tool that is blind to a change is found   *)
(* out only by a case with the statements written out, for the rest of the *)
(* flow asks the tool itself whether anything is left to do.  And a case   *)
(* that expects an error and passes has met that error, and it left the    *)
(* database at one of the schemas of the case and not between them.        *)
Visible == defect.kind = "blind" => case.directions = "both"
RoundTripMade == Reaches(forwardDb, case.desired) /\ Reaches(db, case.current)
ErrorMet == /\ defect.kind = "refused" /\ error = "refused"
            /\ db \in {Empty, case.current, forwardDb}
PassedIsEarned ==
    verdict = "passed" =>
        IF case.error # "none" THEN ErrorMet
        ELSE mode = "online" /\ Visible => RoundTripMade

(* By major and minor version: a requirement of one component stands for   *)
(* all its minor versions.                                                 *)
InRange ==
    LET from(r, v) == v[1] > r[1] \/ (v[1] = r[1] /\ (Len(r) > 1 => v[2] >= r[2]))
        upTo(r, v) == v[1] < r[1] \/ (v[1] = r[1] /\ (Len(r) > 1 => v[2] <= r[2]))
    IN /\ case.min # <<>> => from(case.min, server)
       /\ case.max # <<>> => upTo(case.max, server)

(* A tool without defect is never blamed: what it does with a well-formed  *)
(* case, dropping or not, is what the case expects of it, and online a     *)
(* case is skipped on exactly the servers outside its range.               *)
WorkingToolIsNotBlamed ==
    pc = "done" /\ defect.kind = "none" /\ faults = 0
      /\ case.flavor = "matches" /\ case.error = "none" /\ case.directions # "up only"
        => verdict = IF mode = "online" /\ ~InRange THEN "skipped" ELSE "passed"
===============================================================================
