--------------------------- MODULE YamlRunnerProofs ---------------------------
(***************************************************************************)
(* Theorems about the runner of the YAML test cases, for any set of cases, *)
(* any defects of the tool and any servers.                                *)
(***************************************************************************)
EXTENDS YamlRunner, TLAPS

Seeding == {"gate", "directions", "seed", "apply seed"}
Current == {"check current", "forward", "apply forward"}
Desired == {"check desired", "reverse", "apply reverse", "check reverse"}
Offline == {"offline up", "offline down"}

TypeOK ==
    /\ case \in Cases /\ defect \in Defects /\ server \in Servers /\ mode \in Modes
    /\ pc \in Seeding \cup Current \cup Desired \cup Offline \cup {"done"}
    /\ db \in [Objects -> Nat] /\ forwardDb \in [Objects -> Nat]
    /\ plan \in SUBSET Objects
    /\ faults \in Nat

(* The flow before it ends.                                                *)
FlowInv ==
    /\ pc # "done" => error = "none" /\ verdict = "none"
    /\ mode = "online" => pc \notin Offline
    /\ mode # "online" => pc \in Offline \cup {"directions", "done"}
    /\ mode = "online" /\ pc \notin {"gate", "done"} => ~OutOfRange

(* A defect that the texts of the case or the first check bring to light.  *)
Harmless == defect.kind \in {"none", "refused"}
Told == defect.kind = "blind" /\ case.directions = "both"
Wrong(state) == defect.kind = "export" /\ state[defect.object] = 2

(* What the database holds at each step, and what the checks passed so far *)
(* have excluded.                                                          *)
DbInv ==
    /\ pc \in Seeding => db = Empty /\ forwardDb = Empty
    /\ pc = "apply seed" => plan = GenerateStatements(case.current, Empty)
    /\ pc \in Current => db = case.current
    /\ pc \in {"forward", "apply forward"} \cup Desired => ~Wrong(case.current)
    /\ pc = "apply forward" =>
          /\ plan = GenerateStatements(case.desired, Exported)
          /\ case.directions = "both" => plan = ExpectedSql(case.desired)
    /\ pc = "apply reverse" =>
          /\ plan = GenerateStatements(case.current, Exported)
          /\ case.directions = "both" => plan = ExpectedSql(case.current)
    /\ pc \in {"check desired", "reverse", "apply reverse"} =>
          /\ db = forwardDb
          /\ \A o \in Objects : db[o] \in {case.current[o], case.desired[o]}
    /\ pc = "check desired" /\ (Harmless \/ Told) => Reaches(db, case.desired)
    /\ pc \in {"reverse", "apply reverse", "check reverse"} =>
          /\ ~Wrong(db)
          /\ Visible => Reaches(forwardDb, case.desired)
    /\ pc = "check reverse" /\ (Harmless \/ Told) => Reaches(db, case.current)

IInv == TypeOK /\ FlowInv /\ DbInv /\ PassedIsEarned /\ WorkingToolIsNotBlamed

-------------------------------------------------------------------------------
(* Nothing is left to do exactly when the schema is reached, as far as the *)
(* case lets the tool drop objects.                                        *)
LEMMA NothingToDo ==
    ASSUME TypeOK, NEW new \in [Objects -> Nat], NEW old \in [Objects -> Nat]
    PROVE  Difference(new, old, case.enableDrop) = {} <=> Reaches(old, new)
BY CasesAssumption DEF TypeOK, Difference, Reaches

(* The lexicographic comparison of two versions is the range they mean.    *)
LEMMA RangeAgrees ==
    ASSUME TypeOK
    PROVE  OutOfRange <=> ~InRange
<1>1. /\ server \in Nat \X Nat
      /\ case.min \in Seq(Nat) /\ Len(case.min) <= 2
      /\ case.max \in Seq(Nat) /\ Len(case.max) <= 2
  BY CasesAssumption, ServersAssumption DEF TypeOK
<1>2. ASSUME NEW r \in Seq(Nat), Len(r) <= 2, r # <<>>
      PROVE  /\ CompareVersion(server, r) = "less" <=>
                  server[1] < r[1] \/ (server[1] = r[1] /\ Len(r) > 1 /\ server[2] < r[2])
             /\ CompareVersion(server, r) = "greater" <=>
                  server[1] > r[1] \/ (server[1] = r[1] /\ Len(r) > 1 /\ server[2] > r[2])
  <2> DEFINE differ == {i \in DOMAIN server \cap DOMAIN r : server[i] # r[i]}
             first == CHOOSE i \in differ : \A j \in differ : i <= j
  <2>1. /\ DOMAIN server = {1, 2} /\ server[1] \in Nat /\ server[2] \in Nat
        /\ 1 \in DOMAIN r /\ r[1] \in Nat
        /\ 2 \in DOMAIN r <=> Len(r) > 1
        /\ 2 \in DOMAIN r => r[2] \in Nat
        /\ DOMAIN r \subseteq {1, 2}
    <3>1. Len(r) \in {1, 2} /\ DOMAIN r = 1..Len(r)
      <4>1. Len(r) \in Nat /\ DOMAIN r = 1..Len(r)
        OBVIOUS
      <4>2. Len(r) # 0
        BY <1>2
      <4> QED
        BY <1>2, <4>1, <4>2
    <3> QED
      BY <1>1, <1>2, <3>1
  <2>2. differ = {i \in {1, 2} : i \in DOMAIN r /\ server[i] # r[i]}
    BY <2>1
  <2>3. CompareVersion(server, r) =
          CASE differ = {} -> "equal"
            [] differ # {} /\ server[first] < r[first] -> "less"
            [] OTHER -> "greater"
    BY DEF CompareVersion
  <2> HIDE DEF differ
  <2>4. CASE server[1] # r[1]
    <3>1. 1 \in differ /\ \A j \in differ : 1 <= j
      BY <2>1, <2>2, <2>4
    <3>2. first \in differ /\ \A j \in differ : first <= j
      BY <3>1
    <3>3. first = 1
      BY <2>2, <3>1, <3>2
    <3> HIDE DEF first
    <3> QED
      BY <2>1, <2>3, <2>4, <3>1, <3>3
  <2>5. CASE server[1] = r[1] /\ Len(r) > 1 /\ server[2] # r[2]
    <3>1. differ = {2}
      BY <2>1, <2>2, <2>5
    <3>2. first = 2
      BY <3>1
    <3> HIDE DEF first
    <3> QED
      BY <2>1, <2>3, <2>5, <3>1, <3>2
  <2>6. CASE server[1] = r[1] /\ (Len(r) > 1 => server[2] = r[2])
    <3>1. differ = {}
      BY <2>1, <2>2, <2>6
    <3> QED
      BY <2>1, <2>3, <2>6, <3>1
  <2> QED
    BY <2>4, <2>5, <2>6
<1>3. ASSUME NEW r \in Seq(Nat), r # <<>>
      PROVE  r[1] \in Nat /\ (Len(r) > 1 => r[2] \in Nat)
  <2>1. Len(r) \in Nat /\ Len(r) # 0 /\ \A i \in 1..Len(r) : r[i] \in Nat
    BY <1>3
  <2> QED
    BY <2>1
<1>4. case.min # <<>> =>
        (CompareVersion(server, case.min) = "less" <=>
           ~(server[1] > case.min[1]
               \/ (server[1] = case.min[1] /\ (Len(case.min) > 1 => server[2] >= case.min[2]))))
  BY <1>1, <1>2, <1>3
<1>5. case.max # <<>> =>
        (CompareVersion(server, case.max) = "greater" <=>
           ~(server[1] < case.max[1]
               \/ (server[1] = case.max[1] /\ (Len(case.max) > 1 => server[2] <= case.max[2]))))
  BY <1>1, <1>2, <1>3
<1> QED
  BY <1>4, <1>5 DEF OutOfRange, InRange

(* The parameters of a run, as the assumptions give them.                  *)
LEMMA CaseIsCase ==
    ASSUME TypeOK
    PROVE  /\ case.current \in [Objects -> Nat] /\ case.desired \in [Objects -> Nat]
           /\ case.enableDrop \in BOOLEAN
           /\ case.directions \in {"none", "both", "up only"}
           /\ case.error \in {"none", "refused"}
           /\ defect.kind \in {"none", "no effect", "export", "refused", "blind"}
           /\ defect.object \in Objects
           /\ Empty \in [Objects -> Nat]
BY CasesAssumption, DefectsAssumption DEF TypeOK, Empty

(* The plan that makes the first schema makes the whole of it, whatever    *)
(* the defect: nothing is redefined yet.                                   *)
LEMMA SeedIsComplete ==
    ASSUME TypeOK, db = Empty, plan = GenerateStatements(case.current, Empty)
    PROVE  Applied(case.current) = case.current
<1>1. Redefined(case.current, Empty) = {} /\ Redefined(case.current, db) = {}
  BY DEF Redefined, Empty
<1>2. plan = Difference(case.current, Empty, case.enableDrop)
  BY <1>1 DEF GenerateStatements
<1>3. Applied(case.current) = [o \in Objects |-> IF o \in plan THEN case.current[o] ELSE db[o]]
  BY <1>1 DEF Applied
<1>4. ASSUME NEW o \in Objects, o \notin plan PROVE case.current[o] = db[o]
  BY <1>2, <1>4, CaseIsCase DEF Difference, Empty
<1> QED
  BY <1>3, <1>4, CaseIsCase

(* Every object of a database a plan was applied to is as it was or as the *)
(* plan has it.                                                            *)
LEMMA AppliedBetween ==
    ASSUME TypeOK, NEW new \in [Objects -> Nat]
    PROVE  /\ Applied(new) \in [Objects -> Nat]
           /\ \A o \in Objects : Applied(new)[o] \in {db[o], new[o]}
BY DEF TypeOK, Applied

(* A defect that is not in the export leaves it true.                      *)
LEMMA ExportIsTrue ==
    ASSUME TypeOK, ~Wrong(db)
    PROVE  Exported = db
BY CaseIsCase DEF TypeOK, Wrong, Exported

(* A plan that leaves nothing out, or that was compared with the           *)
(* statements the case has, reaches its schema if it takes effect.         *)
LEMMA AppliedReaches ==
    ASSUME TypeOK, Harmless \/ Told, NEW new \in [Objects -> Nat],
           plan = GenerateStatements(new, Exported),
           case.directions = "both" => plan = ExpectedSql(new)
    PROVE  Reaches(Applied(new), new)
<1>1. Exported = db
  BY DEF Harmless, Told, Exported
<1>2. plan = Difference(new, db, case.enableDrop)
  BY <1>1 DEF Harmless, Told, GenerateStatements, ExpectedSql
<1>3. Applied(new) = [o \in Objects |-> IF o \in plan THEN new[o] ELSE db[o]]
  BY DEF Harmless, Told, Applied
<1> QED
  BY <1>2, <1>3 DEF Reaches, Difference

(* A check that finds nothing to do has seen the schema reached, unless    *)
(* the tool is blind and nothing else tells, and it has found out an       *)
(* export that hides the version the schema asks for.                      *)
LEMMA CheckedReaches ==
    ASSUME TypeOK, NEW new \in [Objects -> Nat],
           GenerateStatements(new, Exported) = {},
           Wrong(db) => new[defect.object] = 2,
           Harmless \/ Told => Reaches(db, new)
    PROVE  ~Wrong(db) /\ (Visible => Reaches(db, new))
<1>1. ASSUME Wrong(db) PROVE FALSE
  <2>1. Exported[defect.object] = 1 /\ new[defect.object] = 2
    BY <1>1, CaseIsCase DEF TypeOK, Exported, Wrong
  <2>2. GenerateStatements(new, Exported) = Difference(new, Exported, case.enableDrop)
    BY <1>1 DEF Wrong, GenerateStatements
  <2>3. defect.object \in Objects
    BY CaseIsCase
  <2>4. new[defect.object] # Exported[defect.object] /\ new[defect.object] # 0
    BY <2>1
  <2>5. defect.object \in Difference(new, Exported, case.enableDrop)
    BY <2>3, <2>4 DEF Difference
  <2> QED
    BY <2>2, <2>5
<1>2. CASE defect.kind = "blind"
  BY <1>1, <1>2 DEF Visible, Told
<1>3. CASE defect.kind # "blind"
  <2>1. GenerateStatements(new, Exported) = Difference(new, db, case.enableDrop)
    BY <1>1, <1>3, ExportIsTrue DEF GenerateStatements
  <2>2. db \in [Objects -> Nat]
    BY DEF TypeOK
  <2> QED
    BY <1>1, <2>1, <2>2, NothingToDo
<1> QED
  BY <1>2, <1>3

-------------------------------------------------------------------------------
(* How a flow ends: the verdict follows from what stopped it.              *)
LEMMA EndsWell ==
    ASSUME TypeOK, UNCHANGED fixed,
           NEW result \in {"none", "assertion", "lost", "refused"}, Finish(result),
           result = "none" /\ mode = "online" => ~OutOfRange /\ (Visible => RoundTripMade'),
           result = "refused" =>
               defect.kind = "refused" /\ db' \in {Empty, case.current, forwardDb'},
           result # "none" =>
               defect.kind # "none" \/ faults' # 0 \/ case.directions = "up only"
    PROVE  FlowInv' /\ DbInv' /\ PassedIsEarned' /\ WorkingToolIsNotBlamed'
<1>1. case' = case /\ defect' = defect /\ server' = server /\ mode' = mode
  BY DEF fixed
<1>2. pc' = "done" /\ error' = result /\ verdict' = Verdict(EvaluateExpectedError(result))
  BY DEF Finish
<1>3. FlowInv' /\ DbInv'
  BY <1>2 DEF FlowInv, DbInv, Seeding, Current, Desired, Offline
<1>4. PassedIsEarned'
  <2>1. verdict' = "passed" =>
          \/ case.error = "none" /\ result = "none"
          \/ case.error = "refused" /\ result = "refused"
    BY <1>2, CaseIsCase DEF Verdict, EvaluateExpectedError
  <2>2. case.error = "none" /\ result = "none" => PassedIsEarned'
    BY <1>1 DEF PassedIsEarned, Visible
  <2>3. case.error = "refused" /\ result = "refused" => PassedIsEarned'
    BY <1>1, <1>2 DEF PassedIsEarned, ErrorMet, Empty
  <2>4. verdict' # "passed" => PassedIsEarned'
    BY DEF PassedIsEarned
  <2> QED
    BY <2>1, <2>2, <2>3, <2>4
<1>5. WorkingToolIsNotBlamed'
  <2> SUFFICES ASSUME defect.kind = "none", faults' = 0, case.flavor = "matches",
                      case.error = "none", case.directions # "up only"
               PROVE  verdict' = IF mode = "online" /\ ~InRange' THEN "skipped" ELSE "passed"
    BY <1>1 DEF WorkingToolIsNotBlamed
  <2>1. result = "none"
    OBVIOUS
  <2>2. mode = "online" => InRange
    BY <2>1, RangeAgrees
  <2>3. InRange' <=> InRange
    BY <1>1 DEF InRange
  <2> QED
    BY <1>2, <2>1, <2>2, <2>3 DEF Verdict, EvaluateExpectedError
<1> QED
  BY <1>3, <1>4, <1>5

(* While the flow goes on there is no verdict to be right or wrong.        *)
LEMMA GoesOn ==
    ASSUME FlowInv, pc # "done", NEW step, step # "done", GoOn(step)
    PROVE  /\ error' = "none" /\ verdict' = "none"
           /\ PassedIsEarned' /\ WorkingToolIsNotBlamed'
BY DEF FlowInv, GoOn, PassedIsEarned, WorkingToolIsNotBlamed

(* A case starts with empty databases and nothing decided.                 *)
LEMMA InitIInv == Init => IInv
<1> SUFFICES ASSUME Init PROVE IInv
  OBVIOUS
<1>1. TypeOK
  BY DEF Init, TypeOK, Empty, Seeding
<1>2. FlowInv /\ DbInv
  BY DEF Init, FlowInv, DbInv, Seeding, Current, Desired, Offline
<1>3. PassedIsEarned /\ WorkingToolIsNotBlamed
  BY DEF Init, PassedIsEarned, WorkingToolIsNotBlamed
<1> QED
  BY <1>1, <1>2, <1>3 DEF IInv

(* A server out of range skips the case; otherwise the range is checked.   *)
LEMMA GateKeepsIInv == IInv /\ Gate => IInv'
<1> SUFFICES ASSUME IInv, Gate PROVE IInv'
  OBVIOUS
<1> USE DEF IInv
<1>1. pc = "gate" /\ mode = "online" /\ UNCHANGED <<fixed, db, plan, forwardDb, faults>>
  BY DEF Gate, FlowInv, Offline
<1>2. case' = case /\ defect' = defect /\ server' = server /\ mode' = mode
  BY <1>1 DEF fixed
<1>3. CASE OutOfRange
  <2>1. pc' = "done" /\ verdict' = "skipped" /\ error' = error
    BY <1>3 DEF Gate
  <2>2. TypeOK'
    BY <1>1, <1>2, <2>1 DEF TypeOK
  <2>3. FlowInv' /\ DbInv' /\ PassedIsEarned'
    BY <2>1 DEF FlowInv, DbInv, Seeding, Current, Desired, Offline, PassedIsEarned
  <2>4. ~InRange'
    <3>1. ~InRange
      BY <1>3, RangeAgrees
    <3>2. InRange' <=> InRange
      BY <1>2 DEF InRange
    <3> QED
      BY <3>1, <3>2
  <2>5. WorkingToolIsNotBlamed'
    BY <1>1, <1>2, <2>1, <2>4 DEF WorkingToolIsNotBlamed
  <2> QED
    BY <2>2, <2>3, <2>5
<1>4. CASE ~OutOfRange
  <2>1. GoOn("directions")
    BY <1>4 DEF Gate
  <2>2. /\ pc' = "directions" /\ error' = "none" /\ verdict' = "none"
        /\ PassedIsEarned' /\ WorkingToolIsNotBlamed'
    BY <1>1, <2>1, GoesOn DEF GoOn
  <2>3. TypeOK'
    BY <1>1, <1>2, <2>2 DEF TypeOK, Seeding
  <2>4. FlowInv'
    <3>1. OutOfRange' <=> OutOfRange
      BY <1>2 DEF OutOfRange, CompareVersion
    <3> QED
      BY <1>1, <1>2, <1>4, <2>2, <3>1 DEF FlowInv, Offline
  <2>5. DbInv'
    BY <1>1, <1>2, <2>2 DEF DbInv, Seeding, Current, Desired, Empty
  <2> QED
    BY <2>2, <2>3, <2>4, <2>5
<1> QED
  BY <1>3, <1>4

(* A step past the gate of a flow that goes on keeps what does not depend  *)
(* on the database.                                                        *)
LEMMA GoesOnFlow ==
    ASSUME IInv, UNCHANGED fixed, NEW step, GoOn(step), pc \notin {"gate", "done"},
           step \in Seeding \cup Current \cup Desired \cup Offline, step # "gate",
           mode = "online" => step \notin Offline,
           mode # "online" => step \in Offline
    PROVE  /\ pc' = step /\ FlowInv' /\ PassedIsEarned' /\ WorkingToolIsNotBlamed'
           /\ case' = case /\ defect' = defect /\ server' = server /\ mode' = mode
<1>1. case' = case /\ defect' = defect /\ server' = server /\ mode' = mode
  BY DEF fixed
<1>2. step # "done" /\ FlowInv
  BY DEF IInv, Seeding, Current, Desired, Offline
<1>3. error' = "none" /\ verdict' = "none" /\ PassedIsEarned' /\ WorkingToolIsNotBlamed'
  BY <1>2, GoesOn
<1>4. OutOfRange' <=> OutOfRange
  BY <1>1 DEF OutOfRange, CompareVersion
<1>5. pc' = step
  BY DEF GoOn
<1> QED
  BY <1>1, <1>2, <1>3, <1>4, <1>5 DEF FlowInv

(* A case that expects one direction only ends here, any other goes on.    *)
LEMMA DirectionsKeepIInv == IInv /\ ValidateDirections => IInv'
<1> SUFFICES ASSUME IInv, ValidateDirections PROVE IInv'
  OBVIOUS
<1>1. /\ pc = "directions" /\ UNCHANGED fixed
      /\ UNCHANGED <<db, plan, forwardDb, faults>>
      /\ TypeOK /\ FlowInv /\ DbInv
  BY DEF ValidateDirections, IInv
<1>2. case' = case /\ defect' = defect /\ server' = server /\ mode' = mode
  BY <1>1 DEF fixed
<1>3. CASE case.directions = "up only"
  <2>1. Finish("assertion")
    BY <1>3 DEF ValidateDirections
  <2>2. TypeOK'
    BY <1>1, <1>2, <2>1 DEF TypeOK, Finish
  <2> QED
    BY <1>1, <1>3, <2>1, <2>2, EndsWell DEF IInv
<1>4. CASE case.directions # "up only"
  <2> DEFINE step == IF mode = "online" THEN "seed" ELSE "offline up"
  <2>1. GoOn(step)
    BY <1>4 DEF ValidateDirections
  <2>2. /\ step \in Seeding \cup Current \cup Desired \cup Offline /\ step # "gate"
        /\ mode = "online" => step \notin Offline
        /\ mode # "online" => step \in Offline
    BY DEF Seeding, Offline
  <2> HIDE DEF step
  <2>3. /\ pc' = step /\ FlowInv' /\ PassedIsEarned' /\ WorkingToolIsNotBlamed'
    BY <1>1, <2>1, <2>2, GoesOnFlow
  <2>4. TypeOK'
    BY <1>1, <1>2, <2>2, <2>3 DEF TypeOK
  <2>5. DbInv'
    <3>1. db' = Empty' /\ forwardDb' = Empty' /\ pc' \in {"seed", "offline up"}
      BY <1>1, <2>3 DEF DbInv, Seeding, Empty, step
    <3> QED
      BY <3>1 DEF DbInv, Seeding, Current, Desired
  <2> QED
    BY <2>3, <2>4, <2>5 DEF IInv
<1> QED
  BY <1>3, <1>4

(* The tool's plan is the difference unless the tool is blind.             *)
LEMMA PlanOfTool ==
    ASSUME TypeOK, NEW new, NEW old, defect.kind # "blind"
    PROVE  GenerateStatements(new, old) = Difference(new, old, case.enableDrop)
BY DEF GenerateStatements

(* Offline a plan is made from the texts of the case alone.                *)
LEMMA OfflineKeepsIInv ==
    ASSUME IInv, NEW step \in Offline, NEW new, NEW old, NEW next \in {"offline down", "done"},
           OfflinePlan(step, new, old, next)
    PROVE  IInv'
<1>1. /\ pc = step /\ UNCHANGED fixed /\ UNCHANGED <<db, forwardDb, faults>>
      /\ plan' = GenerateStatements(new, old)
      /\ TypeOK /\ FlowInv /\ DbInv
  BY DEF OfflinePlan, IInv
<1>2. case' = case /\ defect' = defect /\ server' = server /\ mode' = mode
  BY <1>1 DEF fixed
<1>3. mode # "online" /\ plan' \in SUBSET Objects
  BY <1>1 DEF FlowInv, GenerateStatements, Difference
<1>4. CASE case.directions = "both" /\ plan' # Difference(new, old, case.enableDrop)
  <2>1. Finish("assertion")
    BY <1>4 DEF OfflinePlan
  <2>2. defect.kind # "none"
    BY <1>1, <1>4, PlanOfTool
  <2>3. TypeOK'
    BY <1>1, <1>2, <1>3, <2>1 DEF TypeOK, Finish
  <2> QED
    BY <1>1, <2>1, <2>2, <2>3, EndsWell DEF IInv
<1>5. CASE Finish("none")
  <2>1. TypeOK'
    BY <1>1, <1>2, <1>3, <1>5 DEF TypeOK, Finish
  <2> QED
    BY <1>1, <1>3, <1>5, <2>1, EndsWell DEF IInv
<1>6. CASE GoOn("offline down")
  <2>1. pc \notin {"gate", "done"}
    BY <1>1 DEF Offline
  <2>2. pc' = "offline down" /\ FlowInv' /\ PassedIsEarned' /\ WorkingToolIsNotBlamed'
    BY <1>1, <1>3, <1>6, <2>1, GoesOnFlow DEF Offline
  <2>3. TypeOK'
    BY <1>1, <1>2, <1>3, <2>2 DEF TypeOK, Offline
  <2>4. DbInv'
    BY <2>2 DEF DbInv, Seeding, Current, Desired
  <2> QED
    BY <2>2, <2>3, <2>4 DEF IInv
<1> QED
  BY <1>4, <1>5, <1>6 DEF OfflinePlan

-------------------------------------------------------------------------------
(* The steps on a server.                                                  *)

(* The plan of the seed starts from an empty database.                     *)
LEMMA SeedKeepsIInv == IInv /\ Seed => IInv'
<1> SUFFICES ASSUME IInv, Seed PROVE IInv'
  OBVIOUS
<1>1. /\ pc = "seed" /\ UNCHANGED fixed /\ UNCHANGED <<db, forwardDb, faults>>
      /\ plan' = GenerateStatements(case.current, Empty) /\ GoOn("apply seed")
      /\ TypeOK /\ FlowInv /\ DbInv
  BY DEF Seed, IInv
<1>2. mode = "online"
  BY <1>1 DEF FlowInv, Offline
<1>3. /\ pc' = "apply seed" /\ FlowInv' /\ PassedIsEarned' /\ WorkingToolIsNotBlamed'
      /\ case' = case /\ defect' = defect /\ server' = server /\ mode' = mode
  BY <1>1, <1>2, GoesOnFlow DEF Seeding, Offline
<1>4. plan' \in SUBSET Objects
  BY <1>1 DEF GenerateStatements, Difference
<1>5. TypeOK'
  BY <1>1, <1>3, <1>4 DEF TypeOK, Seeding
<1>6. DbInv'
  <2>1. db' = Empty' /\ forwardDb' = Empty'
    BY <1>1 DEF DbInv, Seeding, Empty
  <2>2. plan' = GenerateStatements(case.current, Empty)'
    BY <1>1, <1>3 DEF GenerateStatements, Empty, Redefined, Difference
  <2> QED
    BY <1>3, <2>1, <2>2 DEF DbInv, Seeding, Current, Desired
<1> QED
  BY <1>3, <1>5, <1>6 DEF IInv

(* A plan that is refused leaves the database at a schema of the case.     *)
LEMMA RefusedKeepsIInv ==
    ASSUME IInv, pc \notin {"done", "gate"} \cup Offline,
           UNCHANGED <<fixed, plan, faults>>, Refused, Finish("refused"), db' = db,
           forwardDb' \in {forwardDb, db}, db \in {Empty, case.current, forwardDb'}
    PROVE  IInv'
<1>1. TypeOK' /\ TypeOK /\ defect.kind = "refused"
  BY DEF IInv, TypeOK, fixed, Finish, Refused
<1> QED
  BY <1>1, EndsWell DEF IInv, fixed

(* Applying it makes the database the current schema, or fails.            *)
LEMMA ApplySeedKeepsIInv == IInv /\ ApplySeed => IInv'
<1> SUFFICES ASSUME IInv, ApplySeed PROVE IInv'
  OBVIOUS
<1>1. /\ pc = "apply seed" /\ UNCHANGED <<fixed, plan, faults>> /\ forwardDb' = forwardDb
      /\ TypeOK /\ FlowInv /\ DbInv
      /\ db = Empty /\ forwardDb = Empty
      /\ plan = GenerateStatements(case.current, Empty)
  BY DEF ApplySeed, ApplyStatements, IInv, DbInv, Seeding
<1>2. CASE Refused
  <2>1. Finish("refused") /\ db' = db
    BY <1>2 DEF ApplySeed, ApplyStatements
  <2>2. pc \notin {"done", "gate"} \cup Offline
    BY <1>1 DEF Offline
  <2> QED
    BY <1>1, <1>2, <2>1, <2>2, RefusedKeepsIInv
<1>3. CASE ~Refused
  <2>1. db' = case.current /\ GoOn("check current")
    BY <1>1, <1>3, SeedIsComplete DEF ApplySeed, ApplyStatements
  <2>2. mode = "online"
    BY <1>1 DEF FlowInv, Offline
  <2>3. /\ pc' = "check current" /\ FlowInv' /\ PassedIsEarned' /\ WorkingToolIsNotBlamed'
        /\ case' = case /\ defect' = defect /\ server' = server /\ mode' = mode
    BY <1>1, <2>1, <2>2, GoesOnFlow DEF Current, Offline
  <2>4. TypeOK'
    BY <1>1, <2>1, <2>3, CaseIsCase DEF TypeOK, Current
  <2>5. DbInv'
    BY <2>1, <2>3 DEF DbInv, Seeding, Current, Desired
  <2> QED
    BY <2>3, <2>4, <2>5 DEF IInv
<1> QED
  BY <1>2, <1>3

(* A check that passes excludes that the export gets this schema wrong.    *)
LEMMA CheckCurrentKeepsIInv == IInv /\ CheckCurrent => IInv'
<1> SUFFICES ASSUME IInv, CheckCurrent PROVE IInv'
  OBVIOUS
<1>1. /\ pc = "check current" /\ UNCHANGED fixed /\ UNCHANGED <<db, plan, forwardDb, faults>>
      /\ TypeOK /\ FlowInv /\ DbInv /\ db = case.current
      /\ case.current \in [Objects -> Nat]
  BY CaseIsCase DEF CheckCurrent, AssertIdempotency, IInv, DbInv, Current
<1>2. Reaches(db, case.current)
  BY <1>1 DEF Reaches
<1>3. CASE GenerateStatements(case.current, Exported) # {}
  <2>1. Finish("assertion")
    BY <1>3 DEF CheckCurrent, AssertIdempotency
  <2>2. defect.kind # "none"
    <3>1. SUFFICES ASSUME defect.kind = "none"
                   PROVE  GenerateStatements(case.current, Exported) = {}
      BY <1>3
    <3>2. Exported = db
      BY <3>1 DEF Exported
    <3> QED
      BY <1>1, <1>2, <3>1, <3>2, PlanOfTool, NothingToDo
  <2>3. TypeOK'
    BY <1>1, <2>1 DEF TypeOK, Finish, fixed
  <2> QED
    BY <1>1, <2>1, <2>2, <2>3, EndsWell DEF IInv
<1>4. CASE GenerateStatements(case.current, Exported) = {}
  <2>1. GoOn("forward")
    BY <1>4 DEF CheckCurrent, AssertIdempotency
  <2>2. mode = "online"
    BY <1>1 DEF FlowInv, Offline
  <2>3. /\ pc' = "forward" /\ FlowInv' /\ PassedIsEarned' /\ WorkingToolIsNotBlamed'
        /\ case' = case /\ defect' = defect /\ server' = server /\ mode' = mode
    BY <1>1, <2>1, <2>2, GoesOnFlow DEF Current, Offline
  <2>4. TypeOK'
    BY <1>1, <2>3 DEF TypeOK, Current
  <2>5. ~Wrong(db)
    BY <1>1, <1>2, <1>4, CheckedReaches DEF Wrong
  <2>6. ~Wrong(case.current)'
    BY <1>1, <2>3, <2>5 DEF Wrong
  <2>7. DbInv'
    BY <1>1, <2>3, <2>6 DEF DbInv, Seeding, Current, Desired
  <2> QED
    BY <2>3, <2>4, <2>7 DEF IInv
<1> QED
  BY <1>3, <1>4

(* Generating a plan from the export, forward or back.                     *)
LEMMA GenerateKeepsTypes ==
    ASSUME IInv, NEW step \in Current \cup Desired, NEW new,
           NEW next \in {"apply forward", "apply reverse"},
           GenerateFromExport(step, new, next)
    PROVE  /\ mode = "online" /\ UNCHANGED <<fixed, db, forwardDb>>
           /\ plan' = GenerateStatements(new, Exported)
           /\ \/ IInv'
              \/ /\ pc' = next /\ TypeOK' /\ FlowInv'
                 /\ PassedIsEarned' /\ WorkingToolIsNotBlamed'
                 /\ case.directions = "both" => plan' = ExpectedSql(new)
<1>1. /\ pc = step /\ UNCHANGED <<fixed, db, forwardDb, faults>>
      /\ plan' = GenerateStatements(new, Exported)
      /\ TypeOK /\ FlowInv /\ DbInv
      /\ pc \notin {"gate", "done", "directions"} \cup Offline
  BY DEF GenerateFromExport, IInv, Current, Desired, Offline
<1>2. mode = "online" /\ plan' \in SUBSET Objects
  BY <1>1 DEF FlowInv, GenerateStatements, Difference
<1>3. case' = case /\ defect' = defect /\ server' = server /\ mode' = mode
  BY <1>1 DEF fixed
<1>4. CASE case.directions = "both" /\ plan' # ExpectedSql(new)
  <2>1. Finish("assertion")
    BY <1>4 DEF GenerateFromExport
  <2>2. defect.kind # "none"
    BY <1>1, <1>4 DEF Exported, GenerateStatements, ExpectedSql
  <2>3. TypeOK'
    BY <1>1, <1>2, <1>3, <2>1 DEF TypeOK, Finish
  <2>4. IInv'
    BY <1>1, <2>1, <2>2, <2>3, EndsWell DEF IInv
  <2> QED
    BY <1>1, <1>2, <2>4
<1>5. CASE ~(case.directions = "both" /\ plan' # ExpectedSql(new))
  <2>1. GoOn(next)
    BY <1>5 DEF GenerateFromExport
  <2>2. next \in Current \cup Desired /\ next \notin Offline \cup {"gate"}
    BY DEF Current, Desired, Offline
  <2>3. pc' = next /\ FlowInv' /\ PassedIsEarned' /\ WorkingToolIsNotBlamed'
    BY <1>1, <1>2, <2>1, <2>2, GoesOnFlow
  <2>4. TypeOK'
    BY <1>1, <1>2, <1>3, <2>2, <2>3 DEF TypeOK
  <2> QED
    BY <1>1, <1>2, <1>5, <2>3, <2>4
<1> QED
  BY <1>4, <1>5

(* What the tool answers to the same question later.                       *)
LEMMA SameAnswers ==
    ASSUME UNCHANGED <<fixed, db>>
    PROVE  /\ GenerateStatements(case.desired, Exported)'
                = GenerateStatements(case.desired, Exported)
           /\ GenerateStatements(case.current, Exported)'
                = GenerateStatements(case.current, Exported)
           /\ ExpectedSql(case.desired)' = ExpectedSql(case.desired)
           /\ ExpectedSql(case.current)' = ExpectedSql(case.current)
BY DEF fixed, GenerateStatements, Exported, ExpectedSql, Redefined, Difference

(* The forward plan is compared with what the case expects.                *)
LEMMA ForwardKeepsIInv == IInv /\ Forward => IInv'
<1> SUFFICES ASSUME IInv, Forward, ~IInv' PROVE IInv'
  OBVIOUS
<1>1. /\ pc = "forward" /\ TypeOK /\ DbInv
      /\ GenerateFromExport("forward", case.desired, "apply forward")
  BY DEF Forward, GenerateFromExport, IInv
<1>2. /\ UNCHANGED <<fixed, db, forwardDb>> /\ pc' = "apply forward" /\ TypeOK' /\ FlowInv'
      /\ PassedIsEarned' /\ WorkingToolIsNotBlamed'
      /\ plan' = GenerateStatements(case.desired, Exported)
      /\ case.directions = "both" => plan' = ExpectedSql(case.desired)
  BY <1>1, GenerateKeepsTypes DEF Current
<1>3. case' = case /\ defect' = defect
  BY <1>2 DEF fixed
<1>4. /\ plan' = GenerateStatements(case.desired, Exported)'
      /\ case'.directions = "both" => plan' = ExpectedSql(case.desired)'
  BY <1>2, <1>3, SameAnswers
<1>5. db' = case'.current /\ ~Wrong(case.current)'
  BY <1>1, <1>2, <1>3 DEF DbInv, Current, Wrong
<1>6. DbInv'
  BY <1>2, <1>4, <1>5 DEF DbInv, Seeding, Current, Desired
<1> QED
  BY <1>2, <1>6 DEF IInv

(* So is the reverse plan.                                                 *)
LEMMA ReverseKeepsIInv == IInv /\ Reverse => IInv'
<1> SUFFICES ASSUME IInv, Reverse, ~IInv' PROVE IInv'
  OBVIOUS
<1>1. /\ pc = "reverse" /\ TypeOK /\ DbInv
      /\ GenerateFromExport("reverse", case.current, "apply reverse")
  BY DEF Reverse, GenerateFromExport, IInv
<1>2. /\ UNCHANGED <<fixed, db, forwardDb>> /\ pc' = "apply reverse" /\ TypeOK' /\ FlowInv'
      /\ PassedIsEarned' /\ WorkingToolIsNotBlamed'
      /\ plan' = GenerateStatements(case.current, Exported)
      /\ case.directions = "both" => plan' = ExpectedSql(case.current)
  BY <1>1, GenerateKeepsTypes DEF Desired
<1>3. case' = case /\ defect' = defect
  BY <1>2 DEF fixed
<1>4. /\ plan' = GenerateStatements(case.current, Exported)'
      /\ case'.directions = "both" => plan' = ExpectedSql(case.current)'
  BY <1>2, <1>3, SameAnswers
<1>5. /\ ~Wrong(case.current)' /\ db' = forwardDb' /\ ~Wrong(db)'
      /\ \A o \in Objects : db'[o] \in {case'.current[o], case'.desired[o]}
      /\ Visible' => Reaches(forwardDb, case.desired)'
  BY <1>1, <1>2, <1>3 DEF DbInv, Desired, Wrong, Visible, Reaches
<1>6. DbInv'
  BY <1>2, <1>4, <1>5 DEF DbInv, Seeding, Current, Desired
<1> QED
  BY <1>2, <1>6 DEF IInv

(* Applying the forward plan makes the database the desired schema, or     *)
(* fails.                                                                  *)
LEMMA ApplyForwardKeepsIInv == IInv /\ ApplyForward => IInv'
<1> SUFFICES ASSUME IInv, ApplyForward PROVE IInv'
  OBVIOUS
<1>1. /\ pc = "apply forward" /\ UNCHANGED <<fixed, plan, faults>> /\ forwardDb' = db'
      /\ TypeOK /\ FlowInv /\ DbInv /\ db = case.current /\ ~Wrong(case.current)
      /\ plan = GenerateStatements(case.desired, Exported)
      /\ case.directions = "both" => plan = ExpectedSql(case.desired)
  BY DEF ApplyForward, ApplyStatements, IInv, DbInv, Current
<1>2. CASE Refused
  <2>1. Finish("refused") /\ db' = db
    BY <1>2 DEF ApplyForward, ApplyStatements
  <2>2. pc \notin {"done", "gate"} \cup Offline
    BY <1>1 DEF Offline
  <2> QED
    BY <1>1, <1>2, <2>1, <2>2, RefusedKeepsIInv
<1>3. CASE ~Refused
  <2>1. db' = Applied(case.desired) /\ GoOn("check desired")
    BY <1>3 DEF ApplyForward, ApplyStatements
  <2>2. mode = "online"
    BY <1>1 DEF FlowInv, Offline
  <2>3. /\ pc' = "check desired" /\ FlowInv' /\ PassedIsEarned' /\ WorkingToolIsNotBlamed'
        /\ case' = case /\ defect' = defect /\ server' = server /\ mode' = mode
    BY <1>1, <2>1, <2>2, GoesOnFlow DEF Desired, Offline
  <2>4. /\ db' \in [Objects -> Nat]
        /\ \A o \in Objects : db'[o] \in {case.current[o], case.desired[o]}
    BY <1>1, <2>1, AppliedBetween, CaseIsCase
  <2>5. TypeOK'
    BY <1>1, <2>3, <2>4 DEF TypeOK, Desired
  <2>6. Harmless \/ Told => Reaches(db', case.desired)
    BY <1>1, <2>1, AppliedReaches, CaseIsCase
  <2>7. (Harmless \/ Told)' => Reaches(db, case.desired)'
    BY <2>3, <2>6 DEF Harmless, Told, Reaches
  <2>8. ~Wrong(case.current)'
    BY <1>1, <2>3 DEF Wrong
  <2>9. DbInv'
    BY <1>1, <2>3, <2>4, <2>7, <2>8 DEF DbInv, Seeding, Current, Desired
  <2> QED
    BY <2>3, <2>5, <2>9 DEF IInv
<1> QED
  BY <1>2, <1>3

(* Applying the reverse plan makes it the current schema again, or fails.  *)
LEMMA ApplyReverseKeepsIInv == IInv /\ ApplyReverse => IInv'
<1> SUFFICES ASSUME IInv, ApplyReverse PROVE IInv'
  OBVIOUS
<1>1. /\ pc = "apply reverse" /\ UNCHANGED <<fixed, plan, faults>> /\ forwardDb' = forwardDb
      /\ TypeOK /\ FlowInv /\ DbInv /\ db = forwardDb /\ ~Wrong(case.current) /\ ~Wrong(db)
      /\ plan = GenerateStatements(case.current, Exported)
      /\ case.directions = "both" => plan = ExpectedSql(case.current)
      /\ Visible => Reaches(forwardDb, case.desired)
  BY DEF ApplyReverse, ApplyStatements, IInv, DbInv, Desired
<1>2. CASE Refused
  <2>1. Finish("refused") /\ db' = db
    BY <1>2 DEF ApplyReverse, ApplyStatements
  <2>2. pc \notin {"done", "gate"} \cup Offline
    BY <1>1 DEF Offline
  <2> QED
    BY <1>1, <1>2, <2>1, <2>2, RefusedKeepsIInv
<1>3. CASE ~Refused
  <2>1. db' = Applied(case.current) /\ GoOn("check reverse")
    BY <1>3 DEF ApplyReverse, ApplyStatements
  <2>2. mode = "online"
    BY <1>1 DEF FlowInv, Offline
  <2>3. /\ pc' = "check reverse" /\ FlowInv' /\ PassedIsEarned' /\ WorkingToolIsNotBlamed'
        /\ case' = case /\ defect' = defect /\ server' = server /\ mode' = mode
    BY <1>1, <2>1, <2>2, GoesOnFlow DEF Desired, Offline
  <2>4. /\ db' \in [Objects -> Nat]
        /\ \A o \in Objects : db'[o] \in {db[o], case.current[o]}
    BY <1>1, <2>1, AppliedBetween, CaseIsCase
  <2>5. TypeOK'
    BY <1>1, <2>3, <2>4 DEF TypeOK, Desired
  <2>6. Harmless \/ Told => Reaches(db', case.current)
    BY <1>1, <2>1, AppliedReaches, CaseIsCase
  <2>7. (Harmless \/ Told)' => Reaches(db, case.current)'
    BY <2>3, <2>6 DEF Harmless, Told, Reaches
  <2>8. ~Wrong(case.current)' /\ ~Wrong(db)'
    BY <1>1, <2>3, <2>4, CaseIsCase DEF Wrong
  <2>9. Visible' => Reaches(forwardDb, case.desired)'
    BY <1>1, <2>3 DEF Visible, Reaches
  <2>10. DbInv'
    BY <1>1, <2>3, <2>7, <2>8, <2>9 DEF DbInv, Seeding, Current, Desired
  <2> QED
    BY <2>3, <2>5, <2>10 DEF IInv
<1> QED
  BY <1>2, <1>3

(* The check after it, of the desired schema.                              *)
LEMMA CheckDesiredKeepsIInv == IInv /\ CheckDesired => IInv'
<1> SUFFICES ASSUME IInv, CheckDesired PROVE IInv'
  OBVIOUS
<1>1. /\ pc = "check desired" /\ UNCHANGED fixed /\ UNCHANGED <<db, plan, forwardDb, faults>>
      /\ TypeOK /\ FlowInv /\ DbInv /\ db = forwardDb /\ ~Wrong(case.current)
      /\ \A o \in Objects : db[o] \in {case.current[o], case.desired[o]}
      /\ Harmless \/ Told => Reaches(db, case.desired)
  BY DEF CheckDesired, AssertIdempotency, IInv, DbInv, Desired
<1>2. case.desired \in [Objects -> Nat] /\ db \in [Objects -> Nat]
  BY <1>1, CaseIsCase DEF TypeOK
<1>3. CASE GenerateStatements(case.desired, Exported) # {}
  <2>1. Finish("assertion")
    BY <1>3 DEF CheckDesired, AssertIdempotency
  <2>2. defect.kind # "none"
    <3>1. SUFFICES ASSUME defect.kind = "none"
                   PROVE  GenerateStatements(case.desired, Exported) = {}
      BY <1>3
    <3>2. Exported = db /\ Reaches(db, case.desired)
      BY <1>1, <3>1 DEF Exported, Harmless
    <3> QED
      BY <1>1, <1>2, <3>1, <3>2, PlanOfTool, NothingToDo
  <2>3. TypeOK'
    BY <1>1, <2>1 DEF TypeOK, Finish, fixed
  <2> QED
    BY <1>1, <2>1, <2>2, <2>3, EndsWell DEF IInv
<1>4. CASE GenerateStatements(case.desired, Exported) = {}
  <2>1. GoOn("reverse")
    BY <1>4 DEF CheckDesired, AssertIdempotency
  <2>2. mode = "online"
    BY <1>1 DEF FlowInv, Offline
  <2>3. /\ pc' = "reverse" /\ FlowInv' /\ PassedIsEarned' /\ WorkingToolIsNotBlamed'
        /\ case' = case /\ defect' = defect /\ server' = server /\ mode' = mode
    BY <1>1, <2>1, <2>2, GoesOnFlow DEF Desired, Offline
  <2>4. TypeOK'
    BY <1>1, <2>3 DEF TypeOK, Desired
  <2>5. Wrong(db) => case.desired[defect.object] = 2
    BY <1>1, CaseIsCase DEF Wrong
  <2>6. ~Wrong(db) /\ (Visible => Reaches(db, case.desired))
    BY <1>1, <1>2, <1>4, <2>5, CheckedReaches
  <2>7. /\ ~Wrong(db)' /\ ~Wrong(case.current)'
        /\ Visible' => Reaches(forwardDb, case.desired)'
    BY <1>1, <2>3, <2>6 DEF Wrong, Visible, Reaches
  <2>8. DbInv'
    BY <1>1, <2>3, <2>7 DEF DbInv, Seeding, Current, Desired
  <2> QED
    BY <2>3, <2>4, <2>8 DEF IInv
<1> QED
  BY <1>3, <1>4

(* The last check, which lets the case pass.                               *)
LEMMA CheckReverseKeepsIInv == IInv /\ CheckReverse => IInv'
<1> SUFFICES ASSUME IInv, CheckReverse PROVE IInv'
  OBVIOUS
<1>1. /\ pc = "check reverse" /\ UNCHANGED fixed /\ UNCHANGED <<db, plan, forwardDb, faults>>
      /\ TypeOK /\ FlowInv /\ DbInv /\ ~Wrong(db)
      /\ Visible => Reaches(forwardDb, case.desired)
      /\ Harmless \/ Told => Reaches(db, case.current)
  BY DEF CheckReverse, AssertIdempotency, IInv, DbInv, Desired
<1>2. case.current \in [Objects -> Nat] /\ db \in [Objects -> Nat]
  BY <1>1, CaseIsCase DEF TypeOK
<1>3. case' = case /\ defect' = defect /\ server' = server /\ mode' = mode
  BY <1>1 DEF fixed
<1>4. CASE GenerateStatements(case.current, Exported) # {}
  <2>1. Finish("assertion")
    BY <1>4 DEF CheckReverse, AssertIdempotency
  <2>2. defect.kind # "none"
    <3>1. SUFFICES ASSUME defect.kind = "none"
                   PROVE  GenerateStatements(case.current, Exported) = {}
      BY <1>4
    <3>2. Exported = db /\ Reaches(db, case.current)
      BY <1>1, <3>1 DEF Exported, Harmless
    <3> QED
      BY <1>1, <1>2, <3>1, <3>2, PlanOfTool, NothingToDo
  <2>3. TypeOK'
    BY <1>1, <1>3, <2>1 DEF TypeOK, Finish
  <2> QED
    BY <1>1, <2>1, <2>2, <2>3, EndsWell DEF IInv
<1>5. CASE GenerateStatements(case.current, Exported) = {}
  <2>1. Finish("none")
    BY <1>5 DEF CheckReverse, AssertIdempotency
  <2>2. Visible => Reaches(db, case.current)
    BY <1>1, <1>2, <1>5, CheckedReaches
  <2>3. Visible => RoundTripMade'
    BY <1>1, <1>3, <2>2 DEF RoundTripMade, Reaches
  <2>4. TypeOK'
    BY <1>1, <1>3, <2>1 DEF TypeOK, Finish
  <2>5. mode = "online" => ~OutOfRange
    BY <1>1 DEF FlowInv
  <2> QED
    BY <1>1, <2>1, <2>3, <2>4, <2>5, EndsWell DEF IInv
<1> QED
  BY <1>4, <1>5

(* A lost connection ends the case, which has not passed.                  *)
LEMMA LoseConnectionKeepsIInv == IInv /\ LoseConnection => IInv'
<1> SUFFICES ASSUME IInv, LoseConnection PROVE IInv'
  OBVIOUS
<1>1. /\ UNCHANGED <<fixed, db, plan, forwardDb>> /\ faults' = faults + 1
      /\ Finish("lost") /\ TypeOK /\ faults \in Nat
  BY DEF LoseConnection, IInv, TypeOK
<1>2. TypeOK' /\ faults' # 0
  BY <1>1 DEF TypeOK, Finish, fixed
<1> QED
  BY <1>1, <1>2, EndsWell DEF IInv

-------------------------------------------------------------------------------
(* The state of the flow determines what the database holds.               *)
LEMMA NextIInv == IInv /\ [Next]_vars => IInv'
<1> SUFFICES ASSUME IInv, [Next]_vars PROVE IInv'
  OBVIOUS
<1>1. CASE OfflineUp \/ OfflineDown
  BY <1>1, OfflineKeepsIInv DEF OfflineUp, OfflineDown, Offline
<1>2. CASE Done \/ UNCHANGED vars
  <2> USE DEF IInv
  <2>1. UNCHANGED vars
    BY <1>2 DEF Done
  <2>2. UNCHANGED <<fixed, db>>
    BY <2>1 DEF vars
  <2>3. /\ UNCHANGED <<pc, db, plan, forwardDb, error, verdict, faults>>
        /\ UNCHANGED <<case, defect, server, mode>>
    BY <2>1 DEF vars, fixed
  <2>4. TypeOK'
    BY <2>3 DEF TypeOK
  <2>5. FlowInv'
    BY <2>3 DEF FlowInv, OutOfRange, CompareVersion
  <2>6. PassedIsEarned'
    BY <2>3 DEF PassedIsEarned, ErrorMet, RoundTripMade, Visible, Reaches, Empty
  <2>7. WorkingToolIsNotBlamed'
    BY <2>3 DEF WorkingToolIsNotBlamed, InRange
  <2>8. GenerateStatements(case.current, Empty)' = GenerateStatements(case.current, Empty)
    BY <2>3 DEF GenerateStatements, Redefined, Difference, Empty
  <2>9. DbInv'
    <3>1. /\ Empty' = Empty /\ (Wrong(db)' <=> Wrong(db))
          /\ Wrong(case.current)' <=> Wrong(case.current)
          /\ (Harmless \/ Told)' <=> Harmless \/ Told
          /\ Visible' <=> Visible
      BY <2>3 DEF Wrong, Harmless, Told, Visible, Empty
    <3>2. /\ Reaches(db, case.desired)' <=> Reaches(db, case.desired)
          /\ Reaches(db, case.current)' <=> Reaches(db, case.current)
          /\ Reaches(forwardDb, case.desired)' <=> Reaches(forwardDb, case.desired)
      BY <2>3 DEF Reaches
    <3>3. /\ GenerateStatements(case.desired, Exported)'
               = GenerateStatements(case.desired, Exported)
          /\ GenerateStatements(case.current, Exported)'
               = GenerateStatements(case.current, Exported)
          /\ ExpectedSql(case.desired)' = ExpectedSql(case.desired)
          /\ ExpectedSql(case.current)' = ExpectedSql(case.current)
      BY <2>2, SameAnswers
    <3>4. DbInv /\ (Seeding' = Seeding) /\ (Current' = Current) /\ (Desired' = Desired)
      BY DEF Seeding, Current, Desired
    <3> QED
      BY ONLY <2>3, <2>8, <3>1, <3>2, <3>3, <3>4, ZenonT(60) DEF DbInv
  <2> QED
    BY <2>4, <2>5, <2>6, <2>7, <2>9
<1> QED
  BY <1>1, <1>2, GateKeepsIInv, DirectionsKeepIInv, SeedKeepsIInv, ApplySeedKeepsIInv,
     CheckCurrentKeepsIInv, ForwardKeepsIInv, ApplyForwardKeepsIInv, CheckDesiredKeepsIInv,
     ReverseKeepsIInv, ApplyReverseKeepsIInv, CheckReverseKeepsIInv, LoseConnectionKeepsIInv
  DEF Next

(* IInv holds throughout.                                                  *)
LEMMA InductiveInvariant == Spec => []IInv
BY InitIInv, NextIInv, PTL DEF Spec

(* A case that passes has earned it, whatever the cases and the defects    *)
(* are: the proof says which step finds out which defect.                  *)
THEOREM PassingIsEarned == Spec => []PassedIsEarned
<1>1. IInv => PassedIsEarned
  BY DEF IInv
<1> QED
  BY <1>1, InductiveInvariant, PTL

(* No well-formed case blames a tool without defect, on any server.        *)
THEOREM NoFalseAlarm == Spec => []WorkingToolIsNotBlamed
<1>1. IInv => WorkingToolIsNotBlamed
  BY DEF IInv
<1> QED
  BY <1>1, InductiveInvariant, PTL
===============================================================================
