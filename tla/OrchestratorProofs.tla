-------------------------- MODULE OrchestratorProofs ---------------------------
(***************************************************************************)
(* Proofs about runs of the tool, for any objects, any schema, any         *)
(* database, and any number of runs, faults and changes by the other       *)
(* session: what a run may do to the database.                             *)
(***************************************************************************)
EXTENDS Orchestrator, DataLemmas

(***************************************************************************)
(* Facts about plans                                                       *)
(***************************************************************************)

(* Objects are known by their positions, of which there are finitely many. *)
LEMMA PositionsFinite ==
    ASSUME NEW S, S \subseteq DOMAIN Objects
    PROVE  S \subseteq Nat /\ IsFiniteSet(S)
<1>1. DOMAIN Objects = 1..Len(Objects) /\ Len(Objects) \in Nat
  BY ObjectsAssumption
<1>2. IsFiniteSet(1..Len(Objects))
  BY <1>1, FS_Interval
<1> QED
  BY <1>1, <1>2, FS_Subset

(* Objects have one name each, so positions do not collide.                *)
LEMMA NamesDiffer ==
    ASSUME NEW i \in DOMAIN Objects, NEW j \in DOMAIN Objects, Objects[i] = Objects[j]
    PROVE  i = j
BY ObjectsAssumption

(* A drop is of an object the database had and the schema does not want,   *)
(* and there is none without --enable-drop; no object is dropped twice.    *)
LEMMA DropsAreGone ==
    ASSUME NEW new, NEW old, NEW drop \in BOOLEAN
    PROVE  LET D == Drops(new, old, drop)
           IN  /\ Len(D) \in Nat /\ D \in Seq(EntriesOf(D))
               /\ \A i \in 1..Len(D) :
                    drop /\ D[i].to = 0 /\ new[D[i].object] = 0 /\ old[D[i].object] # 0
               /\ \A i, j \in 1..Len(D) : D[i].object = D[j].object => i = j
<1> DEFINE S == Gone(new, old)
           gone == InOrder(S)
           n == Cardinality(S)
           D == Drops(new, old, drop)
<1>1. CASE ~drop
  BY <1>1 DEF Drops, EntriesOf
<1>2. CASE drop
  <2>1. S \subseteq DOMAIN Objects
    BY DEF Gone
  <2>2. /\ n \in Nat /\ Len(gone) = n /\ gone \in [1..n -> S]
        /\ \A a, b \in 1..n : a < b => gone[a] < gone[b]
    <3>1. S \subseteq Nat /\ IsFiniteSet(S)
      BY <2>1, PositionsFinite
    <3> QED
      BY <3>1, InOrderEnumerates
  <2>3. D = [r \in 1..n |-> [object |-> Objects[gone[n + 1 - r]], to |-> 0]]
    BY <1>2, <2>2 DEF Drops
  <2>4. \A r \in 1..n : n + 1 - r \in 1..n /\ gone[n + 1 - r] \in S
    BY <2>2
  <2>5. Len(D) = n /\ D \in Seq(EntriesOf(D))
    <3> HIDE DEF gone, n, D
    <3>1. D \in [1..n -> EntriesOf(D)]
      BY <2>3 DEF EntriesOf
    <3> QED
      BY <2>2, <3>1
  <2>6. \A i \in 1..n : D[i].to = 0 /\ new[D[i].object] = 0 /\ old[D[i].object] # 0
    BY <2>3, <2>4 DEF Gone
  <2>7. ASSUME NEW i \in 1..n, NEW j \in 1..n, D[i].object = D[j].object PROVE i = j
    <3>1. Objects[gone[n + 1 - i]] = Objects[gone[n + 1 - j]]
      BY <2>3, <2>7
    <3>2. gone[n + 1 - i] = gone[n + 1 - j]
      BY <2>1, <2>4, <3>1, NamesDiffer
    <3>3. \A r \in 1..n : gone[r] \in Nat
      BY <2>1, <2>2, PositionsFinite
    <3> HIDE DEF gone, n, D
    <3>4. ~(n + 1 - i < n + 1 - j) /\ ~(n + 1 - j < n + 1 - i)
      BY <2>2, <2>4, <3>2, <3>3
    <3> QED
      BY <2>2, <3>4
  <2> QED
    BY <1>2, <2>2, <2>5, <2>6, <2>7
<1> QED
  BY <1>1, <1>2

(* What is created or altered is wanted, and is brought to the version the *)
(* schema asks for; no object is changed twice.                            *)
LEMMA ChangedAreWanted ==
    ASSUME NEW new, NEW old
    PROVE  LET C == Changed(new, old)
           IN  /\ Len(C) \in Nat /\ C \in Seq(EntriesOf(C))
               /\ \A i \in 1..Len(C) : C[i].to = new[C[i].object] /\ new[C[i].object] # 0
               /\ \A i, j \in 1..Len(C) : C[i].object = C[j].object => i = j
<1> DEFINE S == {i \in DOMAIN Objects :
                    new[Objects[i]] # 0 /\ new[Objects[i]] # old[Objects[i]]}
           changed == InOrder(S)
           n == Cardinality(S)
           C == Changed(new, old)
<1>1. S \subseteq DOMAIN Objects
  OBVIOUS
<1>2. /\ n \in Nat /\ Len(changed) = n /\ changed \in [1..n -> S]
      /\ \A a, b \in 1..n : a < b => changed[a] < changed[b]
  <2>1. S \subseteq Nat /\ IsFiniteSet(S)
    BY <1>1, PositionsFinite
  <2> QED
    BY <2>1, InOrderEnumerates
<1>3. C = [r \in 1..n |-> [object |-> Objects[changed[r]], to |-> new[Objects[changed[r]]]]]
  BY <1>2 DEF Changed
<1> HIDE DEF changed, n, C
<1>4. Len(C) = n /\ C \in Seq(EntriesOf(C))
  <2>1. C \in [1..n -> EntriesOf(C)]
    BY <1>3 DEF EntriesOf
  <2> QED
    BY <1>2, <2>1
<1>5. \A i \in 1..n : C[i].to = new[C[i].object] /\ new[C[i].object] # 0
  <2>1. \A i \in 1..n : changed[i] \in S
    BY <1>2
  <2>2. \A i \in 1..n : C[i].object = Objects[changed[i]] /\ C[i].to = new[Objects[changed[i]]]
    BY <1>3
  <2> QED
    BY <2>1, <2>2
<1>6. ASSUME NEW i \in 1..n, NEW j \in 1..n, C[i].object = C[j].object PROVE i = j
  <2>1. changed[i] \in S /\ changed[j] \in S
    BY <1>2
  <2>2. changed[i] = changed[j]
    <3>1. Objects[changed[i]] = Objects[changed[j]]
      BY <1>3, <1>6
    <3> QED
      BY <1>1, <2>1, <3>1, NamesDiffer
  <2>3. changed[i] \in Nat
    BY <1>1, <2>1, PositionsFinite
  <2>4. ~(i < j) /\ ~(j < i)
    BY <1>2, <2>2, <2>3
  <2> QED
    BY <1>2, <2>4
<1> QED
  BY <1>2, <1>4, <1>5, <1>6 DEF n, C

(* An operation removes only with --enable-drop and only what was there    *)
(* and is not wanted, and no plan holds two operations on one object: what *)
(* is created or altered is wanted.                                        *)
LEMMA PlanOperations ==
    ASSUME NEW new, NEW old, NEW drop \in BOOLEAN
    PROVE  LET P == Plan(new, old, drop)
           IN  /\ Len(P) \in Nat /\ DOMAIN P = 1..Len(P)
               /\ \A i \in 1..Len(P) : P[i].to = 0 =>
                    drop /\ new[P[i].object] = 0 /\ old[P[i].object] # 0
               /\ \A i, j \in 1..Len(P) : P[i].object = P[j].object => i = j
<1> DEFINE D == Drops(new, old, drop)
           C == Changed(new, old)
           P == Plan(new, old, drop)
           T == EntriesOf(D) \cup EntriesOf(C)
<1>1. /\ Len(D) \in Nat /\ D \in Seq(EntriesOf(D))
      /\ \A i \in 1..Len(D) :
            drop /\ D[i].to = 0 /\ new[D[i].object] = 0 /\ old[D[i].object] # 0
      /\ \A i, j \in 1..Len(D) : D[i].object = D[j].object => i = j
  BY DropsAreGone
<1>2. /\ Len(C) \in Nat /\ C \in Seq(EntriesOf(C))
      /\ \A i \in 1..Len(C) : C[i].to = new[C[i].object] /\ new[C[i].object] # 0
      /\ \A i, j \in 1..Len(C) : C[i].object = C[j].object => i = j
  BY ChangedAreWanted
<1>3. P = D \o C
  BY DEF Plan
<1> HIDE DEF D, C, P
<1>4. D \in Seq(T) /\ C \in Seq(T)
  BY <1>1, <1>2
<1> HIDE DEF T
<1>5. /\ Len(P) = Len(D) + Len(C) /\ DOMAIN P = 1..Len(P)
      /\ \A i \in 1..Len(D) : P[i] = D[i]
      /\ \A i \in 1..Len(P) : ~(i <= Len(D)) => i - Len(D) \in 1..Len(C) /\ P[i] = C[i - Len(D)]
  BY <1>1, <1>2, <1>3, <1>4
<1>6. ASSUME NEW i \in 1..Len(P), P[i].to = 0
      PROVE  drop /\ new[P[i].object] = 0 /\ old[P[i].object] # 0
  <2>1. CASE i <= Len(D)
    <3>1. i \in 1..Len(D) /\ P[i] = D[i]
      BY <1>1, <1>5, <2>1
    <3> QED
      BY <1>1, <3>1
  <2>2. CASE ~(i <= Len(D))
    <3>1. i - Len(D) \in 1..Len(C) /\ P[i] = C[i - Len(D)]
      BY <1>5, <2>2
    <3> QED
      BY <1>2, <1>6, <3>1
  <2> QED
    BY <2>1, <2>2
<1>7. ASSUME NEW i \in 1..Len(P) PROVE new[P[i].object] = 0 <=> i <= Len(D)
  <2>1. CASE i <= Len(D)
    <3>1. i \in 1..Len(D) /\ P[i] = D[i]
      BY <1>1, <1>2, <1>5, <2>1
    <3> QED
      BY <1>1, <2>1, <3>1
  <2>2. CASE ~(i <= Len(D))
    BY <1>2, <1>5, <2>2
  <2> QED
    BY <2>1, <2>2
<1>8. ASSUME NEW i \in 1..Len(P), NEW j \in 1..Len(P), P[i].object = P[j].object
      PROVE  i = j
  <2>1. CASE i <= Len(D) /\ j <= Len(D)
    BY <1>1, <1>5, <1>8, <2>1
  <2>2. CASE ~(i <= Len(D)) /\ ~(j <= Len(D))
    <3>1. /\ i - Len(D) \in 1..Len(C) /\ P[i] = C[i - Len(D)]
          /\ j - Len(D) \in 1..Len(C) /\ P[j] = C[j - Len(D)]
      BY <1>5, <2>2
    <3>2. i - Len(D) = j - Len(D)
      BY <1>2, <1>8, <3>1
    <3>3. i \in Int /\ j \in Int /\ Len(D) \in Int
      BY <1>1, <1>5
    <3> QED
      BY <3>2, <3>3
  <2> QED
    BY <1>7, <1>8, <2>1, <2>2
<1> QED
  BY <1>1, <1>2, <1>5, <1>6, <1>8 DEF P

(***************************************************************************)
(* What is executed is the plan of the run                                 *)
(***************************************************************************)

PlanInv ==
    /\ args \in Arguments
    /\ pc = "execute" =>
          /\ args.flag = "apply"
          /\ ops = Plan(DesiredOf(args), seen, args.enableDrop)
          /\ kinds = Kinds(ops)

(* Every step keeps it: whatever starts a plan makes it from the arguments *)
(* and from what was exported.                                             *)
LEMMA NextPlanInv == PlanInv /\ [Next]_vars => PlanInv'
<1> SUFFICES ASSUME PlanInv, [Next]_vars PROVE PlanInv'
  OBVIOUS
<1> USE DEF PlanInv
<1>1. CASE Export
  BY <1>1 DEF Export
<1>2. CASE PrintOutput
  BY <1>2 DEF PrintOutput
<1>3. CASE StartPlan
  BY <1>3 DEF StartPlan, Mode
<1>4. CASE ExecuteUnit
  BY <1>4 DEF ExecuteUnit, Exec!ApplyUnit
<1>5. CASE RefuseUnit
  BY <1>5 DEF RefuseUnit, Exec!Fail
<1>6. CASE Return
  BY <1>6 DEF Return
<1>7. CASE Interrupt
  BY <1>7 DEF Interrupt
<1>8. CASE Other
  BY <1>8 DEF Other, runVars
<1>9. CASE \E a \in Arguments : Start(a)
  BY <1>9 DEF Start
<1>10. CASE UNCHANGED vars
  BY <1>10 DEF vars, runVars
<1> QED
  BY <1>1, <1>2, <1>3, <1>4, <1>5, <1>6, <1>7, <1>8, <1>9, <1>10 DEF Next, Run

(* PlanInv holds throughout.                                               *)
LEMMA PlanInvariant == Spec => []PlanInv
<1>1. Init => PlanInv
  BY DEF Init, PlanInv
<1> QED
  BY <1>1, NextPlanInv, PTL DEF Spec

(* The next unit lies within the plan, whose operations are as above.      *)
LEMMA UnitOfPlan ==
    ASSUME PlanInv, pc = "execute"
    PROVE  /\ NextUnit \subseteq DOMAIN ops /\ DOMAIN ops \subseteq Nat
           /\ \A i \in DOMAIN ops : ops[i].to = 0 =>
                args.enableDrop /\ DesiredOf(args)[ops[i].object] = 0 /\ seen[ops[i].object] # 0
           /\ \A i, j \in DOMAIN ops : ops[i].object = ops[j].object => i = j
<1>1. /\ Len(ops) \in Nat /\ DOMAIN ops = 1..Len(ops)
      /\ \A i \in 1..Len(ops) : ops[i].to = 0 =>
            args.enableDrop /\ DesiredOf(args)[ops[i].object] = 0 /\ seen[ops[i].object] # 0
      /\ \A i, j \in 1..Len(ops) : ops[i].object = ops[j].object => i = j
  <2>1. args.enableDrop \in BOOLEAN
    BY ArgumentsAssumption DEF PlanInv
  <2> QED
    BY <2>1, PlanOperations DEF PlanInv
<1>2. Len(kinds) = Len(ops)
  BY <1>1 DEF PlanInv, Kinds
<1>3. Exec!Remaining \subseteq 1..Len(ops)
  BY <1>1, <1>2 DEF Exec!Remaining, Exec!AllSql, Exec!SqlBefore
<1>4. ASSUME NEW i \in 1..Len(ops) PROVE UnitFrom(kinds, i) \subseteq 1..Len(ops)
  BY <1>1, <1>2 DEF UnitFrom, GroupFrom
<1>5. NextUnit \subseteq 1..Len(ops)
  BY <1>3, <1>4 DEF NextUnit
<1> QED
  BY <1>1, <1>5

(* What operations of the plan bring an object to, whether or not they are *)
(* all of it.                                                              *)
LEMMA BroughtTo ==
    ASSUME PlanInv, pc = "execute", NEW d, NEW S, S \subseteq NextUnit,
           NEW i \in S, ops[i].object \in Everything
    PROVE  After(d, S)[ops[i].object] = ops[i].to
<1>1. \A j \in S : ops[j].object = ops[i].object => j = i
  BY UnitOfPlan
<1> QED
  BY <1>1 DEF After

(* Only two actions write to the database.                                 *)
LEMMA WritersOfDb ==
    ASSUME [Next]_vars
    PROVE  db' = db \/ Other \/ ExecuteUnit
BY DEF Next, Run, Export, PrintOutput, StartPlan, RefuseUnit, Return, Interrupt, Start,
       vars

(***************************************************************************)
(* What a run may write                                                    *)
(***************************************************************************)

(* Nothing is written without --apply, and nothing is removed without      *)
(* --enable-drop.                                                          *)
THEOREM WritesAreAskedFor == Spec => WritesOnlyWhatIsAsked
<1> DEFINE Allowed ==
        db' # db => \/ Other
                    \/ /\ args.flag = "apply"
                       /\ (\E o \in Everything : db[o] # 0 /\ db'[o] = 0) => args.enableDrop
<1>1. PlanInv /\ [Next]_vars => [Allowed]_vars
  <2> SUFFICES ASSUME PlanInv, [Next]_vars, db' # db, ~Other PROVE Allowed
    OBVIOUS
  <2>1. ExecuteUnit
    BY WritersOfDb
  <2>2. pc = "execute" /\ db' = After(db, NextUnit)
    BY <2>1 DEF ExecuteUnit
  <2>3. ASSUME NEW o \in Everything, db[o] # 0, db'[o] = 0 PROVE args.enableDrop
    <3>1. PICK i \in NextUnit : ops[i].to = 0
      BY <2>2, <2>3 DEF After
    <3> QED
      BY <2>2, <3>1, UnitOfPlan
  <2>4. args.flag = "apply"
    BY <2>2 DEF PlanInv
  <2> QED
    BY <2>3, <2>4
<1> QED
  BY <1>1, PlanInvariant, PTL DEF Spec, WritesOnlyWhatIsAsked

(* An object the export did not show, made by the other session while the  *)
(* run was on its way, is neither replaced nor altered, and removed only   *)
(* with the table it belongs to, which the run has seen and is asked to    *)
(* drop.                                                                   *)
THEOREM UnseenIsNoTarget == Spec => UnseenGoesOnlyWithItsTable
<1> DEFINE Kept ==
        \A o \in Everything :
            pc = "execute" /\ seen[o] = 0 /\ db[o] # 0 =>
                Other \/ db'[o] = db[o] \/ GoesWithItsTable(o)
<1>1. PlanInv /\ [Next]_vars => [Kept]_vars
  <2> SUFFICES ASSUME PlanInv, [Next]_vars, NEW o \in Everything,
                      pc = "execute", seen[o] = 0, db[o] # 0, ~Other, db'[o] # db[o]
               PROVE  GoesWithItsTable(o)
    OBVIOUS
  <2>1. UnitAccepted(db, NextUnit) /\ db' = After(db, NextUnit)
    BY WritersOfDb DEF ExecuteUnit
  <2>2. ASSUME NEW i \in NextUnit, ops[i].object = o PROVE FALSE
    (***********************************************************************)
    (* The operation creates o, which is there, unless an earlier one of   *)
    (* the unit dropped its table; but then o is not created either.       *)
    (***********************************************************************)
    <3> DEFINE earlier == {j \in NextUnit : j < i}
               d == After(db, earlier)
    <3>1. ops[i].to # 0
      BY <2>2, UnitOfPlan
    <3>2. Accepts(d, ops[i])
      BY <2>1 DEF UnitAccepted
    <3>3. \A j \in earlier : ops[j].object # o
      BY <2>2, UnitOfPlan
    <3>4. d[o] = 0
      BY <2>2, <3>2 DEF Accepts
    <3>5. PICK j \in earlier : ops[j].to = 0 /\ ops[j].object \in OwnerOf(o)
      BY <3>3, <3>4 DEF After
    <3> DEFINE t == ops[j].object
    <3>6. t \in Needs(o) /\ t \in Everything /\ t # o
      BY <3>3, <3>5, OwnerAssumption DEF Everything
    <3>7. d[t] = 0
      BY <3>5, <3>6, BroughtTo
    <3> HIDE DEF d, t
    <3>8. Put(d, ops[i])[o] # 0 /\ Put(d, ops[i])[t] = 0
      BY <2>2, <3>1, <3>6, <3>7 DEF Put
    <3> QED
      BY <3>2, <3>6, <3>8 DEF Accepts, NeedsMet
  <2>3. PICK i \in NextUnit : ops[i].to = 0 /\ ops[i].object \in OwnerOf(o)
    BY <2>1, <2>2 DEF After
  <2>4. db'[o] = 0
    BY <2>1, <2>2, <2>3 DEF After
  <2>5. ops[i].object \in Everything
    BY <2>3, OwnerAssumption DEF Everything
  <2>6. db'[ops[i].object] = 0
    BY <2>1, <2>3, <2>5, BroughtTo
  <2>7. i \in DOMAIN ops
    BY <2>3, UnitOfPlan
  <2>8. /\ seen[ops[i].object] # 0 /\ DesiredOf(args)[ops[i].object] = 0
        /\ args.enableDrop
    BY <2>3, <2>7, UnitOfPlan
  <2> QED
    BY <2>3, <2>4, <2>6, <2>8 DEF GoesWithItsTable
<1> QED
  BY <1>1, PlanInvariant, PTL DEF Spec, UnseenGoesOnlyWithItsTable
===============================================================================
