------------------------- MODULE Deployment_proofs --------------------------
(* Proofs about Deployment, for any commits, revisions, rules and bounds.  *)
EXTENDS Deployment, TLAPS

(* What administrators do to the rules.                                    *)
Rule == \E v \in Commits, rule \in Seeded : AdminDeletes(v, rule) \/ AdminCreates(v, rule)

-----------------------------------------------------------------------------
(* Types                                                                   *)

LEMMA BecomeTyped ==
  ASSUME TypeOK, NEW v \in Commits, NEW p \in Phases \ {"serving"}, Become(v, p)
  PROVE  /\ phase' \in [Commits -> Phases]
         /\ ready' \subseteq {w \in Commits : phase'[w] = "serving"}
         /\ unready' \in [Commits -> 0..Threshold]
         /\ unalive' \in [Commits -> 0..Threshold]
BY DeploymentAssumption DEF TypeOK, Become, Phases

LEMMA ServingTyped ==
  ASSUME TypeOK, NEW v \in Commits, Become(v, "serving")
  PROVE  /\ phase' \in [Commits -> Phases]
         /\ ready' \subseteq {w \in Commits : phase'[w] = "serving"}
         /\ unready' \in [Commits -> 0..Threshold]
         /\ unalive' \in [Commits -> 0..Threshold]
BY DeploymentAssumption DEF TypeOK, Become, Phases

LEMMA TypeStep == TypeOK /\ [Next]_vars => TypeOK'
<1> SUFFICES ASSUME TypeOK, [Next]_vars PROVE TypeOK'
  OBVIOUS
<1> USE DEF cluster, data, ci
<1>1. CASE UNCHANGED vars
  BY <1>1 DEF TypeOK, vars
<1>2. ASSUME NEW v \in Commits, Pipeline(v) PROVE TypeOK'
  <2>1. CASE Push(v)
    BY <2>1 DEF TypeOK, Push, Stages
  <2>2. CASE CheckProvider(v)
    BY <2>2 DEF TypeOK, CheckProvider, Stages
  <2>3. CASE Apply(v)
    BY <2>3 DEF TypeOK, Apply, Tag, Stages
  <2>4. CASE Verify(v)
    BY <2>4 DEF TypeOK, Verify, Stages
  <2>5. QED
    BY <1>2, <2>1, <2>2, <2>3, <2>4 DEF Pipeline
<1>3. ASSUME NEW v \in Commits, Pod(v) PROVE TypeOK'
  <2>1. CASE StopOld(v)
    <3>1. PICK p \in Phases \ {"serving"} : Become(v, p)
      BY <2>1 DEF StopOld, Phases
    <3>2. QED
      BY <2>1, <3>1, BecomeTyped DEF TypeOK, StopOld
  <2>2. CASE Stopped(v)
    BY <2>2, BecomeTyped DEF TypeOK, Stopped, Phases
  <2>3. CASE StartContainer(v)
    BY <2>3, BecomeTyped DEF TypeOK, StartContainer, Phases
  <2>4. CASE Migrate(v)
    <3>1. /\ revision' \in {0} \cup {Head[w] : w \in Commits}
          /\ rules' \subseteq Seeded
          /\ UNCHANGED <<desired, dropped, ci, db, faults>>
      BY <2>4 DEF TypeOK, Migrate
    <3>2. PICK p \in Phases \ {"serving"} : Become(v, p)
      BY <2>4 DEF Migrate, Phases
    <3>3. QED
      BY <3>1, <3>2, BecomeTyped DEF TypeOK
  <2>5. CASE CheckConnection(v)
    BY <2>5, ServingTyped DEF TypeOK, CheckConnection
  <2>6. CASE FailToStart(v)
    BY <2>6, BecomeTyped DEF TypeOK, FailToStart, Phases
  <2>7. QED
    BY <1>3, <2>1, <2>2, <2>3, <2>4, <2>5, <2>6 DEF Pod
<1>4. ASSUME NEW v \in Commits, ProbeReady(v) PROVE TypeOK'
  BY <1>4, DeploymentAssumption DEF TypeOK, ProbeReady
<1>5. ASSUME NEW v \in Commits, ProbeAlive(v) PROVE TypeOK'
  <2>1. CASE UNCHANGED <<phase, ready, unready, faults>>
    BY <1>5, <2>1, DeploymentAssumption DEF TypeOK, ProbeAlive
  <2>2. CASE Become(v, "none") /\ faults' = faults + 1
    <3>1. faults' \in 0..MaxFaults
      BY <1>5, <2>2, DeploymentAssumption DEF TypeOK, ProbeAlive
    <3>2. QED
      BY <1>5, <2>2, <3>1, BecomeTyped DEF TypeOK, ProbeAlive, Phases
  <2>3. QED
    BY <1>5, <2>1, <2>2 DEF ProbeAlive
<1>6. ASSUME NEW v \in Commits, Die(v) PROVE TypeOK'
  <2>1. faults' \in 0..MaxFaults
    BY <1>6, DeploymentAssumption DEF TypeOK, Die
  <2>2. QED
    BY <1>6, <2>1, BecomeTyped DEF TypeOK, Die, Phases
<1>7. ASSUME NEW how \in {"refusing", "hanging"}, DatabaseFails(how) PROVE TypeOK'
  BY <1>7, DeploymentAssumption DEF TypeOK, DatabaseFails
<1>8. CASE DatabaseReturns
  BY <1>8 DEF TypeOK, DatabaseReturns
<1>9. CASE Rule
  BY <1>9 DEF TypeOK, Rule, AdminDeletes, AdminCreates
<1>10. QED
  BY <1>1, <1>2, <1>3, <1>4, <1>5, <1>6, <1>7, <1>8, <1>9 DEF Next, NothingDeployed, Rule

LEMMA InitTyped == Init => TypeOK
<1> SUFFICES ASSUME Init PROVE TypeOK
  OBVIOUS
<1> USE DEF Init
<1>1. 0 \in 0..Threshold /\ 0 \in 0..MaxFaults
  BY DeploymentAssumption
<1>2. unready \in [Commits -> 0..Threshold] /\ unalive \in [Commits -> 0..Threshold]
  BY <1>1
<1>3. pipe \in [Commits -> Stages] /\ phase \in [Commits -> Phases]
  BY DEF Stages, Phases
<1>4. QED
  BY <1>1, <1>2, <1>3 DEF TypeOK

(* Every variable keeps its type, and only pods that serve are ready.      *)
THEOREM TypeCorrect == Spec => []TypeOK
<1>1. QED
  BY InitTyped, TypeStep, PTL DEF Spec

-----------------------------------------------------------------------------
(* The schema                                                              *)

(* There is one pod, and past its migration it has the schema it knows.    *)
SchemaInv ==
  /\ \A v, w \in Commits : phase[v] # "none" /\ phase[w] # "none" => v = w
  /\ \A v \in Commits : phase[v] \in {"checking", "serving", "stopping"} => revision = Head[v]

(* A pod that ends or goes on does no harm; one that was not there starts  *)
(* only when no other is.                                                  *)
LEMMA BecomeKeepsSchema ==
  ASSUME TypeOK, SchemaInv, NEW v \in Commits, NEW p \in Phases, Become(v, p),
         UNCHANGED revision,
         phase[v] # "none" \/ MayStart(v),
         p \in {"checking", "serving", "stopping"} => revision = Head[v]
  PROVE  SchemaInv'
<1>1. phase' = [phase EXCEPT ![v] = p]
  BY DEF Become
<1>2. QED
  BY <1>1 DEF TypeOK, SchemaInv, MayStart

LEMMA SchemaStep == TypeOK /\ SchemaInv /\ [Next]_vars => SchemaInv'
<1> SUFFICES ASSUME TypeOK, SchemaInv, [Next]_vars PROVE SchemaInv'
  OBVIOUS
<1>1. CASE UNCHANGED <<phase, revision>>
  BY <1>1 DEF SchemaInv
<1>2. ASSUME NEW v \in Commits, Pod(v) PROVE SchemaInv'
  <2>1. CASE StopOld(v)
    BY <2>1, BecomeKeepsSchema DEF StopOld, data, Phases, SchemaInv
  <2>2. CASE Stopped(v)
    BY <2>2, BecomeKeepsSchema DEF Stopped, data, Phases
  <2>3. CASE StartContainer(v)
    BY <2>3, BecomeKeepsSchema DEF StartContainer, data, Phases
  <2>4. CASE Migrate(v)
    <3>1. CASE revision' = Head[v] /\ Become(v, "checking")
      <4>1. phase' = [phase EXCEPT ![v] = "checking"]
        BY <3>1 DEF Become
      <4>2. \A w \in Commits \ {v} : phase[w] = "none"
        BY <2>4 DEF Migrate, SchemaInv
      <4>3. QED
        BY <3>1, <4>1, <4>2 DEF TypeOK, SchemaInv
    <3>2. CASE Become(v, "none") /\ UNCHANGED revision
      BY <2>4, <3>2, BecomeKeepsSchema DEF Migrate, Phases
    <3>3. QED
      BY <2>4, <3>1, <3>2 DEF Migrate
  <2>5. CASE CheckConnection(v)
    BY <2>5, BecomeKeepsSchema DEF CheckConnection, data, Phases, SchemaInv
  <2>6. CASE FailToStart(v)
    BY <2>6, BecomeKeepsSchema DEF FailToStart, data, Phases
  <2>7. QED
    BY <1>2, <2>1, <2>2, <2>3, <2>4, <2>5, <2>6 DEF Pod
<1>3. ASSUME NEW v \in Commits, ProbeAlive(v) PROVE SchemaInv'
  BY <1>1, <1>3, BecomeKeepsSchema DEF ProbeAlive, data, Phases
<1>4. ASSUME NEW v \in Commits, Die(v) PROVE SchemaInv'
  BY <1>4, BecomeKeepsSchema DEF Die, data, Phases
<1>5. ASSUME NEW v \in Commits, Pipeline(v) \/ ProbeReady(v) PROVE UNCHANGED <<phase, revision>>
  BY <1>5 DEF Pipeline, Push, CheckProvider, Apply, Verify, ProbeReady, cluster, data
<1>6. (\E how \in {"refusing", "hanging"} : DatabaseFails(how)) \/ DatabaseReturns \/ Rule
        \/ NothingDeployed \/ UNCHANGED vars => UNCHANGED <<phase, revision>>
  BY DEF DatabaseFails, DatabaseReturns, Rule, AdminDeletes, AdminCreates, NothingDeployed,
         vars, cluster, data
<1>7. QED
  BY <1>1, <1>2, <1>3, <1>4, <1>5, <1>6 DEF Next, Rule

LEMMA InitSchema == Init => SchemaInv
BY DEF Init, SchemaInv

(* Nobody serves on a schema of another commit.                            *)
THEOREM SchemaServed == Spec => []ServesItsSchema
<1>1. SchemaInv => ServesItsSchema
  BY DEF SchemaInv, ServesItsSchema
<1>2. QED
  BY <1>1, InitSchema, SchemaStep, TypeCorrect, PTL DEF Spec

-----------------------------------------------------------------------------
(* The seed                                                                *)

(* Before the seed there is nothing to delete.                             *)
SeedInv ==
  /\ revision < SeedRev => rules = {} /\ dropped = {}
  /\ dropped \cap rules = {}

LEMMA SeedStep == TypeOK /\ SchemaInv /\ SeedInv /\ [Next]_vars => SeedInv'
<1> SUFFICES ASSUME TypeOK, SchemaInv, SeedInv, [Next]_vars PROVE SeedInv'
  OBVIOUS
<1>1. CASE UNCHANGED data
  BY <1>1 DEF SeedInv, data
<1>2. ASSUME NEW v \in Commits, Migrate(v) PROVE SeedInv'
  <2>1. revision \in Nat /\ Head[v] \in Nat /\ SeedRev \in Nat
    BY DeploymentAssumption DEF TypeOK
  <2>2. CASE /\ revision <= Head[v] /\ revision' = Head[v]
             /\ rules' = IF Seeds(v) THEN rules \cup Seeded ELSE rules
    BY <1>2, <2>1, <2>2 DEF Migrate, Seeds, SeedInv
  <2>3. CASE UNCHANGED <<revision, rules>>
    BY <1>2, <2>3 DEF Migrate, SeedInv
  <2>4. QED
    BY <1>2, <2>2, <2>3 DEF Migrate
<1>3. CASE Rule
  <2>1. PICK v \in Commits, rule \in Seeded : AdminDeletes(v, rule) \/ AdminCreates(v, rule)
    BY <1>3 DEF Rule
  <2>2. CASE AdminDeletes(v, rule)
    BY <2>2 DEF AdminDeletes, SeedInv
  <2>3. CASE AdminCreates(v, rule)
    BY <2>3 DEF AdminCreates, SeedInv
  <2>4. QED
    BY <2>1, <2>2, <2>3
<1>4. ASSUME NEW v \in Commits, Pipeline(v) \/ ProbeReady(v) \/ ProbeAlive(v) \/ Die(v)
      PROVE  UNCHANGED data
  BY <1>4 DEF Pipeline, Push, CheckProvider, Apply, Verify, ProbeReady, ProbeAlive, Die
<1>5. ASSUME NEW v \in Commits, Pod(v), ~Migrate(v) PROVE UNCHANGED data
  BY <1>5 DEF Pod, StopOld, Stopped, StartContainer, CheckConnection, FailToStart
<1>6. (\E how \in {"refusing", "hanging"} : DatabaseFails(how)) \/ DatabaseReturns
        \/ NothingDeployed \/ UNCHANGED vars => UNCHANGED data
  BY DEF DatabaseFails, DatabaseReturns, NothingDeployed, vars
<1>7. QED
  BY <1>1, <1>2, <1>3, <1>4, <1>5, <1>6 DEF Next, Rule

LEMMA InitSeed == Init => SeedInv
BY DEF Init, SeedInv

(* What an administrator has deleted stays deleted, restart or not.        *)
THEOREM DeletionsLast == Spec => []DeletedRulesStayDeleted
<1>1. SeedInv => DeletedRulesStayDeleted
  BY DEF SeedInv, DeletedRulesStayDeleted
<1>2. [](TypeOK /\ SchemaInv) /\ Init /\ [][Next]_vars => []SeedInv
  BY InitSeed, SeedStep, PTL
<1>3. Spec => []SchemaInv
  BY InitSchema, SchemaStep, TypeCorrect, PTL DEF Spec
<1>4. QED
  BY <1>1, <1>2, <1>3, TypeCorrect, PTL DEF Spec

-----------------------------------------------------------------------------
(* The pipelines                                                           *)

(* Commits are pushed in order, and what was applied was pushed; while no  *)
(* two pipelines have overlapped the one that runs is the latest, and the  *)
(* manifest names the latest that was applied.                             *)
Pushed(v) == pipe[v] # "none"

PipeInv ==
  /\ \A v, w \in Commits : w < v /\ Pushed(v) => Pushed(w)
  /\ \A v \in applied : Pushed(v)
  /\ ~overlapped =>
       /\ \A v \in Running, w \in Commits : Pushed(w) => w <= v
       /\ \A v \in applied : v <= desired

(* A pod runs a commit that was applied, and so does the database.         *)
RevisionInv ==
  /\ \A v \in Commits : phase[v] # "none" => v \in applied
  /\ revision \in {0} \cup {Head[v] : v \in applied}

LEMMA PipeStep == TypeOK /\ PipeInv /\ [Next]_vars => PipeInv'
<1> SUFFICES ASSUME TypeOK, PipeInv, [Next]_vars PROVE PipeInv'
  OBVIOUS
<1> USE DEF PipeInv, Pushed, Running
<1>1. CASE UNCHANGED <<ci, desired>>
  BY <1>1 DEF ci
<1>2. ASSUME NEW v \in Commits, Push(v) PROVE PipeInv'
  <2>1. \A w \in Commits : w \in Nat
    BY DeploymentAssumption
  <2>2. pipe' = [pipe EXCEPT ![v] = "gate"] /\ UNCHANGED <<applied, desired>>
    BY <1>2 DEF Push, cluster
  <2>3. \A w \in Commits : pipe[w] # "none" => w < v
    BY <1>2, <2>1 DEF Push
  <2>4. ~overlapped' => ~overlapped /\ Running = {}
    BY <1>2 DEF Push, TypeOK
  <2>5. QED
    BY <1>2, <2>1, <2>2, <2>3, <2>4 DEF TypeOK, Push
<1>3. ASSUME NEW v \in Commits, CheckProvider(v) \/ Verify(v) PROVE PipeInv'
  <2>1. PICK s \in {"apply", "done", "failed"} : pipe' = [pipe EXCEPT ![v] = s]
    BY <1>3 DEF CheckProvider, Verify
  <2>2. v \in Running /\ UNCHANGED <<applied, overlapped, desired>>
    BY <1>3 DEF CheckProvider, Verify, cluster
  <2>3. QED
    BY <2>1, <2>2 DEF TypeOK
<1>4. ASSUME NEW v \in Commits, Apply(v) PROVE PipeInv'
  <2>1. PICK s \in {"verify", "failed"} : pipe' = [pipe EXCEPT ![v] = s]
    BY <1>4 DEF Apply
  <2>2. v \in Running /\ pipe[v] # "none" /\ UNCHANGED overlapped
    BY <1>4 DEF Apply
  <2>3. v \in Nat /\ applied \subseteq Commits
    BY DeploymentAssumption DEF TypeOK
  <2>4. CASE desired' = v /\ applied' = applied \cup {v}
    BY <2>1, <2>2, <2>3, <2>4 DEF TypeOK
  <2>5. CASE UNCHANGED <<desired, applied>>
    BY <2>1, <2>2, <2>5 DEF TypeOK
  <2>6. QED
    BY <1>4, <2>4, <2>5 DEF Apply, Tag
<1>5. ASSUME NEW v \in Commits, Pod(v) \/ ProbeReady(v) \/ ProbeAlive(v) \/ Die(v)
      PROVE  UNCHANGED <<ci, desired>>
  BY <1>5 DEF Pod, StopOld, Stopped, StartContainer, Migrate, CheckConnection, FailToStart,
              ProbeReady, ProbeAlive, Die
<1>6. (\E how \in {"refusing", "hanging"} : DatabaseFails(how)) \/ DatabaseReturns \/ Rule
        \/ NothingDeployed \/ UNCHANGED vars => UNCHANGED <<ci, desired>>
  BY DEF DatabaseFails, DatabaseReturns, Rule, AdminDeletes, AdminCreates, NothingDeployed,
         vars, cluster
<1>7. QED
  BY <1>1, <1>2, <1>3, <1>4, <1>5, <1>6 DEF Next, Rule, Pipeline

LEMMA RevisionStep == TypeOK /\ RevisionInv /\ [Next]_vars => RevisionInv'
<1> SUFFICES ASSUME TypeOK, RevisionInv, [Next]_vars PROVE RevisionInv'
  OBVIOUS
<1> USE DEF RevisionInv
<1>1. ASSUME NEW v \in Commits, NEW p \in Phases, Become(v, p), v \in applied,
             UNCHANGED <<applied, revision>>
      PROVE  RevisionInv'
  BY <1>1 DEF TypeOK, Become
<1>2. CASE UNCHANGED <<phase, applied, revision>>
  BY <1>2
<1>3. ASSUME NEW v \in Commits, Pod(v) PROVE RevisionInv'
  <2>1. CASE Migrate(v)
    <3>1. v \in applied /\ UNCHANGED applied
      BY <2>1 DEF Migrate, ci
    <3>2. CASE revision' = Head[v] /\ Become(v, "checking")
      BY <3>1, <3>2 DEF TypeOK, Become
    <3>3. CASE UNCHANGED revision /\ Become(v, "none")
      BY <1>1, <3>1, <3>3 DEF Phases
    <3>4. QED
      BY <2>1, <3>2, <3>3 DEF Migrate
  <2>2. CASE StartContainer(v)
    <3>1. v \in applied
      BY <2>2, DeploymentAssumption DEF StartContainer, TypeOK
    <3>2. QED
      BY <1>1, <2>2, <3>1 DEF StartContainer, ci, data, Phases
  <2>3. CASE StopOld(v)
    BY <1>1, <2>3 DEF StopOld, ci, data, Phases
  <2>4. CASE Stopped(v)
    BY <1>1, <2>4 DEF Stopped, ci, data, Phases
  <2>5. CASE CheckConnection(v) \/ FailToStart(v)
    BY <1>1, <2>5 DEF CheckConnection, FailToStart, ci, data, Phases
  <2>6. QED
    BY <1>3, <2>1, <2>2, <2>3, <2>4, <2>5 DEF Pod
<1>4. ASSUME NEW v \in Commits, ProbeAlive(v) \/ Die(v) PROVE RevisionInv'
  <2>1. UNCHANGED <<applied, revision>>
    BY <1>4 DEF ProbeAlive, Die, ci, data
  <2>2. UNCHANGED phase \/ (phase[v] # "none" /\ Become(v, "none"))
    BY <1>4 DEF ProbeAlive, Die
  <2>3. QED
    BY <1>1, <1>2, <2>1, <2>2 DEF Phases
<1>5. ASSUME NEW v \in Commits, Apply(v) PROVE RevisionInv'
  BY <1>5 DEF Apply, data
<1>6. ASSUME NEW v \in Commits, Push(v) \/ CheckProvider(v) \/ Verify(v) \/ ProbeReady(v)
      PROVE  UNCHANGED <<phase, applied, revision>>
  BY <1>6 DEF Push, CheckProvider, Verify, ProbeReady, cluster, data, ci
<1>7. (\E how \in {"refusing", "hanging"} : DatabaseFails(how)) \/ DatabaseReturns \/ Rule
        \/ NothingDeployed \/ UNCHANGED vars => UNCHANGED <<phase, applied, revision>>
  BY DEF DatabaseFails, DatabaseReturns, Rule, AdminDeletes, AdminCreates, NothingDeployed,
         vars, cluster, data, ci
<1>8. QED
  BY <1>2, <1>3, <1>4, <1>5, <1>6, <1>7 DEF Next, Rule, Pipeline

LEMMA InitPipe == Init => PipeInv /\ RevisionInv
BY DEF Init, PipeInv, RevisionInv, Pushed, Running

(* Without overlapping pipelines no old commit comes back, and no pod is   *)
(* locked out of the database.                                             *)
THEOREM NeverBehindInTurn == Spec => []BehindOnlyByOverlap
<1>1. TypeOK /\ PipeInv /\ RevisionInv => BehindOnlyByOverlap
  <2> SUFFICES ASSUME TypeOK, PipeInv, RevisionInv, ~overlapped PROVE
         /\ \A v \in applied : v <= desired
         /\ desired # 0 => revision <= Head[desired]
    BY DEF BehindOnlyByOverlap
  <2>1. \A v \in applied : v <= desired
    BY DEF PipeInv
  <2>2. CASE revision = 0 /\ desired # 0
    <3>1. Head[desired] \in Nat
      BY <2>2, DeploymentAssumption DEF TypeOK
    <3>2. QED
      BY <2>1, <2>2, <3>1
  <2>3. CASE revision # 0 /\ desired # 0
    <3>1. PICK v \in applied : revision = Head[v]
      BY <2>3 DEF RevisionInv
    <3>2. v \in Commits /\ desired \in Commits /\ v <= desired
      BY <2>1, <2>3, <3>1 DEF TypeOK
    <3>3. QED
      BY <2>1, <3>1, <3>2, DeploymentAssumption
  <2>4. QED
    BY <2>1, <2>2, <2>3
<1>2. QED
  BY <1>1, InitPipe, PipeStep, RevisionStep, TypeCorrect, PTL DEF Spec

=============================================================================
