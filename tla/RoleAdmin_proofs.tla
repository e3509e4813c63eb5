-------------------------- MODULE RoleAdmin_proofs --------------------------
(* Proofs about RoleRules and RoleAdmin, for any users, roles, requests    *)
(* and things requests may ask for.                                        *)
EXTENDS RoleAdmin, TLAPS

-----------------------------------------------------------------------------
(* The matrix                                                              *)

(* The highest role of the actor decides, in the rules as in the matrix.   *)
LEMMA HighestRoleDecides ==
  ASSUME NEW self \in BOOLEAN, NEW actor, NEW target
  PROVE  /\ CanView(self, actor, target) <=> Column(self, target) \in Sees[Row(actor)]
         /\ CanUpdate(self, actor, target) <=> Column(self, target) \in Updates[Row(actor)]
         /\ CanDelete(self, actor, target) <=> Column(self, target) \in Deletes[Row(actor)]
<1> USE DEF Column, Row, Sees, Updates, Deletes, Super, Ordinary, Privileged
<1>1. CanView(self, actor, target) <=> Column(self, target) \in Sees[Row(actor)]
  BY DEF CanView
<1>2. CanUpdate(self, actor, target) <=> Column(self, target) \in Updates[Row(actor)]
  BY DEF CanUpdate
<1>3. CanDelete(self, actor, target) <=> Column(self, target) \in Deletes[Row(actor)]
  BY DEF CanDelete
<1>4. QED
  BY <1>1, <1>2, <1>3

(* In every state the code decides as the README's matrix does.            *)
THEOREM MatrixIsImplemented == Spec => []MatrixHolds
<1>1. MatrixHolds
  BY HighestRoleDecides DEF MatrixHolds
<1>2. QED
  BY <1>1, PTL

-----------------------------------------------------------------------------
(* Typing                                                                  *)

LEMMA InitTyped == Init => TypeOK
BY RoleAdminAssumption DEF Init, TypeOK, Labels, Outcomes, InFlight

LEMMA EndTyped ==
  ASSUME TypeOK, NEW r \in Reqs, NEW o \in Outcomes, End(r, o),
         UNCHANGED <<tables, job, held, effect, seen, final>>
  PROVE  TypeOK'
BY DEF TypeOK, End, Labels, tables, InFlight, UserRow, RoleRow

LEMMA FailTyped ==
  ASSUME TypeOK, NEW r \in Reqs, Fail(r)
  PROVE  TypeOK'
BY DEF TypeOK, Fail, End, Labels, Outcomes, tables, InFlight, UserRow, RoleRow

(* A request goes on without writing.                                      *)
LEMMA GotoTyped ==
  ASSUME TypeOK, NEW r \in Reqs, NEW l \in Labels \ {"idle", "done"}, r \in InFlight, Goto(r, l),
         UNCHANGED <<tables, job, result, held, locked, effect, seen, final>>
  PROVE  TypeOK'
BY DEF TypeOK, Goto, tables, InFlight, UserRow, RoleRow

-----------------------------------------------------------------------------
(* The inductive invariant                                                 *)

Same(q) ==
  /\ pc'[q] = pc[q] /\ job'[q] = job[q] /\ result'[q] = result[q] /\ held'[q] = held[q]
  /\ locked'[q] = locked[q] /\ effect'[q] = effect[q] /\ seen'[q] = seen[q]

(* While the tables stay as they are a request is concerned by its own     *)
(* steps only.                                                             *)
LEMMA Frame ==
  ASSUME Inv, UNCHANGED tables, NEW q \in Reqs, Same(q)
  PROVE  RequestInv(q)'
<1> USE DEF Inv, RequestInv, Same, tables
<1>1. WitnessInv(q)'
  BY DEF WitnessInv, InFlight
<1>2. ProgressInv(q)'
  BY DEF ProgressInv, Entitled
<1>3. WriteInv(q)'
  BY DEF WriteInv, RoleRow, UserRow
<1>4. AnswerInv(q)'
  BY DEF AnswerInv, InFlight, Entitled
<1>5. QED
  BY <1>1, <1>2, <1>3, <1>4

(* A failed request has changed nothing and claims nothing.                *)
LEMMA FailInv ==
  ASSUME Inv, NEW r \in Reqs, Fail(r), ~effect[r]
  PROVE  Inv'
<1>1. TypeOK'
  BY FailTyped DEF Inv
<1>2. RequestInv(r)'
  BY DEF Inv, TypeOK, Fail, End, RequestInv, WitnessInv, ProgressInv, WriteInv, AnswerInv, InFlight
<1>3. ASSUME NEW q \in Reqs \ {r} PROVE RequestInv(q)'
  <2>1. Same(q) /\ UNCHANGED tables
    BY DEF Inv, TypeOK, Fail, End, Same
  <2>2. QED
    BY <2>1, Frame
<1>4. QED
  BY <1>1, <1>2, <1>3 DEF Inv

(* A request that is over is judged by its answer.                         *)
LEMMA EndInv ==
  ASSUME Inv, NEW r \in Reqs, NEW o \in Outcomes, End(r, o),
         UNCHANGED <<tables, job, held, effect, seen, final>>, AnswerInv(r)'
  PROVE  Inv'
<1>1. TypeOK'
  BY EndTyped DEF Inv
<1>2. RequestInv(r)'
  BY DEF Inv, TypeOK, End, RequestInv, WitnessInv, ProgressInv, WriteInv, InFlight
<1>3. ASSUME NEW q \in Reqs \ {r} PROVE RequestInv(q)'
  <2>1. Same(q)
    BY DEF Inv, TypeOK, End, Same
  <2>2. QED
    BY <2>1, Frame DEF tables
<1>4. QED
  BY <1>1, <1>2, <1>3 DEF Inv

(* A request that goes on has to justify its progress.                     *)
LEMMA GotoInv ==
  ASSUME Inv, NEW r \in Reqs, NEW l \in Labels \ {"idle", "done", "reread"}, r \in InFlight,
         pc[r] # "reread", Goto(r, l),
         UNCHANGED <<tables, job, result, held, locked, effect, seen, final>>,
         ProgressInv(r)', WriteInv(r)'
  PROVE  Inv'
<1>1. TypeOK'
  BY GotoTyped DEF Inv
<1>2. pc' = [pc EXCEPT ![r] = l] /\ pc'[r] = l
  BY DEF Inv, TypeOK, Goto
<1>3. WitnessInv(r)'
  BY <1>2 DEF Inv, RequestInv, WitnessInv, InFlight, tables
<1>4. AnswerInv(r)'
  BY <1>2 DEF Inv, RequestInv, AnswerInv, InFlight
<1>5. ASSUME NEW q \in Reqs \ {r} PROVE RequestInv(q)'
  <2>1. Same(q)
    BY <1>2 DEF Inv, TypeOK, Same
  <2>2. QED
    BY <2>1, Frame DEF tables
<1>6. QED
  BY <1>1, <1>3, <1>4, <1>5 DEF Inv, RequestInv

(* Nothing was changed by a request that has not committed.                *)
LEMMA NoEffectYet ==
  ASSUME Inv, NEW r \in Reqs, pc[r] \notin {"reread", "done"}
  PROVE  ~effect[r]
BY DEF Inv, RequestInv, AnswerInv

LEMMA AuthSelectUserInv ==
  ASSUME Inv, NEW r \in Reqs, NEW j \in Jobs, AuthSelectUser(r, j)
  PROVE  Inv'
<1> USE DEF AuthSelectUser
<1>1. CASE Fail(r)
  BY <1>1, NoEffectYet, FailInv
<1>2. CASE /\ j.actor \notin deleted
           /\ job' = [job EXCEPT ![r] = j]
           /\ seen' = [seen EXCEPT ![r] = Facts(granted, deleted, j)]
           /\ Goto(r, "roles")
           /\ UNCHANGED <<tables, result, held, locked, effect, final>>
  <2> USE <1>2 DEF Goto, tables
  <2>1. Facts(granted, deleted, j) \subseteq FactNames /\ "actor" \in Facts(granted, deleted, j)
    BY DEF Facts, FactNames
  <2>2. TypeOK'
    BY <2>1 DEF Inv, TypeOK, Labels, InFlight, UserRow, RoleRow
  <2>3. RequestInv(r)'
    BY <2>1, NoEffectYet
       DEF Inv, TypeOK, RequestInv, WitnessInv, ProgressInv, WriteInv, AnswerInv, InFlight
  <2>4. ASSUME NEW q \in Reqs \ {r} PROVE RequestInv(q)'
    <3>1. Same(q)
      BY DEF Inv, TypeOK, Same
    <3>2. QED
      BY <3>1, Frame
  <2>5. QED
    BY <2>2, <2>3, <2>4 DEF Inv
<1>3. QED
  BY <1>1, <1>2

LEMMA AuthSelectRolesInv ==
  ASSUME Inv, NEW r \in Reqs, AuthSelectRoles(r)
  PROVE  Inv'
<1> DEFINE roles == ActorRoles(job[r].actor)
<1>1. CASE Fail(r)
  BY <1>1, NoEffectYet, FailInv DEF AuthSelectRoles
<1>2. CASE /\ job[r].kind \notin RoleKinds \/ ~Ordinary(roles)
           /\ held' = [held EXCEPT ![r] = roles]
           /\ Goto(r, "target")
           /\ UNCHANGED <<tables, job, result, locked, effect, seen, final>>
  <2> USE <1>2 DEF Goto, tables, AuthSelectRoles
  <2>1. job[r] \in Jobs /\ job[r].actor \in Users /\ roles \subseteq Roles
    BY RoleAdminAssumption DEF Inv, TypeOK, RequestInv, AnswerInv, InFlight, ActorRoles
  <2>2. /\ Super(roles) => "super" \in seen[r]
        /\ ~Super(roles) => "plain" \in seen[r]
        /\ ~Ordinary(roles) => "entitled" \in seen[r]
        /\ "manager" \in roles => "manager" \in seen[r]
    BY DEF Inv, RequestInv, WitnessInv, InFlight, Facts, FactNames, ActorRoles
  <2>3. TypeOK'
    BY <2>1 DEF Inv, TypeOK, Labels, InFlight, UserRow, RoleRow
  <2>4. pc'[r] = "target" /\ held'[r] = roles
    BY DEF Inv, TypeOK
  <2>5. WitnessInv(r)' /\ WriteInv(r)' /\ AnswerInv(r)'
    BY <2>4, NoEffectYet DEF Inv, RequestInv, WitnessInv, WriteInv, AnswerInv, InFlight
  <2>6. ProgressInv(r)'
    BY <2>2, <2>4 DEF ProgressInv
  <2>7. ASSUME NEW q \in Reqs \ {r} PROVE RequestInv(q)'
    <3>1. Same(q)
      BY DEF Inv, TypeOK, Same
    <3>2. QED
      BY <3>1, Frame
  <2>8. QED
    BY <2>3, <2>5, <2>6, <2>7 DEF Inv, RequestInv
<1>3. QED
  BY <1>1, <1>2 DEF AuthSelectRoles

LEMMA SelectTargetInv ==
  ASSUME Inv, NEW r \in Reqs, SelectTarget(r)
  PROVE  Inv'
<1>1. CASE Fail(r)
  BY <1>1, NoEffectYet, FailInv DEF SelectTarget
<1>2. CASE /\ job[r].target \notin deleted
           /\ Goto(r, "permit")
           /\ UNCHANGED <<tables, job, result, held, locked, effect, seen, final>>
  <2> USE <1>2 DEF SelectTarget
  <2>1. "target" \in seen[r]
    BY DEF Inv, RequestInv, WitnessInv, InFlight, Facts, FactNames
  <2>2. pc'[r] = "permit"
    BY DEF Inv, TypeOK, Goto
  <2>3. ProgressInv(r)' /\ WriteInv(r)'
    BY <2>1, <2>2 DEF Inv, RequestInv, ProgressInv, WriteInv, Labels
  <2>4. QED
    BY <2>3, GotoInv DEF Labels, InFlight
<1>3. QED
  BY <1>1, <1>2 DEF SelectTarget

(* The roles of the target allow what those of the actor did.              *)
LEMMA PermittedEntitled ==
  ASSUME Inv, NEW r \in Reqs, pc[r] = "permit", Permitted(r)
  PROVE  Entitled(r)
<1>1. /\ Super(held[r]) => "super" \in seen[r]
      /\ ~Super(held[r]) => "plain" \in seen[r]
      /\ ~Ordinary(held[r]) => "entitled" \in seen[r]
      /\ "manager" \in held[r] => "manager" \in seen[r]
      /\ job[r].kind \in RoleKinds => ~Ordinary(held[r])
  BY DEF Inv, RequestInv, ProgressInv, Labels
<1>2. Ordinary(granted[job[r].target]) => "open" \in seen[r]
  BY DEF Inv, RequestInv, WitnessInv, InFlight, Facts, FactNames
<1>3. "admin" \in held[r] => ~Ordinary(held[r])
  BY DEF Ordinary, Privileged
<1>4. Super(held[r]) => ~Ordinary(held[r])
  BY DEF Super, Ordinary, Privileged
<1>5. job[r].kind \in Kinds
  BY RoleAdminAssumption DEF Inv, RequestInv, AnswerInv, InFlight
<1> USE <1>1, <1>2, <1>3, <1>4 DEF Permitted, Entitled, EntitledBy
<1>6. CASE job[r].kind = "delete"
  BY <1>6 DEF CanDelete
<1>7. CASE job[r].kind = "update"
  BY <1>7 DEF CanUpdate
<1>8. CASE job[r].kind = "view"
  BY <1>8 DEF CanView
<1>9. CASE job[r].kind \in RoleKinds
  BY <1>9 DEF CanManage, RoleKinds
<1>10. QED
  BY <1>5, <1>6, <1>7, <1>8, <1>9 DEF Kinds

LEMMA SelectTargetRolesInv ==
  ASSUME Inv, NEW r \in Reqs, SelectTargetRoles(r)
  PROVE  Inv'
<1>1. CASE Fail(r)
  BY <1>1, NoEffectYet, FailInv DEF SelectTargetRoles
<1>2. ASSUME Permitted(r),
             NEW l \in AfterPermit(job[r].kind), Goto(r, l),
             UNCHANGED <<tables, job, result, held, locked, effect, seen, final>>
      PROVE  Inv'
  <2> USE <1>2 DEF SelectTargetRoles
  <2>1. Entitled(r)
    BY PermittedEntitled
  <2>2. job[r].kind \in Kinds
    BY RoleAdminAssumption DEF Inv, RequestInv, AnswerInv, InFlight
  <2>3. /\ l \in {"lookup", "flush", "commit", "show"}
        /\ l = "lookup" => job[r].kind \in RoleKinds
        /\ l \in {"flush", "commit"} => job[r].kind \in {"delete", "update"}
        /\ l = "commit" => job[r].kind = "update"
        /\ l = "show" => job[r].kind = "view"
    BY <2>2 DEF AfterPermit, Kinds
  <2>4. pc'[r] = l /\ UNCHANGED <<job, held, seen, locked>>
    BY DEF Inv, TypeOK, Goto
  <2>5. ProgressInv(r)'
    BY <2>1, <2>3, <2>4 DEF Inv, RequestInv, ProgressInv, Labels, Entitled
  <2>6. locked[r] = {}
    BY DEF Inv, RequestInv, WriteInv, Labels
  <2>7. WriteInv(r)'
    BY <2>3, <2>4, <2>6 DEF WriteInv, RoleKinds
  <2>8. QED
    BY <2>3, <2>5, <2>7, GotoInv DEF Labels, InFlight
<1>3. QED
  BY <1>1, <1>2 DEF SelectTargetRoles

LEMMA LookupRowInv ==
  ASSUME Inv, NEW r \in Reqs, LookupRow(r)
  PROVE  Inv'
<1>1. CASE Fail(r)
  BY <1>1, NoEffectYet, FailInv DEF LookupRow
<1>2. CASE /\ job[r].role \in Roles
           /\ Goto(r, AfterLookup(r))
           /\ UNCHANGED <<tables, job, result, held, locked, effect, seen, final>>
  <2> USE <1>2 DEF LookupRow
  <2>1. /\ RowExists(r) => "member" \in seen[r]
        /\ ~RowExists(r) => "stranger" \in seen[r]
    BY DEF Inv, RequestInv, WitnessInv, InFlight, Facts, FactNames, RowExists
  <2>2. pc'[r] = AfterLookup(r) /\ job[r].kind \in RoleKinds /\ locked[r] = {}
    BY DEF Inv, TypeOK, Goto, RequestInv, WriteInv, Labels
  <2>3. ProgressInv(r)'
    BY <2>2 DEF Inv, RequestInv, ProgressInv, Labels, Entitled, AfterLookup
  <2>4. WriteInv(r)'
    BY <2>1, <2>2 DEF Inv, RequestInv, WriteInv, AfterLookup, RoleKinds
  <2>5. QED
    BY <2>3, <2>4, GotoInv DEF Labels, InFlight, AfterLookup
<1>3. QED
  BY <1>1, <1>2 DEF LookupRow

LEMMA FlushInv ==
  ASSUME Inv, NEW r \in Reqs, Flush(r)
  PROVE  Inv'
<1> USE DEF Flush
<1>1. CASE job[r].kind = "assign" /\ RowExists(r)
  <2>1. End(r, "conflict") /\ UNCHANGED <<tables, job, held, effect, seen, final>>
    BY <1>1
  <2>2. "member" \in seen[r] /\ "stranger" \in seen[r]
    BY <1>1 DEF Inv, RequestInv, WitnessInv, WriteInv, InFlight, Facts, FactNames, RowExists
  <2>3. AnswerInv(r)'
    BY <2>1, <2>2, NoEffectYet DEF Inv, TypeOK, AnswerInv, End, InFlight
  <2>4. QED
    BY <2>1, <2>3, EndInv DEF Outcomes
<1>2. CASE ~(job[r].kind = "assign" /\ RowExists(r))
  <2> DEFINE row == IF job[r].kind \in RoleKinds THEN RoleRow(r) ELSE UserRow(r)
             set == IF job[r].kind = "remove" /\ ~RowExists(r) THEN {} ELSE {row}
  <2> USE <1>2
  <2>1. /\ locked' = [locked EXCEPT ![r] = set]
        /\ pc' = [pc EXCEPT ![r] = "commit"]
        /\ UNCHANGED <<tables, job, result, held, effect, seen, final>>
    BY DEF Goto
  <2>2. job[r] \in Jobs
    BY DEF Inv, RequestInv, AnswerInv, InFlight
  <2>3. set \subseteq Rows /\ set \subseteq {UserRow(r), RoleRow(r)}
    BY <2>2 DEF Rows, UserRow, RoleRow
  <2> HIDE DEF set
  <2>4. TypeOK'
    BY <2>1, <2>3 DEF Inv, TypeOK, Labels, InFlight, UserRow, RoleRow, tables
  <2>5. pc'[r] = "commit" /\ locked'[r] = set
    BY <2>1 DEF Inv, TypeOK
  <2>6. WitnessInv(r)' /\ ProgressInv(r)' /\ AnswerInv(r)'
    BY <2>1, <2>5, NoEffectYet
       DEF Inv, RequestInv, WitnessInv, ProgressInv, AnswerInv, InFlight, tables, Labels, Entitled
  <2>7. job[r].kind = "remove" /\ RoleRow(r) \notin set => "stranger" \in seen[r]
    <3>1. job[r].kind = "remove" /\ RowExists(r) => set = {RoleRow(r)}
      BY DEF set, RoleKinds
    <3>2. ~RowExists(r) => "stranger" \in seen[r]
      BY DEF Inv, RequestInv, WitnessInv, InFlight, Facts, FactNames, RowExists
    <3>3. QED
      BY <3>1, <3>2
  <2>8. /\ job[r].kind = "assign" => RoleRow(r) \in set
        /\ job[r].kind \notin RoleKinds => set = {UserRow(r)}
    <3>1. CASE job[r].kind \in RoleKinds
      BY <3>1 DEF set, RoleKinds
    <3>2. CASE job[r].kind \notin RoleKinds
      BY <3>2 DEF set, RoleKinds
    <3>3. QED
      BY <3>1, <3>2
  <2>9. WriteInv(r)'
    <3>1. UserRow(r)' = UserRow(r) /\ RoleRow(r)' = RoleRow(r)
      BY DEF UserRow, RoleRow
    <3>2. /\ job[r].kind # "view"
          /\ job[r].kind \in RoleKinds => job[r].role \in Roles
      BY DEF Inv, RequestInv, WriteInv
    <3>3. job[r].kind = "delete" => job[r].kind \notin RoleKinds
      BY DEF RoleKinds
    <3>4. QED
      BY <2>1, <2>5, <2>7, <2>8, <3>1, <3>2, <3>3 DEF WriteInv
  <2>10. ASSUME NEW q \in Reqs \ {r} PROVE RequestInv(q)'
    <3>1. Same(q)
      BY <2>1 DEF Inv, TypeOK, Same
    <3>2. QED
      BY <2>1, <3>1, Frame
  <2>11. QED
    BY <2>4, <2>6, <2>9, <2>10 DEF Inv, RequestInv
<1>3. QED
  BY <1>1, <1>2

(* What a commit shows to every request in flight, its own included.       *)
LEMMA CommitWitnesses ==
  ASSUME Inv, NEW r \in Reqs, Commit(r)
  PROVE  /\ seen' \in [Reqs -> SUBSET FactNames]
         /\ \A q \in Reqs : seen[q] \subseteq seen'[q]
         /\ \A q \in InFlight : Facts(granted', deleted', job[q]) \subseteq seen'[q]
         /\ \A q \in Reqs \ InFlight : seen'[q] = seen[q]
BY DEF Inv, TypeOK, Commit, InFlight, Facts

(* More has been true: no request is the worse for it.                     *)
LEMMA FrameGrown ==
  ASSUME Inv, NEW q \in Reqs, seen[q] \subseteq seen'[q],
         q \in InFlight => Facts(granted', deleted', job[q]) \subseteq seen'[q],
         pc'[q] = pc[q], job'[q] = job[q], result'[q] = result[q], held'[q] = held[q],
         locked'[q] = locked[q], effect'[q] = effect[q]
  PROVE  RequestInv(q)'
<1> USE DEF Inv, RequestInv
<1>1. WitnessInv(q)'
  BY DEF WitnessInv, InFlight
<1>2. Entitled(q) => Entitled(q)'
  BY DEF Entitled, EntitledBy
<1>3. ProgressInv(q)'
  BY <1>2 DEF ProgressInv
<1>4. WriteInv(q)'
  BY DEF WriteInv, RoleRow, UserRow
<1>5. AnswerInv(q)'
  BY <1>2 DEF AnswerInv, InFlight
<1>6. QED
  BY <1>1, <1>3, <1>4, <1>5

LEMMA TargetFacts ==
  ASSUME NEW g, NEW d, NEW j
  PROVE  /\ j.role \in g[j.target] => "member" \in Facts(g, d, j)
         /\ j.role \notin g[j.target] => "stranger" \in Facts(g, d, j)
BY DEF Facts, FactNames

LEMMA CommitTyped ==
  ASSUME Inv, NEW r \in Reqs, Commit(r)
  PROVE  TypeOK'
<1> USE DEF Commit
<1>1. job[r] \in Jobs /\ job[r].target \in Users
  BY RoleAdminAssumption DEF Inv, RequestInv, AnswerInv, InFlight
<1>2. job[r].kind = "assign" /\ RoleRow(r) \in locked[r] => job[r].role \in Roles
  BY DEF Inv, RequestInv, WriteInv, RoleKinds
<1>3. granted' \in [Users -> SUBSET Roles]
  BY <1>2 DEF Inv, TypeOK
<1>4. deleted' \subseteq Users
  BY <1>1 DEF Inv, TypeOK
<1>5. final' \in [Reqs -> SUBSET FactNames]
  BY DEF Inv, TypeOK, Facts
<1>6. effect' \in [Reqs -> BOOLEAN]
  BY DEF Inv, TypeOK
<1>7. /\ pc' \in [Reqs -> Labels]
      /\ result' \in [Reqs -> Outcomes]
      /\ locked' = [locked EXCEPT ![r] = {}]
      /\ \A q \in Reqs \ {r} : pc'[q] = pc[q]
  BY DEF Inv, TypeOK, End, Goto, Labels, Outcomes
<1>8. locked' \in [Reqs -> SUBSET Rows]
  BY <1>7 DEF Inv, TypeOK
<1>9. \A q \in Reqs : locked'[q] \subseteq IF q \in InFlight' THEN {UserRow(q)', RoleRow(q)'} ELSE {}
  BY <1>7 DEF Inv, TypeOK, InFlight, UserRow, RoleRow
<1>10. QED
  BY <1>3, <1>4, <1>5, <1>6, <1>7, <1>8, <1>9, CommitWitnesses DEF Inv, TypeOK

LEMMA CommitInv ==
  ASSUME Inv, NEW r \in Reqs, Commit(r)
  PROVE  Inv'
<1> USE DEF Commit
<1>1. /\ seen[r] \subseteq seen'[r]
      /\ Facts(granted', deleted', job[r]) \subseteq seen'[r]
      /\ job'[r] = job[r] /\ held'[r] = held[r]
  BY CommitWitnesses DEF InFlight
<1>2. /\ job[r] \in Jobs /\ job[r].target \in Users
      /\ Entitled(r) /\ {"actor", "target"} \subseteq seen[r]
      /\ result[r] = "none"
  BY RoleAdminAssumption DEF Inv, RequestInv, WitnessInv, ProgressInv, AnswerInv, InFlight
<1>3. Entitled(r)' /\ {"actor", "target"} \subseteq seen'[r]
  BY <1>1, <1>2 DEF Entitled, EntitledBy
<1>4. /\ job[r].kind = "assign" => "member" \in seen'[r]
      /\ job[r].kind = "remove" => "stranger" \in seen'[r]
  <2>1. CASE RoleRow(r) \notin locked[r]
    BY <1>1, <2>1 DEF Inv, RequestInv, WriteInv
  <2>2. CASE RoleRow(r) \in locked[r]
    <3>1. granted'[job[r].target] =
            IF job[r].kind = "assign" THEN granted[job[r].target] \cup {job[r].role}
                                      ELSE granted[job[r].target] \ {job[r].role}
      BY <1>2, <2>2 DEF Inv, TypeOK
    <3>2. /\ job[r].kind = "assign" => job[r].role \in granted'[job[r].target]
          /\ job[r].kind = "remove" => job[r].role \notin granted'[job[r].target]
      BY <3>1
    <3>3. QED
      BY <1>1, <3>2, TargetFacts
  <2>3. QED
    BY <2>1, <2>2
<1>5. RequestInv(r)'
  <2>1. CASE job[r].kind = "delete" /\ End(r, "ok")
    <3>1. /\ pc'[r] = "done" /\ result'[r] = "ok" /\ job'[r].kind = "delete"
          /\ locked'[r] = {}
      BY <1>1, <2>1 DEF Inv, TypeOK, End
    <3>2. QED
      BY <3>1, <1>3
         DEF RequestInv, WitnessInv, ProgressInv, WriteInv, AnswerInv, InFlight
  <2>2. CASE job[r].kind # "delete" /\ Goto(r, "reread") /\ UNCHANGED result
    <3>1. pc'[r] = "reread" /\ result'[r] = "none" /\ job'[r] = job[r]
      BY <1>1, <1>2, <2>2 DEF Inv, TypeOK, Goto
    <3>2. WitnessInv(r)'
      BY <1>1, <1>3, <3>1 DEF WitnessInv
    <3>3. ProgressInv(r)'
      BY <1>1, <1>3, <3>1 DEF Inv, RequestInv, ProgressInv, Labels
    <3>4. WriteInv(r)' /\ AnswerInv(r)'
      <4>1. job[r].kind # "view" /\ locked'[r] = {}
        BY <2>2 DEF Inv, TypeOK, RequestInv, WriteInv, End
      <4>2. QED
        BY <1>2, <1>3, <1>4, <2>2, <3>1, <4>1 DEF WriteInv, AnswerInv
    <3>5. QED
      BY <3>2, <3>3, <3>4 DEF RequestInv
  <2>3. QED
    BY <2>1, <2>2
<1>6. ASSUME NEW q \in Reqs \ {r} PROVE RequestInv(q)'
  <2>1. /\ pc'[q] = pc[q] /\ job'[q] = job[q] /\ result'[q] = result[q]
        /\ held'[q] = held[q] /\ locked'[q] = locked[q] /\ effect'[q] = effect[q]
    BY DEF Inv, TypeOK, End, Goto
  <2>2. QED
    BY <2>1, FrameGrown, CommitWitnesses
<1>7. QED
  BY CommitTyped, <1>5, <1>6 DEF Inv

(* An answer given after the commit leaves what was justified justified.   *)
LEMMA LateAnswerInv ==
  ASSUME Inv, NEW r \in Reqs, NEW o \in Outcomes \ {"conflict"}, pc[r] = "reread", End(r, o),
         UNCHANGED <<tables, job, held, effect, seen, final>>
  PROVE  Inv'
<1>1. /\ job[r].kind = "assign" => "member" \in seen[r]
      /\ job[r].kind = "remove" => "stranger" \in seen[r]
  BY DEF Inv, RequestInv, WriteInv
<1>2. pc'[r] = "done" /\ result'[r] = o
  BY DEF Inv, TypeOK, End
<1>3. AnswerInv(r)'
  BY <1>1, <1>2 DEF Inv, RequestInv, AnswerInv, InFlight, Entitled
<1>4. QED
  BY <1>3, EndInv

LEMMA RereadInv ==
  ASSUME Inv, NEW r \in Reqs, Reread(r)
  PROVE  Inv'
BY LateAnswerInv DEF Reread, Outcomes

(* A user is shown once the rules have been found to allow it.             *)
LEMMA ShowInv ==
  ASSUME Inv, NEW r \in Reqs, Show(r)
  PROVE  Inv'
<1> USE DEF Show
<1>1. /\ job[r] \in Jobs /\ job[r].kind = "view"
      /\ Entitled(r) /\ {"actor", "target"} \subseteq seen[r]
  BY DEF Inv, RequestInv, WitnessInv, ProgressInv, WriteInv, AnswerInv, InFlight
<1>2. TypeOK'
  BY DEF Inv, TypeOK, End, Labels, Outcomes, InFlight, UserRow, RoleRow, tables, Facts
<1>3. /\ pc'[r] = "done" /\ result'[r] = "ok" /\ locked'[r] = {}
      /\ UNCHANGED <<tables, job, held, seen>>
  BY DEF Inv, TypeOK, End
<1>4. RequestInv(r)'
  BY <1>1, <1>3
     DEF RequestInv, WitnessInv, ProgressInv, WriteInv, AnswerInv, InFlight, Entitled
<1>5. ASSUME NEW q \in Reqs \ {r} PROVE RequestInv(q)'
  <2>1. Same(q)
    BY <1>3 DEF Inv, TypeOK, Same, End
  <2>2. QED
    BY <1>3, <2>1, Frame
<1>6. QED
  BY <1>2, <1>4, <1>5 DEF Inv

LEMMA AbortInv ==
  ASSUME Inv, NEW r \in Reqs, Abort(r)
  PROVE  Inv'
<1>1. CASE pc[r] # "reread" /\ Fail(r)
  BY <1>1, NoEffectYet, FailInv DEF Abort, InFlight
<1>2. CASE pc[r] = "reread"
  BY <1>2, LateAnswerInv DEF Abort, Outcomes
<1>3. QED
  BY <1>1, <1>2 DEF Abort

LEMMA InitInv == Init => Inv
<1> SUFFICES ASSUME Init PROVE Inv
  OBVIOUS
<1>1. ASSUME NEW r \in Reqs PROVE RequestInv(r)
  BY DEF Init, RequestInv, WitnessInv, ProgressInv, WriteInv, AnswerInv, InFlight
<1>2. QED
  BY <1>1, InitTyped DEF Inv

(* Every step preserves the invariant.                                     *)
LEMMA InvStep == Inv /\ [Next]_vars => Inv'
<1> SUFFICES ASSUME Inv, [Next]_vars PROVE Inv'
  OBVIOUS
<1>1. CASE UNCHANGED vars
  <2>1. TypeOK'
    BY <1>1 DEF Inv, TypeOK, vars, tables, InFlight, UserRow, RoleRow
  <2>2. ASSUME NEW q \in Reqs PROVE RequestInv(q)'
    BY <1>1, Frame DEF vars, tables, Same
  <2>3. QED
    BY <2>1, <2>2 DEF Inv
<1>2. ASSUME NEW r \in Reqs, NEW j \in Jobs, AuthSelectUser(r, j) PROVE Inv'
  BY <1>2, AuthSelectUserInv
<1>3. ASSUME NEW r \in Reqs, Step(r) PROVE Inv'
  BY <1>3, AuthSelectRolesInv, SelectTargetInv, SelectTargetRolesInv, LookupRowInv,
     FlushInv, CommitInv, RereadInv, ShowInv DEF Step
<1>4. ASSUME NEW r \in Reqs, Abort(r) PROVE Inv'
  BY <1>4, AbortInv
<1>5. QED
  BY <1>1, <1>2, <1>3, <1>4 DEF Next, Quiet

-----------------------------------------------------------------------------
(* Theorems                                                                *)

(* The invariant holds in every state of every execution.                  *)
THEOREM Invariance == Spec => []Inv
<1>1. QED
  BY InitInv, InvStep, PTL DEF Spec

(* Types, and no lock outlives its request.                                *)
THEOREM TypeCorrect == Spec => []TypeOK
<1>1. Inv => TypeOK
  BY DEF Inv
<1>2. QED
  BY <1>1, Invariance, PTL

(* No role is changed and no user deleted but by the rules, applied to     *)
(* what was true while the request ran.                                    *)
THEOREM EffectsEntitled == Spec => []ChangesJustified
<1>1. Inv => ChangesJustified
  BY DEF Inv, RequestInv, AnswerInv, ChangesJustified
<1>2. QED
  BY <1>1, Invariance, PTL

(* An answer about a role fits the tables at some time of the request.     *)
THEOREM NoFalseAnswer == Spec => []AnswersTruthful
<1>1. Inv => AnswersTruthful
  BY DEF Inv, RequestInv, AnswerInv, AnswersTruthful
<1>2. QED
  BY <1>1, Invariance, PTL

-----------------------------------------------------------------------------
(* No escalation                                                           *)

(* What a request has done no later step undoes.                           *)
LEMMA EffectsStay ==
  ASSUME Inv, [Next]_vars, NEW q \in Reqs, effect[q]
  PROVE  effect'[q] /\ job'[q] = job[q] /\ final'[q] = final[q] /\ seen[q] \subseteq seen'[q]
<1>1. pc[q] \in {"reread", "done"}
  BY DEF Inv, RequestInv, AnswerInv
<1> USE DEF Inv, TypeOK
<1>2. CASE UNCHANGED vars
  BY <1>2 DEF vars
<1>3. ASSUME NEW r \in Reqs, NEW j \in Jobs, AuthSelectUser(r, j)
      PROVE  effect'[q] /\ job'[q] = job[q] /\ final'[q] = final[q] /\ seen[q] \subseteq seen'[q]
  BY <1>1, <1>3 DEF AuthSelectUser, Fail
<1>4. ASSUME NEW r \in Reqs, Step(r)
      PROVE  effect'[q] /\ job'[q] = job[q] /\ final'[q] = final[q] /\ seen[q] \subseteq seen'[q]
  <2>1. CASE Commit(r)
    BY <1>1, <2>1 DEF Commit
  <2>2. CASE Show(r)
    BY <1>1, <2>2 DEF Show
  <2>3. CASE Reread(r)
    BY <2>3 DEF Reread
  <2>4. CASE AuthSelectRoles(r) \/ SelectTarget(r) \/ SelectTargetRoles(r)
    BY <1>1, <2>4 DEF AuthSelectRoles, SelectTarget, SelectTargetRoles, Fail
  <2>5. CASE LookupRow(r) \/ Flush(r)
    BY <1>1, <2>5 DEF LookupRow, Flush, Fail
  <2>6. QED
    BY <1>4, <2>1, <2>2, <2>3, <2>4, <2>5 DEF Step
<1>5. ASSUME NEW r \in Reqs, Abort(r)
      PROVE  effect'[q] /\ job'[q] = job[q] /\ final'[q] = final[q] /\ seen[q] \subseteq seen'[q]
  BY <1>1, <1>5 DEF Abort, Fail, InFlight
<1>6. QED
  BY <1>2, <1>3, <1>4, <1>5 DEF Next, Quiet

(* One of the first superadmins has given the role to somebody.            *)
Passed ==
  \E r \in Reqs : /\ effect[r] /\ job[r].kind = "assign" /\ job[r].role = "superadmin"
                  /\ Super(InitRoles[job[r].actor])

FirstOnly(g) == \A u \in Users : Super(g[u]) => Super(InitRoles[u])

(* No others have the role, and no request in flight has seen another.     *)
NoneNew ==
  /\ FirstOnly(granted)
  /\ \A r \in InFlight : "super" \in seen[r] => Super(InitRoles[job[r].actor])

LEMMA FactsOfTheFirst ==
  ASSUME NEW g, NEW d, NEW j \in Jobs, FirstOnly(g), "super" \in Facts(g, d, j)
  PROVE  Super(InitRoles[j.actor])
BY RoleAdminAssumption DEF Facts, FirstOnly

(* A commit adds the role only if its actor has been a superadmin.         *)
LEMMA CommitAddsNone ==
  ASSUME Inv, NoneNew, NEW r \in Reqs, Commit(r)
  PROVE  FirstOnly(granted') \/ Passed'
<1>1. Entitled(r) /\ r \in InFlight
  BY DEF Inv, RequestInv, ProgressInv, Commit, InFlight
<1>2. CASE RoleRow(r) \in locked[r] /\ job[r].kind = "assign" /\ job[r].role = "superadmin"
  <2>1. Super(InitRoles[job[r].actor])
    BY <1>1, <1>2 DEF Entitled, EntitledBy, NoneNew
  <2>2. effect'[r] /\ job'[r] = job[r]
    BY <1>2 DEF Commit, Inv, TypeOK
  <2>3. QED
    BY <1>2, <2>1, <2>2 DEF Passed
<1>3. CASE ~(RoleRow(r) \in locked[r] /\ job[r].kind = "assign" /\ job[r].role = "superadmin")
  <2>1. \A u \in Users : Super(granted'[u]) => Super(granted[u])
    BY <1>3 DEF Commit, Inv, TypeOK, Super
  <2>2. QED
    BY <2>1 DEF NoneNew, FirstOnly
<1>4. QED
  BY <1>2, <1>3

LEMMA NoneNewStep == Inv /\ NoneNew /\ [Next]_vars => NoneNew' \/ Passed'
<1> SUFFICES ASSUME Inv, NoneNew, [Next]_vars, ~Passed' PROVE NoneNew'
  OBVIOUS
<1>1. \A q \in InFlight : job[q] \in Jobs
  BY DEF Inv, RequestInv, AnswerInv, InFlight
<1>2. ASSUME UNCHANGED granted, InFlight' \subseteq InFlight,
             \A q \in InFlight' : seen'[q] = seen[q] /\ job'[q] = job[q]
      PROVE  NoneNew'
  BY <1>2 DEF NoneNew, FirstOnly
<1>3. CASE UNCHANGED vars
  BY <1>3, <1>2 DEF vars, tables, InFlight
<1>4. ASSUME NEW r \in Reqs, NEW j \in Jobs, AuthSelectUser(r, j) PROVE NoneNew'
  <2>1. "super" \in Facts(granted, deleted, j) => Super(InitRoles[j.actor])
    BY FactsOfTheFirst DEF NoneNew
  <2>2. /\ UNCHANGED tables
        /\ \A q \in Reqs \ {r} : pc'[q] = pc[q] /\ seen'[q] = seen[q] /\ job'[q] = job[q]
        /\ "super" \in seen'[r] => Super(InitRoles[job'[r].actor])
    BY <1>4, <2>1 DEF AuthSelectUser, Fail, End, Goto, Inv, TypeOK, tables
  <2>3. QED
    BY <2>2 DEF NoneNew, FirstOnly, InFlight, tables
<1>5. ASSUME NEW r \in Reqs, Commit(r) PROVE NoneNew'
  <2>1. FirstOnly(granted')
    BY <1>5, CommitAddsNone
  <2>2. \A q \in InFlight : "super" \in Facts(granted', deleted', job[q])
                             => Super(InitRoles[job[q].actor])
    BY <1>1, <2>1, FactsOfTheFirst
  <2>3. \A q \in InFlight : job'[q] = job[q] /\
          ("super" \in seen'[q] => Super(InitRoles[job[q].actor]))
    BY <1>5, <2>2 DEF Commit, NoneNew, InFlight
  <2>4. InFlight' \subseteq InFlight
    BY <1>5 DEF Commit, End, Goto, InFlight, Inv, TypeOK
  <2>5. QED
    BY <2>1, <2>3, <2>4 DEF NoneNew, FirstOnly
<1>6. ASSUME NEW r \in Reqs, Fail(r), r \in InFlight PROVE NoneNew'
  BY <1>6, <1>2 DEF Fail, End, InFlight, Inv, TypeOK, tables
<1>7. ASSUME NEW r \in Reqs, NEW l \in Labels, r \in InFlight, Goto(r, l),
             UNCHANGED <<granted, seen, job>>
      PROVE  NoneNew'
  BY <1>7, <1>2 DEF Goto, InFlight, Inv, TypeOK
<1>8. ASSUME NEW r \in Reqs, NEW o \in Outcomes, r \in InFlight, End(r, o),
             UNCHANGED <<granted, seen, job>>
      PROVE  NoneNew'
  BY <1>8, <1>2 DEF End, InFlight, Inv, TypeOK
<1>9. ASSUME NEW r \in Reqs, Step(r) PROVE NoneNew'
  <2>1. CASE AuthSelectRoles(r)
    BY <2>1, <1>6, <1>7 DEF AuthSelectRoles, InFlight, Labels, tables
  <2>2. CASE SelectTarget(r)
    BY <2>2, <1>6, <1>7 DEF SelectTarget, InFlight, Labels, tables
  <2>3. CASE SelectTargetRoles(r)
    <3>1. job[r].kind \in Kinds
      BY <2>3, RoleAdminAssumption DEF Inv, RequestInv, AnswerInv, InFlight, SelectTargetRoles
    <3>2. AfterPermit(job[r].kind) \subseteq Labels
      BY <3>1 DEF AfterPermit, Labels, Kinds
    <3>3. QED
      BY <2>3, <3>2, <1>6, <1>7 DEF SelectTargetRoles, InFlight, tables
  <2>4. CASE LookupRow(r)
    BY <2>4, <1>6, <1>7 DEF LookupRow, AfterLookup, InFlight, Labels, tables
  <2>5. CASE Flush(r)
    BY <2>5, <1>7, <1>8 DEF Flush, InFlight, Labels, Outcomes, tables
  <2>6. CASE Commit(r)
    BY <2>6, <1>5
  <2>7. CASE Reread(r)
    BY <2>7, <1>8 DEF Reread, InFlight, Outcomes, tables
  <2>8. CASE Show(r)
    BY <2>8, <1>8 DEF Show, InFlight, Outcomes, tables
  <2>9. QED
    BY <1>9, <2>1, <2>2, <2>3, <2>4, <2>5, <2>6, <2>7, <2>8 DEF Step
<1>10. ASSUME NEW r \in Reqs, Abort(r) PROVE NoneNew'
  BY <1>10, <1>6, <1>8 DEF Abort, InFlight, Outcomes, tables
<1>11. QED
  BY <1>3, <1>4, <1>9, <1>10 DEF Next, Quiet

(* Whoever is a superadmin was one to begin with, unless one of those who  *)
(* were has given the role away, for any users, roles and requests.        *)
THEOREM NoEscalation == Spec => []SuperadminsComeFromSuperadmins
<1>1. Init => NoneNew
  BY DEF Init, NoneNew, FirstOnly, InFlight
<1>2. Inv /\ Passed /\ [Next]_vars => Passed'
  BY EffectsStay DEF Passed
<1>3. NoneNew \/ Passed => SuperadminsComeFromSuperadmins
  BY DEF NoneNew, FirstOnly, Passed, SuperadminsComeFromSuperadmins
<1>4. Spec => [](NoneNew \/ Passed)
  BY <1>1, <1>2, NoneNewStep, Invariance, PTL DEF Spec
<1>5. QED
  BY <1>3, <1>4, PTL

-----------------------------------------------------------------------------
(* The last superadmin                                                     *)

(* Somebody with the role is left, or a request has taken it from the last *)
(* by stepping down or after what allowed it was gone.                     *)
Excused(r) == effect[r] /\ (StepsDown(r) \/ Overtaken(r))

ThroneInv ==
  \/ ActiveSuperadmins(InitRoles, {}) = {}
  \/ ActiveSuperadmins(granted, deleted) # {}
  \/ \E r \in Reqs : Excused(r)

(* A request that has changed something is judged by what is final.        *)
LEMMA ExcuseStays ==
  ASSUME Inv, NEW r \in Reqs, effect[r], Excused(r),
         effect'[r], job'[r] = job[r], final'[r] = final[r], seen[r] \subseteq seen'[r]
  PROVE  Excused(r)'
BY DEF Excused, StepsDown, Overtaken, Entitled, EntitledBy

(* No step but a commit touches the tables.                                *)
LEMMA CommitsChangeTables ==
  ASSUME [Next]_vars, ~UNCHANGED tables
  PROVE  \E r \in Reqs : Commit(r)
<1>1. ~UNCHANGED vars
  BY DEF vars, tables
<1>2. \A r \in Reqs, j \in Jobs : ~AuthSelectUser(r, j)
  BY DEF AuthSelectUser, Fail
<1>3. \A r \in Reqs : ~Abort(r)
  BY DEF Abort, Fail
<1>4. \A r \in Reqs : Step(r) => Commit(r)
  BY DEF Step, AuthSelectRoles, SelectTarget, SelectTargetRoles, LookupRow, Flush, Reread, Show, Fail
<1>5. QED
  BY <1>1, <1>2, <1>3, <1>4 DEF Next, Quiet

(* What a set of facts says of the tables it was made from.                *)
LEMMA FactsMean ==
  ASSUME NEW g, NEW d, NEW j
  PROVE  /\ "super" \in Facts(g, d, j) => Super(g[j.actor])
         /\ "plain" \in Facts(g, d, j) => ~Super(g[j.actor])
         /\ "open" \in Facts(g, d, j) => Ordinary(g[j.target])
         /\ "actor" \in Facts(g, d, j) => j.actor \notin d
BY DEF Facts

(* A deletion that is still allowed leaves a superadmin, if there was one. *)
LEMMA DeletionLeavesOne ==
  ASSUME Inv, NEW r \in Reqs, Commit(r), job[r].kind = "delete",
         "actor" \in final'[r], EntitledBy(final'[r], job[r]),
         ActiveSuperadmins(granted, deleted) # {}
  PROVE  ActiveSuperadmins(granted', deleted') # {}
<1> DEFINE a == job[r].actor
           t == job[r].target
<1>1. final'[r] = Facts(granted, deleted, job[r]) /\ deleted' = deleted \cup {t}
  BY DEF Commit, Inv, TypeOK
<1>2. job[r] \in Jobs /\ a \in Users /\ t \in Users
  BY RoleAdminAssumption DEF Inv, RequestInv, AnswerInv, Commit, InFlight
<1>3. RoleRow(r) \notin locked[r]
  BY DEF Commit, Inv, RequestInv, WriteInv, RoleRow, UserRow
<1>4. granted' = granted
  BY <1>2, <1>3 DEF Commit, Inv, TypeOK
<1>5. CASE Super(granted[a]) /\ a # t
  <2>1. a \notin deleted'
    BY <1>1, <1>5, FactsMean
  <2>2. QED
    BY <1>2, <1>4, <1>5, <2>1 DEF ActiveSuperadmins
<1>6. CASE ~Super(granted[t])
  BY <1>1, <1>4, <1>6 DEF ActiveSuperadmins
<1>7. (Super(granted[a]) /\ a # t) \/ ~Super(granted[t])
  <2>1. Ordinary(granted[t]) => ~Super(granted[t])
    BY DEF Ordinary, Super, Privileged
  <2>2. QED
    BY <1>1, <2>1, FactsMean DEF EntitledBy
<1>8. QED
  BY <1>5, <1>6, <1>7

(* So does a change of roles, unless the actor gives up its own.           *)
LEMMA RoleChangeLeavesOne ==
  ASSUME Inv, NEW r \in Reqs, Commit(r), job[r].kind # "delete", ~StepsDown(r),
         "actor" \in final'[r], EntitledBy(final'[r], job[r]),
         ActiveSuperadmins(granted, deleted) # {}
  PROVE  ActiveSuperadmins(granted', deleted') # {}
<1> DEFINE a == job[r].actor
           t == job[r].target
<1>1. final'[r] = Facts(granted, deleted, job[r]) /\ deleted' = deleted
  BY DEF Commit, Inv, TypeOK
<1>2. job[r] \in Jobs /\ a \in Users /\ t \in Users /\ job[r].kind \in Kinds
  BY RoleAdminAssumption DEF Inv, RequestInv, AnswerInv, Commit, InFlight
<1>3. CASE RoleRow(r) \in locked[r] /\ job[r].kind = "remove" /\ job[r].role = "superadmin"
  <2>1. Super(granted[a]) /\ a # t /\ a \notin deleted
    BY <1>1, <1>3, FactsMean DEF EntitledBy, StepsDown
  <2>2. granted'[a] = granted[a]
    BY <1>2, <2>1 DEF Commit, Inv, TypeOK
  <2>3. QED
    BY <1>1, <1>2, <2>1, <2>2 DEF ActiveSuperadmins
<1>4. CASE ~(RoleRow(r) \in locked[r] /\ job[r].kind = "remove" /\ job[r].role = "superadmin")
  <2>1. RoleRow(r) \in locked[r] => job[r].kind \in RoleKinds
    BY DEF Commit, Inv, RequestInv, WriteInv, RoleRow, UserRow
  <2>2. \A u \in Users : Super(granted[u]) => Super(granted'[u])
    BY <1>2, <1>4, <2>1 DEF Commit, Inv, TypeOK, Super, RoleKinds
  <2>3. QED
    BY <1>1, <2>2 DEF ActiveSuperadmins
<1>5. QED
  BY <1>3, <1>4

LEMMA ThroneStep == Inv /\ ThroneInv /\ [Next]_vars => ThroneInv'
<1> SUFFICES ASSUME Inv, ThroneInv, [Next]_vars,
                    ActiveSuperadmins(InitRoles, {}) # {},
                    ActiveSuperadmins(granted', deleted') = {}
             PROVE  \E r \in Reqs : Excused(r)'
  BY DEF ThroneInv
<1>1. CASE \E r \in Reqs : Excused(r)
  BY <1>1, ExcuseStays, EffectsStay DEF Excused
<1>2. CASE ActiveSuperadmins(granted, deleted) # {}
  <2>1. PICK r \in Reqs : Commit(r)
    BY <1>2, CommitsChangeTables DEF tables
  <2>2. job'[r] = job[r] /\ Entitled(r) /\ seen[r] \subseteq seen'[r]
    BY <2>1, CommitWitnesses DEF Commit, Inv, RequestInv, ProgressInv
  <2>3. Entitled(r)'
    BY <2>2 DEF Entitled, EntitledBy
  <2>4. StepsDown(r) \/ ~("actor" \in final'[r] /\ EntitledBy(final'[r], job[r]))
    BY <1>2, <2>1, DeletionLeavesOne, RoleChangeLeavesOne
  <2>5. effect'[r]
    <3>1. locked[r] = {} => granted' = granted /\ job[r].kind # "delete"
      BY <2>1 DEF Commit, Inv, TypeOK, RequestInv, WriteInv
    <3>2. locked[r] # {}
      BY <1>2, <2>1, <3>1 DEF Commit
    <3>3. QED
      BY <2>1, <3>2 DEF Commit, Inv, TypeOK
  <2>6. QED
    BY <2>2, <2>3, <2>4, <2>5 DEF Excused, StepsDown, Overtaken
<1>3. QED
  BY <1>1, <1>2 DEF ThroneInv

(* While every change is entitled when it is committed, and nobody gives   *)
(* up the role, the system keeps a superadmin.                             *)
THEOREM ThroneIsKept == Spec => []SuperadminRemains
<1>1. Init => ThroneInv
  BY DEF Init, ThroneInv
<1>2. ThroneInv => SuperadminRemains
  BY DEF ThroneInv, SuperadminRemains, Excused
<1>3. QED
  BY <1>1, <1>2, ThroneStep, Invariance, PTL DEF Spec

=============================================================================
