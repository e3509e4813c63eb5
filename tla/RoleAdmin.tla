----------------------------- MODULE RoleAdmin ------------------------------
(***************************************************************************)
(* Assigning and removing roles, deleting, changing and showing users, as  *)
(* the requests interleave.  A request reads the roles of its actor once,  *)
(* when it is authenticated, the roles of its target once, when it is      *)
(* authorised, and writes later; every read and write is a statement of    *)
(* its own in a READ COMMITTED transaction (see AuthSessions).             *)
(***************************************************************************)
EXTENDS RoleRules, FiniteSets

CONSTANTS
  Users,      (* users.id of the accounts                                  *)
  Reqs,       (* the HTTP requests, each served once                       *)
  Roles,      (* the names in the table roles                              *)
  InitRoles,  (* the rows of user_roles at the beginning, by user          *)
  Jobs,       (* what requests may ask for                                 *)
  NoJob       (* what a request asks for that is not being served          *)

RoleKinds == {"assign", "remove"}
Kinds     == RoleKinds \cup {"delete", "update", "view"}

(* role is the normalised path parameter: it may name no role of the       *)
(* table, and means nothing but for RoleKinds.                             *)
ASSUME RoleAdminAssumption ==
  /\ InitRoles \in [Users -> SUBSET Roles]
  /\ \A j \in Jobs : j.kind \in Kinds /\ j.actor \in Users /\ j.target \in Users
  /\ NoJob \notin Jobs

Labels == {"idle", "roles", "target", "permit", "lookup", "flush", "commit", "reread", "show", "done"}
Outcomes == {"none", "ok", "notfound", "conflict", "error"}

VARIABLES
  granted,    (* committed user_roles, by user                             *)
  deleted,    (* committed users with deleted_at set, is_active unset      *)
  pc, job, result,
  held,       (* RequestUser.roles                                         *)
  locked,     (* rows the transaction has written and not committed:       *)
              (* <<"users", u>> or <<"user_roles", u, role>>               *)
  effect,     (* whether the request changed a row and committed, or       *)
              (* showed the target                                         *)
  (* History, read by no action.                                           *)
  seen,       (* facts about the committed tables, since the request began *)
  final       (* those that were true when it committed, or showed         *)

tables == <<granted, deleted>>
vars   == <<tables, pc, job, result, held, locked, effect, seen, final>>

-----------------------------------------------------------------------------

(* What a request may build on, given the tables user_roles and users.     *)
FactNames == {"entitled", "super", "plain", "manager", "open", "member", "stranger", "actor", "target"}

Facts(g, d, j) ==
  {f \in FactNames :
     \/ f = "entitled" /\ ~Ordinary(g[j.actor])
     \/ f = "super"    /\ Super(g[j.actor])
     \/ f = "plain"    /\ ~Super(g[j.actor])
     \/ f = "manager"  /\ "manager" \in g[j.actor]
     \/ f = "open"     /\ Ordinary(g[j.target])
     \/ f = "member"   /\ j.role \in g[j.target]
     \/ f = "stranger" /\ j.role \notin g[j.target]
     \/ f = "actor"    /\ j.actor \notin d
     \/ f = "target"   /\ j.target \notin d}

InFlight == {r \in Reqs : pc[r] \notin {"idle", "done"}}

(* variant: the roles the JWT was made with                                *)
RolesFromToken(a) == InitRoles[a]

(* get_role_names for the actor: the JWT's roles are not trusted.          *)
ActorRoles(a) == granted[a]

(* The row is not locked by another transaction.                           *)
Free(r, row) == \A q \in Reqs \ {r} : row \notin locked[q]

UserRow(r) == <<"users", job[r].target>>
RoleRow(r) == <<"user_roles", job[r].target, job[r].role>>
Rows == {<<"users", j.target>> : j \in Jobs} \cup {<<"user_roles", j.target, j.role>> : j \in Jobs}

Goto(r, label) == pc' = [pc EXCEPT ![r] = label]

(* variant: an error response commits                                      *)
EndKeepingLocks(r, outcome) ==
  /\ pc' = [pc EXCEPT ![r] = "done"]
  /\ result' = [result EXCEPT ![r] = outcome]
  /\ UNCHANGED locked

(* The request is answered and its session closed: rollback of what is not *)
(* committed, locks released.                                              *)
End(r, outcome) ==
  /\ pc' = [pc EXCEPT ![r] = "done"]
  /\ result' = [result EXCEPT ![r] = outcome]
  /\ locked' = [locked EXCEPT ![r] = {}]

(* A request that changed nothing and is answered 4xx or 5xx.              *)
Fail(r) ==
  /\ End(r, "error")
  /\ job'  = [job EXCEPT ![r] = NoJob]
  /\ held' = [held EXCEPT ![r] = {}]
  /\ seen' = [seen EXCEPT ![r] = {}]
  /\ UNCHANGED <<tables, effect, final>>

-----------------------------------------------------------------------------
(* get_current_user, require_admin_user                                    *)

AuthSelectUser(r, j) ==
  /\ pc[r] = "idle"
  /\ \/ /\ j.actor \notin deleted
        /\ job' = [job EXCEPT ![r] = j]
        /\ seen' = [seen EXCEPT ![r] = Facts(granted, deleted, j)]
        /\ Goto(r, "roles")
        /\ UNCHANGED <<tables, result, held, locked, effect, final>>
     \/ j.actor \in deleted /\ Fail(r)

AuthSelectRoles(r) ==
  /\ pc[r] = "roles"
  /\ LET roles == ActorRoles(job[r].actor)
         admitted == job[r].kind \notin RoleKinds \/ ~Ordinary(roles)
     IN \/ /\ admitted
           /\ held' = [held EXCEPT ![r] = roles]
           /\ Goto(r, "target")
           /\ UNCHANGED <<tables, job, result, locked, effect, seen, final>>
        \/ ~admitted /\ Fail(r)

-----------------------------------------------------------------------------
(* UserService: assign_role, remove_role, soft_delete_user, update_user    *)
(* and get_user                                                            *)

(* _get_target_or_404                                                      *)
SelectTarget(r) ==
  /\ pc[r] = "target"
  /\ \/ /\ job[r].target \notin deleted
        /\ Goto(r, "permit")
        /\ UNCHANGED <<tables, job, result, held, locked, effect, seen, final>>
     \/ job[r].target \in deleted /\ Fail(r)

(* _ensure_can_manage_roles, _ensure_can_delete_user,                      *)
(* _ensure_can_update_user, _can_view_user                                 *)
Permitted(r) ==
  LET roles == granted[job[r].target]
      self == job[r].actor = job[r].target
  IN CASE job[r].kind = "delete" -> CanDelete(self, held[r], roles)
       [] job[r].kind = "update" -> CanUpdate(self, held[r], roles)
       [] job[r].kind = "view"   -> CanView(self, held[r], roles)
       [] OTHER                  -> CanManage(held[r], roles, job[r].role)

(* Whether the email is free is no matter of roles (Accounts); an update   *)
(* may change nothing.                                                     *)
AfterPermit(kind) ==
  CASE kind \in RoleKinds -> {"lookup"}
    [] kind = "delete"    -> {"flush"}
    [] kind = "update"    -> {"flush", "commit"}
    [] kind = "view"      -> {"show"}

SelectTargetRoles(r) ==
  /\ pc[r] = "permit"
  /\ \/ /\ Permitted(r)
        /\ \E label \in AfterPermit(job[r].kind) : Goto(r, label)
        /\ UNCHANGED <<tables, job, result, held, locked, effect, seen, final>>
     \/ ~Permitted(r) /\ Fail(r)

(* The row of user_roles that add_user_role or remove_user_role looks for. *)
RowExists(r) == job[r].role \in granted[job[r].target]

(* variant: the row is added when it is there already                      *)
AfterLookupInverted(r) ==
  IF job[r].kind = "assign" /\ ~RowExists(r) THEN "commit" ELSE "flush"

(* add_user_role adds nothing when the row exists.                         *)
AfterLookup(r) == IF job[r].kind = "assign" /\ RowExists(r) THEN "commit" ELSE "flush"

(* get_role_by_name, then the SELECT of add_user_role or remove_user_role. *)
(* The table roles never changes.                                          *)
LookupRow(r) ==
  /\ pc[r] = "lookup"
  /\ LET found == job[r].role \in Roles /\ (job[r].kind = "remove" => RowExists(r))
     IN \/ ~found /\ Fail(r)
        \/ /\ found
           /\ Goto(r, AfterLookup(r))
           /\ UNCHANGED <<tables, job, result, held, locked, effect, seen, final>>

(* The flush before the commit.  A write waits for a transaction that has  *)
(* written the same row; INSERT of a key that is there by then is an       *)
(* IntegrityError, DELETE of a row that is gone by then matches nothing,   *)
(* and is no error.  It does not wait for a row that is not there yet.     *)
Flush(r) ==
  /\ pc[r] = "flush"
  /\ LET row == IF job[r].kind \in RoleKinds THEN RoleRow(r) ELSE UserRow(r)
         clash == job[r].kind = "assign" /\ RowExists(r)
         noRow == job[r].kind = "remove" /\ ~RowExists(r)
     IN /\ noRow \/ Free(r, row)
        /\ \/ clash /\ End(r, "conflict")
           \/ /\ ~clash
              /\ locked' = [locked EXCEPT ![r] = IF noRow THEN {} ELSE {row}]
              /\ Goto(r, "commit")
              /\ UNCHANGED result
  /\ UNCHANGED <<tables, job, held, effect, seen, final>>

(* COMMIT.  All but a deletion is answered after one more read.            *)
Commit(r) ==
  /\ pc[r] = "commit"
  /\ granted' = [granted EXCEPT ![job[r].target] =
       IF RoleRow(r) \notin locked[r] THEN @
       ELSE IF job[r].kind = "assign" THEN @ \cup {job[r].role} ELSE @ \ {job[r].role}]
  /\ deleted' = IF job[r].kind = "delete" THEN deleted \cup {job[r].target} ELSE deleted
  /\ effect' = [effect EXCEPT ![r] = locked[r] # {}]
  /\ final' = [final EXCEPT ![r] = Facts(granted, deleted, job[r])]
  /\ seen' = [q \in Reqs |->
       IF q \in InFlight THEN seen[q] \cup Facts(granted', deleted', job[q]) ELSE seen[q]]
  /\ \/ job[r].kind = "delete" /\ End(r, "ok")
     \/ /\ job[r].kind # "delete"
        /\ Goto(r, "reread")
        /\ locked' = [locked EXCEPT ![r] = {}]
        /\ UNCHANGED result
  /\ UNCHANGED <<job, held>>

(* The answer is built from a fresh read, which may not find the target.   *)
Reread(r) ==
  /\ pc[r] = "reread"
  /\ End(r, IF job[r].target \in deleted THEN "notfound" ELSE "ok")
  /\ UNCHANGED <<tables, job, held, effect, seen, final>>

(* get_user: the answer is built from the target as SelectTarget has read  *)
(* it, and from its roles, read again.                                     *)
Show(r) ==
  /\ pc[r] = "show"
  /\ effect' = [effect EXCEPT ![r] = TRUE]
  /\ final' = [final EXCEPT ![r] = Facts(granted, deleted, job[r])]
  /\ End(r, "ok")
  /\ UNCHANGED <<tables, job, held, seen>>

(* An exception, a failing statement or a crash.  It may come too late to  *)
(* undo the change.                                                        *)
Abort(r) ==
  /\ r \in InFlight
  /\ \/ pc[r] # "reread" /\ Fail(r)
     \/ /\ pc[r] = "reread"
        /\ End(r, "error")
        /\ UNCHANGED <<tables, job, held, effect, seen, final>>

-----------------------------------------------------------------------------

Init ==
  /\ granted = InitRoles
  /\ deleted = {}
  /\ pc = [r \in Reqs |-> "idle"]
  /\ job = [r \in Reqs |-> NoJob]
  /\ result = [r \in Reqs |-> "none"]
  /\ held = [r \in Reqs |-> {}]
  /\ locked = [r \in Reqs |-> {}]
  /\ effect = [r \in Reqs |-> FALSE]
  /\ seen = [r \in Reqs |-> {}]
  /\ final = [r \in Reqs |-> {}]

Step(r) ==
  \/ AuthSelectRoles(r)
  \/ SelectTarget(r)
  \/ SelectTargetRoles(r)
  \/ LookupRow(r)
  \/ Flush(r)
  \/ Commit(r)
  \/ Reread(r)
  \/ Show(r)

(* Every request is answered: the bound on requests is used up.            *)
Quiet == (\A r \in Reqs : pc[r] = "done") /\ UNCHANGED vars

Next ==
  \/ \E r \in Reqs : (\E j \in Jobs : AuthSelectUser(r, j)) \/ Step(r) \/ Abort(r)
  \/ Quiet

Spec == Init /\ [][Next]_vars

-----------------------------------------------------------------------------
(* Properties                                                              *)

(* Every variable has its type; nobody holds a role that is not in the     *)
(* table roles, and an answered request holds no lock.                     *)
TypeOK ==
  /\ granted \in [Users -> SUBSET Roles]
  /\ deleted \subseteq Users
  /\ pc \in [Reqs -> Labels]
  /\ job \in [Reqs -> Jobs \cup {NoJob}]
  /\ result \in [Reqs -> Outcomes]
  /\ held \in [Reqs -> SUBSET Roles]
  /\ effect \in [Reqs -> BOOLEAN]
  /\ seen \in [Reqs -> SUBSET FactNames]
  /\ final \in [Reqs -> SUBSET FactNames]
  /\ locked \in [Reqs -> SUBSET Rows]
  /\ \A r \in Reqs : locked[r] \subseteq IF r \in InFlight THEN {UserRow(r), RoleRow(r)} ELSE {}

(* What the rules ask of the actor and the target of a job, as facts.      *)
EntitledBy(F, j) ==
  LET self == j.actor = j.target
  IN CASE j.kind = "delete" -> \/ "super" \in F /\ ~self
                               \/ "plain" \in F /\ (self \/ {"entitled", "open"} \subseteq F)
       [] j.kind = "update" -> self \/ "super" \in F \/ {"entitled", "open"} \subseteq F
       [] j.kind = "view"   -> self \/ "entitled" \in F \/ {"manager", "open"} \subseteq F
       [] OTHER -> "entitled" \in F /\ ("super" \in F \/ (j.role # "superadmin" /\ "open" \in F))

Entitled(r) == EntitledBy(seen[r], job[r])

(* A change is made, or a user shown, only by an actor and for a target    *)
(* for whom the rules allowed it on the strength of what was true while    *)
(* the request ran: not with roles lost, nor on a target promoted, nor in  *)
(* the name of a user deleted, before it began.                            *)
ChangesJustified ==
  \A r \in Reqs : effect[r] => Entitled(r) /\ {"actor", "target"} \subseteq seen[r]

(* The answer fits something that was true while the request ran: a role   *)
(* said to be assigned was there, one said to be removed was not, and a    *)
(* conflict was a race with another request.                               *)
AnswersTruthful ==
  \A r \in Reqs :
    /\ result[r] = "ok" /\ job[r].kind = "assign" => "member" \in seen[r]
    /\ result[r] = "ok" /\ job[r].kind = "remove" => "stranger" \in seen[r]
    /\ result[r] = "conflict" => {"member", "stranger"} \subseteq seen[r]

(* Whoever is a superadmin was one to begin with, unless one of those who  *)
(* were has given the role away: no sequence of requests of administrators *)
(* and users, however they interleave, makes a superadmin.                 *)
SuperadminsComeFromSuperadmins ==
  \/ \A u \in Users : Super(granted[u]) => Super(InitRoles[u])
  \/ \E r \in Reqs : /\ effect[r] /\ job[r].kind = "assign" /\ job[r].role = "superadmin"
                     /\ Super(InitRoles[job[r].actor])

ActiveSuperadmins(g, d) == {u \in Users \ d : Super(g[u])}

StepsDown(r) ==
  job[r].kind = "remove" /\ job[r].role = "superadmin" /\ job[r].actor = job[r].target

(* What the request was allowed by was no longer true when it committed.   *)
Overtaken(r) ==
  Entitled(r) /\ ~("actor" \in final[r] /\ EntitledBy(final[r], job[r]))

(* The last superadmin goes only by giving the role up, or because two     *)
(* requests raced, such as superadmins who delete each other: while every  *)
(* change is entitled when it is committed somebody is left.               *)
SuperadminRemains ==
  ActiveSuperadmins(InitRoles, {}) # {} /\ ActiveSuperadmins(granted, deleted) = {}
    => \E r \in Reqs : effect[r] /\ (StepsDown(r) \/ Overtaken(r))

(* The decisions of the code are those of the README's matrix, read for    *)
(* the highest role of the actor, whatever mix of roles there can be.      *)
MatrixHolds ==
  \A a, t \in Users :
    LET row == Row(granted[a])
        col == Column(a = t, granted[t])
    IN /\ CanView(a = t, granted[a], granted[t]) <=> col \in Sees[row]
       /\ CanUpdate(a = t, granted[a], granted[t]) <=> col \in Updates[row]
       /\ CanDelete(a = t, granted[a], granted[t]) <=> col \in Deletes[row]

(* Why the invariants hold: the inductive invariant, request by request.   *)

(* What is true now is among what has been true since the request began.   *)
WitnessInv(r) ==
  r \in InFlight => {"actor"} \cup Facts(granted, deleted, job[r]) \subseteq seen[r]

(* Who has read roles or the target, or passed a check, can account for it.*)
ProgressInv(r) ==
  /\ pc[r] \in Labels \ {"idle", "roles", "done"} =>
       /\ IF Super(held[r]) THEN "super" \in seen[r] ELSE "plain" \in seen[r]
       /\ ~Ordinary(held[r]) => "entitled" \in seen[r]
       /\ "manager" \in held[r] => "manager" \in seen[r]
       /\ job[r].kind \in RoleKinds => ~Ordinary(held[r])
  /\ pc[r] \in {"permit", "lookup", "flush", "commit", "reread", "show"} => "target" \in seen[r]
  /\ pc[r] \in {"lookup", "flush", "commit", "reread", "show"} => Entitled(r)

(* A write in preparation fits what was read.                              *)
WriteInv(r) ==
  /\ pc[r] = "lookup" => job[r].kind \in RoleKinds
  /\ pc[r] \in {"flush", "commit", "reread"} => job[r].kind # "view"
  /\ pc[r] = "reread" => job[r].kind # "delete"
  /\ pc[r] = "show" => job[r].kind = "view"
  /\ pc[r] \in {"flush", "commit"} /\ job[r].kind \in RoleKinds => job[r].role \in Roles
  /\ pc[r] = "flush" /\ job[r].kind = "assign" => "stranger" \in seen[r]
  /\ pc[r] # "commit" => locked[r] = {}
  /\ pc[r] = "commit" /\ job[r].kind \notin RoleKinds => locked[r] \subseteq {UserRow(r)}
  /\ pc[r] = "commit" /\ job[r].kind = "delete" => locked[r] = {UserRow(r)}
  /\ pc[r] = "commit" /\ RoleRow(r) \notin locked[r] =>
       /\ job[r].kind = "assign" => "member" \in seen[r]
       /\ job[r].kind = "remove" => "stranger" \in seen[r]
  /\ pc[r] = "reread" =>
       /\ job[r].kind = "assign" => "member" \in seen[r]
       /\ job[r].kind = "remove" => "stranger" \in seen[r]

(* Answers and effects.                                                    *)
AnswerInv(r) ==
  /\ effect[r] => /\ pc[r] \in {"reread", "done"}
                  /\ Entitled(r)
                  /\ {"actor", "target"} \subseteq seen[r]
  /\ result[r] = "ok" /\ job[r].kind = "assign" => "member" \in seen[r]
  /\ result[r] = "ok" /\ job[r].kind = "remove" => "stranger" \in seen[r]
  /\ result[r] = "conflict" => {"member", "stranger"} \subseteq seen[r]
  /\ pc[r] # "done" => result[r] = "none"
  /\ r \in InFlight => job[r] \in Jobs

RequestInv(r) == WitnessInv(r) /\ ProgressInv(r) /\ WriteInv(r) /\ AnswerInv(r)

Inv == TypeOK /\ \A r \in Reqs : RequestInv(r)

(* What the documentation says and the interleavings break.                *)

(* "A user with the role admin cannot manage roles of users who already    *)
(* have the roles admin or superadmin" (services/users.py).                *)
AdminsSparePrivileged ==
  \A r \in Reqs :
    effect[r] /\ job[r].kind \in RoleKinds /\ ~Super(held[r]) => "open" \in final[r]

=============================================================================
