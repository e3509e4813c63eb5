----------------------------- MODULE RoleRules ------------------------------
(***************************************************************************)
(* Who may see, change, delete and promote whom: the decisions of          *)
(* UserService, as predicates of the roles the actor and the target hold.  *)
(* A user may hold several roles, or none; self says that the actor is the *)
(* target.                                                                 *)
(***************************************************************************)

Privileged == {"admin", "superadmin"}

Super(roles)    == "superadmin" \in roles
Ordinary(roles) == roles \cap Privileged = {}

(* _can_view_user                                                          *)
CanView(self, actor, target) ==
  \/ self
  \/ ~Ordinary(actor)
  \/ "manager" \in actor /\ Ordinary(target)

(* _ensure_can_update_user                                                 *)
CanUpdate(self, actor, target) ==
  \/ self
  \/ Super(actor)
  \/ "admin" \in actor /\ Ordinary(target)

(* variant: a superadmin who is an admin too may delete herself            *)
CanDeleteByAnyRole(self, actor, target) ==
  \/ Super(actor) /\ ~self
  \/ "admin" \in actor /\ (self \/ Ordinary(target))
  \/ self /\ Ordinary(actor)

(* _ensure_can_delete_user: the first role that applies decides.           *)
CanDelete(self, actor, target) ==
  IF Super(actor) THEN ~self
  ELSE self \/ ("admin" \in actor /\ Ordinary(target))

(* variant: the rule about the role superadmin is forgotten                *)
CanManageAnyRole(actor, target, role) ==
  ~Ordinary(actor) /\ (Super(actor) \/ Ordinary(target))

(* _ensure_can_manage_roles                                                *)
CanManage(actor, target, role) ==
  /\ ~Ordinary(actor)
  /\ Super(actor) \/ (role # "superadmin" /\ Ordinary(target))

-----------------------------------------------------------------------------
(* The access matrix of the README: one row for each role.                 *)

Row(roles) ==
  IF Super(roles) THEN "superadmin"
  ELSE IF "admin" \in roles THEN "admin"
  ELSE IF "manager" \in roles THEN "manager"
  ELSE "user"

Column(self, target) ==
  IF self THEN "self" ELSE IF Ordinary(target) THEN "ordinary" ELSE "privileged"

(* The users a row of the matrix lets see, change and delete.              *)
Sees    == [user       |-> {"self"},
            manager    |-> {"self", "ordinary"},
            admin      |-> {"self", "ordinary", "privileged"},
            superadmin |-> {"self", "ordinary", "privileged"}]
Updates == [user       |-> {"self"},
            manager    |-> {"self"},
            admin      |-> {"self", "ordinary"},
            superadmin |-> {"self", "ordinary", "privileged"}]
Deletes == [user       |-> {"self"},
            manager    |-> {"self"},
            admin      |-> {"self", "ordinary"},
            superadmin |-> {"ordinary", "privileged"}]

=============================================================================
