---------------------------- MODULE MCRoleAdmin -----------------------------
(* RoleAdmin on small instances.                                           *)
EXTENDS RoleAdmin, TLC

CONSTANTS sue, ann, bob

MCInitRoles == (sue :> {"superadmin"}) @@ (ann :> {"admin"}) @@ (bob :> {"user"})

Ask(kind, actor, target, role) ==
  [kind |-> kind, actor |-> actor, target |-> target, role |-> role]

(* A superadmin promotes and demotes; administrators and users act on each *)
(* other at the same time; an administrator tries the role superadmin, and *)
(* turns on the superadmin when it has it; "ghost" is in no table.         *)
MCJobs ==
  { Ask("assign", sue, bob, "admin"),  Ask("assign", sue, ann, "superadmin"),
    Ask("remove", sue, ann, "admin"),  Ask("remove", sue, bob, "admin"),
    Ask("assign", ann, bob, "manager"), Ask("remove", ann, bob, "user"),
    Ask("remove", ann, bob, "admin"),  Ask("assign", ann, bob, "ghost"),
    Ask("delete", sue, ann, "none"),   Ask("delete", sue, sue, "none"),
    Ask("delete", ann, bob, "none"),   Ask("delete", bob, bob, "none"),
    Ask("update", ann, bob, "none"),   Ask("view", bob, ann, "none"),
    Ask("assign", ann, bob, "superadmin"), Ask("remove", sue, sue, "superadmin"),
    Ask("remove", ann, sue, "superadmin"), Ask("delete", ann, sue, "none"),
    Ask("delete", ann, ann, "none") }

ReqSymmetry == Permutations(Reqs)

=============================================================================
