---------------------------- MODULE MCPermissions ----------------------------
(* Permissions on a small instance.                                        *)
EXTENDS Permissions, TLC

CONSTANTS sue, ann, bob, docs

MCInitRoles == (sue :> {"superadmin"}) @@ (ann :> {"admin"}) @@ (bob :> {"user"})

Ask(kind, actor, target, role) ==
  [kind |-> kind, actor |-> actor, target |-> target, role |-> role]

(* Roles are taken from bob and given to him, ann is demoted and deleted.  *)
MCJobs ==
  { Ask("remove", ann, bob, "user"), Ask("assign", ann, bob, "manager"),
    Ask("remove", sue, ann, "admin"), Ask("delete", sue, ann, "none"),
    Ask("delete", bob, bob, "none") }

(* Users may read the documents, managers may not.                         *)
MCTriples == {"user", "manager"} \X {docs} \X {"read"}
MCInitRules == << <<"user", docs, "read">>, <<"manager", docs, "read">> >>
MCInitAllowed == {1}

On(kind, i, v) == [kind |-> kind, triple |-> NoTriple, id |-> i, value |-> v]
MCRuleJobs == { On("update", 2, TRUE), On("update", 1, FALSE), On("delete", 1, FALSE),
  [kind |-> "create", triple |-> <<"user", docs, "read">>, id |-> 0, value |-> TRUE] }

MCWants == { [user |-> bob, resource |-> docs, permission |-> "read"] }

RuleReqSymmetry == Permutations(RuleReqs)

=============================================================================
