----------------------------- MODULE Permissions -----------------------------
(***************************************************************************)
(* Who gets at a resource while roles, users and rules change: requests    *)
(* behind require_permission, beside those of RoleAdmin and those of       *)
(* AccessRules, which require_admin_user admits on the roles of the time.  *)
(* All of them meet in the tables users, user_roles and access_rules.      *)
(***************************************************************************)
EXTENDS RoleAdmin, Integers, Sequences

CONSTANTS
  Triples, NoTriple, InitRules, InitAllowed,  (* of AccessRules            *)
  RuleReqs, RuleJobs,  (* the requests about rules, what they may ask for  *)
  Readers,             (* the requests for a resource, each served once    *)
  Wants                (* what they may be: a user, a resource, a          *)
                       (* permission                                       *)

ASSUME PermissionsAssumption ==
  /\ \A t \in Triples : t[1] \in Roles
  /\ \A w \in Wants : w.user \in Users
  /\ NoJob \notin Wants /\ NoJob \notin Users

VARIABLES
  rule, rows, allowed, rulePc, ruleJob, ruleResult, written, ruleSeen, ruleBefore,
  admission,  (* how far a request about rules is authenticated            *)
  manager,    (* its actor                                                 *)
  readPc, want, answer,
  carried,    (* RequestUser.roles of a reader                             *)
  (* History, read by no action.                                           *)
  vouched,    (* facts about the actor of a request about rules, while it  *)
              (* is authenticated                                          *)
  noted       (* facts about a reader's rights, since it began             *)

Rules == INSTANCE AccessRules WITH
  Reqs <- RuleReqs, Jobs <- RuleJobs, pc <- rulePc, job <- ruleJob,
  result <- ruleResult, seen <- ruleSeen, before <- ruleBefore

ruleVars == <<rule, rows, allowed, rulePc, ruleJob, ruleResult, written, ruleSeen, ruleBefore>>
readVars == <<readPc, want, answer, carried>>
permVars == <<vars, ruleVars, admission, manager, readVars, vouched, noted>>

-----------------------------------------------------------------------------

(* What AccessRules assumes of its constants.                              *)
ASSUME RulesAssumption ==
  /\ InitRules \in Seq(Triples)
  /\ \A i, k \in DOMAIN InitRules : InitRules[i] = InitRules[k] => i = k
  /\ InitAllowed \subseteq DOMAIN InitRules
  /\ NoTriple \notin Triples
  /\ RuleJobs \subseteq Rules!AllJobs /\ NoJob \notin Rules!AllJobs
  /\ \A j \in RuleJobs : /\ j.kind = "create" => j.id = 0
                         /\ j.kind # "create" => j.triple = NoTriple

Granting(R, A) == {t \in Triples : Rules!Grants(R, A, t)}

(* The SELECT of has_permission, with the user's role names.               *)
Permits(names, granting, w) ==
  \E name \in names : <<name, w.resource, w.permission>> \in granting

Rights == {"active", "barred", "permitted", "forbidden"}

(* What a reader may have to answer for, given users, user_roles and what  *)
(* the rules grant.                                                        *)
RightsOf(w, g, d, granting) ==
  {f \in Rights :
     \/ f = "active"    /\ w.user \notin d
     \/ f = "barred"    /\ w.user \in d
     \/ f = "permitted" /\ Permits(g[w.user], granting, w)
     \/ f = "forbidden" /\ ~Permits(g[w.user], granting, w)}

Current(r) == RightsOf(want[r], granted, deleted, Granting(rows, allowed))

Reading == {r \in Readers : readPc[r] \notin {"idle", "done"}}

Standings == {"present", "administrator"}

(* What an actor of a request about rules has to be.                       *)
Standing(q) ==
  {f \in Standings :
     \/ f = "present"       /\ manager[q] \notin deleted
     \/ f = "administrator" /\ ~Ordinary(granted[manager[q]])}

(* The history is kept of the tables after the step.                       *)
Note ==
  /\ noted' = [r \in Readers |->
       IF readPc'[r] \in {"idle", "done"} THEN noted[r] ELSE noted[r] \cup Current(r)']
  /\ vouched' = [q \in RuleReqs |->
       IF admission'[q] = "roles" THEN vouched[q] \cup Standing(q)' ELSE vouched[q]]

-----------------------------------------------------------------------------
(* A step of a request of RoleAdmin.                                       *)

RoleStep(r) ==
  /\ (\E j \in Jobs : AuthSelectUser(r, j)) \/ Step(r) \/ Abort(r)
  /\ UNCHANGED <<ruleVars, admission, manager, readVars>>

-----------------------------------------------------------------------------
(* The requests about rules: require_admin_user, then AccessAdminService   *)

Admit(q, how) ==
  /\ admission' = [admission EXCEPT ![q] = how]
  /\ UNCHANGED <<vars, ruleVars, readVars>>

(* variant: is_active and deleted_at are not looked at                     *)
RuleSelectUserAnyone(q, u) ==
  /\ admission[q] = "none"
  /\ Admit(q, "roles")
  /\ manager' = [manager EXCEPT ![q] = u]

RuleSelectUser(q, u) ==
  /\ admission[q] = "none"
  /\ Admit(q, IF u \in deleted THEN "refused" ELSE "roles")
  /\ manager' = [manager EXCEPT ![q] = u]

RuleSelectRoles(q) ==
  /\ admission[q] = "roles"
  /\ Admit(q, IF Ordinary(ActorRoles(manager[q])) THEN "refused" ELSE "admitted")
  /\ UNCHANGED manager

RuleStep(q) ==
  /\ admission[q] = "admitted"
  /\ \/ \E j \in RuleJobs : Rules!FindRule(q, j) \/ Rules!GetRule(q, j)
     \/ Rules!Step(q) \/ Rules!Abort(q)
  /\ UNCHANGED <<vars, admission, manager, readVars>>

-----------------------------------------------------------------------------
(* The requests for a resource: get_current_user, require_permission, and  *)
(* an answer of fixed data (api/v1/mock.py)                                *)

ReadGoto(r, label) == readPc' = [readPc EXCEPT ![r] = label] /\ UNCHANGED answer

ReadAnswer(r, outcome) ==
  /\ readPc' = [readPc EXCEPT ![r] = "done"]
  /\ answer' = [answer EXCEPT ![r] = outcome]

ReadSelectUser(r, w) ==
  /\ readPc[r] = "idle"
  /\ want' = [want EXCEPT ![r] = w]
  /\ \/ w.user \notin deleted /\ ReadGoto(r, "roles")
     \/ w.user \in deleted /\ ReadAnswer(r, "unavailable")
  /\ UNCHANGED <<vars, ruleVars, admission, manager, carried>>

ReadSelectRoles(r) ==
  /\ readPc[r] = "roles"
  /\ carried' = [carried EXCEPT ![r] = ActorRoles(want[r].user)]
  /\ ReadGoto(r, "permission")
  /\ UNCHANGED <<vars, ruleVars, admission, manager, want>>

(* variant: the roles read with the user are joined to the rules           *)
MayPassAsRead(r) == Permits(carried[r], Granting(rows, allowed), want[r])

(* has_permission: one SELECT joins the user's roles and the rules.        *)
MayPass(r) == Permits(granted[want[r].user], Granting(rows, allowed), want[r])

RequirePermission(r) ==
  /\ readPc[r] = "permission"
  /\ ReadAnswer(r, IF MayPass(r) THEN "ok" ELSE "refused")
  /\ UNCHANGED <<vars, ruleVars, admission, manager, want, carried>>

-----------------------------------------------------------------------------

PermInit ==
  /\ Init
  /\ Rules!Init
  /\ admission = [q \in RuleReqs |-> "none"]
  /\ manager = [q \in RuleReqs |-> NoJob]
  /\ readPc = [r \in Readers |-> "idle"]
  /\ want = [r \in Readers |-> NoJob]
  /\ answer = [r \in Readers |-> "none"]
  /\ carried = [r \in Readers |-> {}]
  /\ vouched = [q \in RuleReqs |-> {}]
  /\ noted = [r \in Readers |-> {}]

(* Every request is answered: the bound on requests is used up.            *)
PermQuiet ==
  /\ \A r \in Reqs : pc[r] = "done"
  /\ \A q \in RuleReqs : admission[q] = "refused" \/ rulePc[q] = "done"
  /\ \A r \in Readers : readPc[r] = "done"
  /\ UNCHANGED permVars

PermNext ==
  \/ /\ \/ \E r \in Reqs : RoleStep(r)
        \/ \E q \in RuleReqs :
             (\E u \in Users : RuleSelectUser(q, u)) \/ RuleSelectRoles(q) \/ RuleStep(q)
        \/ \E r \in Readers :
             (\E w \in Wants : ReadSelectUser(r, w)) \/ ReadSelectRoles(r) \/ RequirePermission(r)
     /\ Note
  \/ PermQuiet

PermSpec == PermInit /\ [][PermNext]_permVars

-----------------------------------------------------------------------------
(* Properties                                                              *)

(* Every variable has its type, those of RoleAdmin and AccessRules by      *)
(* their own invariants, which their composition does not disturb.         *)
PermTypeOK ==
  /\ TypeOK /\ Rules!TypeOK
  /\ admission \in [RuleReqs -> {"none", "roles", "admitted", "refused"}]
  /\ manager \in [RuleReqs -> Users \cup {NoJob}]
  /\ readPc \in [Readers -> {"idle", "roles", "permission", "done"}]
  /\ want \in [Readers -> Wants \cup {NoJob}]
  /\ answer \in [Readers -> {"none", "ok", "unavailable", "refused"}]
  /\ carried \in [Readers -> SUBSET Roles]
  /\ vouched \in [RuleReqs -> SUBSET Standings]
  /\ noted \in [Readers -> SUBSET Rights]

(* A resource is shown only if the user was there, and at one moment while *)
(* the request ran a role the user had then was granted the permission: so *)
(* not after a role, a rule or the user is gone, and not on a role held at *)
(* one time and a rule made at another.  It is refused only if the right   *)
(* was missing while the request ran.                                      *)
AccessJustified ==
  \A r \in Readers :
    /\ answer[r] = "ok" => {"active", "permitted"} \subseteq noted[r]
    /\ answer[r] = "refused" => "forbidden" \in noted[r]

(* Nothing is done about rules but for an actor who was there, and was an  *)
(* administrator, while the request was authenticated: who was deleted, or *)
(* had lost the roles, before it came can no longer make himself a right.  *)
RulesByAdmins == \A q \in RuleReqs : rulePc[q] # "idle" => Standings \subseteq vouched[q]

=============================================================================
