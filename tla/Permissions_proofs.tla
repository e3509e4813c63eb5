------------------------- MODULE Permissions_proofs --------------------------
(* Proofs about Permissions, for any users, roles, rules and requests.     *)
EXTENDS Permissions, RoleAdmin_proofs

-----------------------------------------------------------------------------
(* The composition adds nothing to its parts                               *)

(* To the tables of users and roles, the composition is RoleAdmin: readers *)
(* and requests about rules leave them alone, whatever they read.          *)
THEOREM RolesUndisturbed == PermSpec => Spec
<1>1. PermInit => Init
  BY DEF PermInit
<1>2. [PermNext]_permVars => [Next]_vars
  <2> SUFFICES ASSUME PermNext PROVE Next \/ UNCHANGED vars
    BY DEF permVars
  <2>1. ASSUME NEW r \in Reqs, RoleStep(r) PROVE Next
    BY <2>1 DEF RoleStep, Next
  <2>2. ASSUME NEW q \in RuleReqs,
               (\E u \in Users : RuleSelectUser(q, u)) \/ RuleSelectRoles(q) \/ RuleStep(q)
        PROVE  UNCHANGED vars
    BY <2>2 DEF RuleSelectUser, RuleSelectRoles, RuleStep, Admit
  <2>3. ASSUME NEW r \in Readers,
               (\E w \in Wants : ReadSelectUser(r, w)) \/ ReadSelectRoles(r) \/ RequirePermission(r)
        PROVE  UNCHANGED vars
    BY <2>3 DEF ReadSelectUser, ReadSelectRoles, RequirePermission
  <2>4. CASE PermQuiet
    BY <2>4 DEF PermQuiet, permVars
  <2> QED BY <2>1, <2>2, <2>3, <2>4 DEF PermNext
<1> QED BY <1>1, <1>2, PTL DEF PermSpec, Spec

(* To the rules it is AccessRules, whose requests are only begun later,    *)
(* after their authentication, or not at all.                              *)
THEOREM RulesUndisturbed == PermSpec => Rules!Spec
<1>1. PermInit => Rules!Init
  BY DEF PermInit
<1>2. [PermNext]_permVars => [Rules!Next]_(Rules!vars)
  <2> SUFFICES ASSUME PermNext \/ UNCHANGED permVars PROVE Rules!Next \/ UNCHANGED Rules!vars
    OBVIOUS
  <2> DEFINE Still == UNCHANGED ruleVars
  <2>1. Still => UNCHANGED Rules!vars
    BY DEF ruleVars, Rules!vars, Rules!table
  <2>2. ASSUME NEW r \in Reqs, RoleStep(r) PROVE Still
    BY <2>2 DEF RoleStep
  <2>3. ASSUME NEW q \in RuleReqs, RuleStep(q) PROVE Rules!Next
    BY <2>3 DEF RuleStep, Rules!Next
  <2>4. ASSUME NEW q \in RuleReqs, (\E u \in Users : RuleSelectUser(q, u)) \/ RuleSelectRoles(q)
        PROVE  Still
    BY <2>4 DEF RuleSelectUser, RuleSelectRoles, Admit
  <2>5. ASSUME NEW r \in Readers,
               (\E w \in Wants : ReadSelectUser(r, w)) \/ ReadSelectRoles(r) \/ RequirePermission(r)
        PROVE  Still
    BY <2>5 DEF ReadSelectUser, ReadSelectRoles, RequirePermission
  <2>6. CASE PermQuiet \/ UNCHANGED permVars
    BY <2>1, <2>6 DEF PermQuiet, permVars
  <2> HIDE DEF Still
  <2> QED BY <2>1, <2>2, <2>3, <2>4, <2>5, <2>6 DEF PermNext
<1> QED BY <1>1, <1>2, PTL DEF PermSpec, Rules!Spec

-----------------------------------------------------------------------------
(* Typing                                                                  *)

(* What is proved about AccessRules, about the rules of the composition.   *)
RulesProved == INSTANCE AccessRules_proofs WITH
  Reqs <- RuleReqs, Jobs <- RuleJobs, pc <- rulePc, job <- ruleJob,
  result <- ruleResult, seen <- ruleSeen, before <- ruleBefore

LEMMA SameRules == Rules!Spec => RulesProved!Spec
<1>1. Rules!Init => RulesProved!Init
  BY DEF Rules!Init, RulesProved!Init
<1>2. [Rules!Next]_(Rules!vars) => [RulesProved!Next]_(RulesProved!vars)
  BY DEF Rules!FindRule, RulesProved!FindRule, Rules!GetRule, RulesProved!GetRule, Rules!Insert, RulesProved!Insert, Rules!Flush, RulesProved!Flush, Rules!Commit, RulesProved!Commit, Rules!List, RulesProved!List, Rules!Abort, RulesProved!Abort, Rules!Begin, RulesProved!Begin, Rules!Goto, RulesProved!Goto, Rules!Answer, RulesProved!Answer, Rules!Free, RulesProved!Free, Rules!InFlight, RulesProved!InFlight, Rules!Facts, RulesProved!Facts, Rules!FactNames, RulesProved!FactNames, Rules!Matching, RulesProved!Matching, Rules!Grants, RulesProved!Grants, Rules!Says, RulesProved!Says, Rules!table, RulesProved!table, Rules!vars, RulesProved!vars, Rules!Quiet, RulesProved!Quiet, Rules!Step, RulesProved!Step, Rules!Next, RulesProved!Next, Rules!Init, RulesProved!Init
<1> QED BY <1>1, <1>2, PTL DEF Rules!Spec, RulesProved!Spec

LEMMA RulesTyped == PermSpec => []Rules!TypeOK
<1>1. Rules!AllJobs = RulesProved!AllJobs
  BY DEF Rules!AllJobs, RulesProved!AllJobs, Rules!Kinds, RulesProved!Kinds
<1>2. RulesProved!Spec => []RulesProved!TypeOK
  BY <1>1, RulesProved!TypeCorrect, RulesAssumption
<1>3. RulesProved!TypeOK => Rules!TypeOK
  BY <1>1 DEF Rules!TypeOK, RulesProved!TypeOK, Rules!Labels, RulesProved!Labels,
     Rules!Outcomes, RulesProved!Outcomes, Rules!FactNames, RulesProved!FactNames
<1> QED BY <1>2, <1>3, RulesUndisturbed, SameRules, PTL

-----------------------------------------------------------------------------
(* Rules by administrators                                                 *)

(* A request about rules is admitted before it does anything.  Its actor   *)
(* was there when it came, and that he is an administrator is noted while  *)
(* it is true, so when it is read.                                         *)
Admitted(q) ==
  /\ rulePc[q] # "idle" => admission[q] = "admitted"
  /\ admission[q] = "admitted" => Standings \subseteq vouched[q]
  /\ admission[q] = "roles" =>
       /\ manager[q] \in Users
       /\ "present" \in vouched[q]
       /\ ~Ordinary(granted[manager[q]]) => "administrator" \in vouched[q]

AdmissionInv ==
  /\ DOMAIN rulePc = RuleReqs
  /\ admission \in [RuleReqs -> {"none", "roles", "admitted", "refused"}]
  /\ manager \in [RuleReqs -> Users \cup {NoJob}]
  /\ vouched \in [RuleReqs -> SUBSET Standings]
  /\ \A q \in RuleReqs : Admitted(q)

(* No step of AccessRules takes another request than its own further.      *)
LEMMA RuleStepsAreLocal ==
  ASSUME NEW q \in RuleReqs, RuleStep(q)
  PROVE  \E label : rulePc' = [rulePc EXCEPT ![q] = label]
<1>1. ASSUME NEW j \in RuleJobs, Rules!FindRule(q, j) \/ Rules!GetRule(q, j)
      PROVE  \E label : rulePc' = [rulePc EXCEPT ![q] = label]
  BY <1>1 DEF Rules!FindRule, Rules!GetRule, Rules!Answer, Rules!Goto
<1>2. ASSUME Rules!Step(q) \/ Rules!Abort(q)
      PROVE  \E label : rulePc' = [rulePc EXCEPT ![q] = label]
  BY <1>2 DEF Rules!Step, Rules!Insert, Rules!Flush, Rules!Commit, Rules!List, Rules!Abort,
              Rules!Answer, Rules!Goto
<1> QED BY <1>1, <1>2 DEF RuleStep

(* What is noted of the actors at a step.                                  *)
LEMMA Vouched ==
  ASSUME AdmissionInv, Note
  PROVE  /\ vouched' \in [RuleReqs -> SUBSET Standings]
         /\ \A q \in RuleReqs :
              /\ vouched[q] \subseteq vouched'[q]
              /\ admission'[q] = "roles" =>
                   /\ manager'[q] \notin deleted' => "present" \in vouched'[q]
                   /\ ~Ordinary(granted'[manager'[q]]) => "administrator" \in vouched'[q]
<1>1. vouched \in [RuleReqs -> SUBSET Standings]
  BY DEF AdmissionInv
<1>2. vouched' = [q \in RuleReqs |->
        IF admission'[q] = "roles" THEN vouched[q] \cup Standing(q)' ELSE vouched[q]]
  BY DEF Note
<1>3. \A q \in RuleReqs :
        /\ Standing(q)' \subseteq Standings
        /\ manager'[q] \notin deleted' => "present" \in Standing(q)'
        /\ ~Ordinary(granted'[manager'[q]]) => "administrator" \in Standing(q)'
  BY DEF Standing, Standings, Ordinary
<1> HIDE DEF Standing, Standings
<1> QED BY <1>1, <1>2, <1>3

(* A request that does not move, whatever becomes of users and roles.      *)
LEMMA AdmissionFrame ==
  ASSUME AdmissionInv, Note, NEW q \in RuleReqs,
         rulePc'[q] = rulePc[q], admission'[q] = admission[q], manager'[q] = manager[q]
  PROVE  Admitted(q)'
BY Vouched DEF AdmissionInv, Admitted

LEMMA AdmissionInit == PermInit => AdmissionInv
BY DEF PermInit, AdmissionInv, Admitted, Rules!Init

LEMMA AdmissionStep == AdmissionInv /\ [PermNext]_permVars => AdmissionInv'
<1> SUFFICES ASSUME AdmissionInv, [PermNext]_permVars PROVE AdmissionInv'
  OBVIOUS
<1> DEFINE Still == rulePc' = rulePc /\ admission' = admission /\ manager' = manager
<1>1. ASSUME Still, Note PROVE AdmissionInv'
  BY <1>1, Vouched, AdmissionFrame DEF AdmissionInv
<1>2. ASSUME NEW r \in Reqs, RoleStep(r), Note PROVE AdmissionInv'
  BY <1>1, <1>2 DEF RoleStep, ruleVars
<1>3. ASSUME NEW r \in Readers, Note,
             (\E w \in Wants : ReadSelectUser(r, w)) \/ ReadSelectRoles(r) \/ RequirePermission(r)
      PROVE  AdmissionInv'
  BY <1>1, <1>3 DEF ReadSelectUser, ReadSelectRoles, RequirePermission, ruleVars
<1>4. ASSUME NEW q \in RuleReqs, NEW u \in Users, RuleSelectUser(q, u), Note
      PROVE  AdmissionInv'
  <2>1. /\ deleted' = deleted /\ rulePc' = rulePc /\ admission[q] = "none"
        /\ admission' = [admission EXCEPT ![q] = IF u \in deleted THEN "refused" ELSE "roles"]
        /\ manager' = [manager EXCEPT ![q] = u]
    BY <1>4 DEF RuleSelectUser, Admit, ruleVars, vars, tables
  <2>2. /\ manager'[q] = u /\ rulePc'[q] = "idle"
        /\ admission'[q] = IF u \in deleted THEN "refused" ELSE "roles"
    BY <2>1 DEF AdmissionInv, Admitted
  <2>3. Admitted(q)'
    BY <1>4, <2>1, <2>2, Vouched DEF Admitted
  <2>4. \A p \in RuleReqs \ {q} : Admitted(p)'
    BY <1>4, <2>1, AdmissionFrame
  <2> QED BY <1>4, <2>1, <2>3, <2>4, Vouched DEF AdmissionInv
<1>5. ASSUME NEW q \in RuleReqs, RuleSelectRoles(q), Note PROVE AdmissionInv'
  <2>1. /\ rulePc' = rulePc /\ manager' = manager /\ admission[q] = "roles"
        /\ admission' = [admission EXCEPT ![q] =
             IF Ordinary(granted[manager[q]]) THEN "refused" ELSE "admitted"]
    BY <1>5 DEF RuleSelectRoles, Admit, ActorRoles, ruleVars
  <2>2. /\ rulePc'[q] = "idle"
        /\ admission'[q] = IF Ordinary(granted[manager[q]]) THEN "refused" ELSE "admitted"
        /\ admission'[q] = "admitted" => Standings \subseteq vouched[q]
    BY <2>1 DEF AdmissionInv, Admitted, Standings
  <2>3. Admitted(q)'
    BY <1>5, <2>2, Vouched DEF Admitted
  <2>4. \A p \in RuleReqs \ {q} : Admitted(p)'
    BY <1>5, <2>1, AdmissionFrame
  <2> QED BY <1>5, <2>1, <2>3, <2>4, Vouched DEF AdmissionInv
<1>6. ASSUME NEW q \in RuleReqs, RuleStep(q), Note PROVE AdmissionInv'
  <2>1. PICK label : rulePc' = [rulePc EXCEPT ![q] = label]
    BY <1>6, RuleStepsAreLocal
  <2>2. admission[q] = "admitted" /\ admission' = admission /\ manager' = manager
    BY <1>6 DEF RuleStep
  <2>3. Admitted(q)'
    BY <1>6, <2>2, Vouched DEF AdmissionInv, Admitted
  <2>4. \A p \in RuleReqs \ {q} : Admitted(p)'
    BY <1>6, <2>1, <2>2, AdmissionFrame DEF AdmissionInv
  <2> QED BY <1>6, <2>1, <2>2, <2>3, <2>4, Vouched DEF AdmissionInv
<1>7. CASE PermQuiet \/ UNCHANGED permVars
  BY <1>7 DEF PermQuiet, permVars, ruleVars, vars, tables, AdmissionInv, Admitted
<1> QED BY <1>2, <1>3, <1>4, <1>5, <1>6, <1>7 DEF PermNext

(* Rules are changed only for those who were there, and administrators,    *)
(* while they were being authenticated, for any number of requests about   *)
(* users, roles and rules: no order of authentication, role check and      *)
(* statements leaves a way round.                                          *)
THEOREM OnlyAdministratorsRule == PermSpec => []RulesByAdmins
<1>1. AdmissionInv => RulesByAdmins
  BY DEF AdmissionInv, Admitted, RulesByAdmins
<1> QED BY <1>1, AdmissionInit, AdmissionStep, PTL DEF PermSpec

-----------------------------------------------------------------------------
(* Access justified                                                        *)

(* What is true now is noted of every reader under way, who was there when *)
(* it began.                                                               *)
ReaderInv(r) ==
  /\ r \in Reading =>
       /\ want[r] \in Wants
       /\ "active" \in noted[r]
       /\ Current(r) \subseteq noted[r]
  /\ r \in Reading \/ readPc[r] = "idle" => answer[r] = "none"
  /\ answer[r] = "ok" => {"active", "permitted"} \subseteq noted[r]
  /\ answer[r] = "refused" => "forbidden" \in noted[r]

ReadersInv ==
  /\ readPc \in [Readers -> {"idle", "roles", "permission", "done"}]
  /\ want \in [Readers -> Wants \cup {NoJob}]
  /\ answer \in [Readers -> {"none", "ok", "unavailable", "refused"}]
  /\ noted \in [Readers -> SUBSET Rights]
  /\ \A r \in Readers : ReaderInv(r)

LEMMA ReadersInit == PermInit => ReadersInv
BY DEF PermInit, ReadersInv, ReaderInv, Reading

(* A reader that does not move learns what the tables have become.         *)
LEMMA Unmoved ==
  ASSUME ReadersInv, Note, NEW r \in Readers,
         readPc'[r] = readPc[r], want'[r] = want[r], answer'[r] = answer[r]
  PROVE  ReaderInv(r)'
BY DEF ReadersInv, ReaderInv, Reading, Note

LEMMA NotedTyped ==
  ASSUME ReadersInv, Note PROVE noted' \in [Readers -> SUBSET Rights]
<1>1. \A r \in Readers : Current(r)' \subseteq Rights
  BY DEF Current, RightsOf
<1>2. noted' = [r \in Readers |->
        IF readPc'[r] \in {"idle", "done"} THEN noted[r] ELSE noted[r] \cup Current(r)']
  BY DEF Note
<1> QED BY <1>1, <1>2 DEF ReadersInv

(* Steps of the other requests, which may change every table.              *)
LEMMA ReadersFrame ==
  ASSUME ReadersInv, Note, UNCHANGED readVars
  PROVE  ReadersInv'
<1>1. \A r \in Readers : ReaderInv(r)'
  BY Unmoved DEF readVars
<1> QED BY <1>1, NotedTyped DEF ReadersInv, readVars

(* A step of one reader leaves the others alone.                           *)
LEMMA ReadersOwn ==
  ASSUME ReadersInv, Note, NEW r \in Readers,
         NEW p \in {"idle", "roles", "permission", "done"},
         NEW a \in {"none", "ok", "unavailable", "refused"},
         NEW w \in Wants \cup {NoJob},
         readPc' = [readPc EXCEPT ![r] = p], answer' = [answer EXCEPT ![r] = a],
         want' = [want EXCEPT ![r] = w], ReaderInv(r)'
  PROVE  ReadersInv'
<1>1. ASSUME NEW q \in Readers, q # r PROVE ReaderInv(q)'
  BY <1>1, Unmoved DEF ReadersInv
<1> QED BY <1>1, NotedTyped DEF ReadersInv

LEMMA SelectUserKeeps ==
  ASSUME ReadersInv, Note, NEW r \in Readers, NEW w \in Wants, ReadSelectUser(r, w)
  PROVE  ReadersInv'
<1>1. readPc[r] = "idle" /\ want' = [want EXCEPT ![r] = w] /\ deleted' = deleted
  BY DEF ReadSelectUser, vars, tables
<1>2. CASE w.user \notin deleted /\ ReadGoto(r, "roles")
  <2>1. readPc' = [readPc EXCEPT ![r] = "roles"] /\ answer' = answer
    BY <1>2 DEF ReadGoto
  <2>2. readPc'[r] = "roles" /\ want'[r] = w /\ answer'[r] = "none"
    BY <1>1, <2>1 DEF ReadersInv, ReaderInv
  <2>3. noted'[r] = noted[r] \cup Current(r)'
    BY <2>2 DEF Note
  <2>4. "active" \in noted'[r]
    BY <1>1, <1>2, <2>2, <2>3 DEF Current, RightsOf, Rights
  <2>5. ReaderInv(r)'
    BY <2>2, <2>3, <2>4 DEF ReaderInv, Reading
  <2>6. answer' = [answer EXCEPT ![r] = "none"]
    BY <2>1, <2>2 DEF ReadersInv
  <2> QED BY <1>1, <2>1, <2>5, <2>6, ReadersOwn
<1>3. CASE ReadAnswer(r, "unavailable")
  <2>1. readPc' = [readPc EXCEPT ![r] = "done"] /\ answer' = [answer EXCEPT ![r] = "unavailable"]
    BY <1>3 DEF ReadAnswer
  <2>2. ReaderInv(r)'
    BY <2>1 DEF ReadersInv, ReaderInv, Reading
  <2> QED BY <1>1, <2>1, <2>2, ReadersOwn
<1> QED BY <1>2, <1>3 DEF ReadSelectUser

LEMMA SelectRolesKeeps ==
  ASSUME ReadersInv, Note, NEW r \in Readers, ReadSelectRoles(r)
  PROVE  ReadersInv'
<1>1. /\ readPc[r] = "roles" /\ readPc' = [readPc EXCEPT ![r] = "permission"]
      /\ answer' = answer /\ want' = want
  BY DEF ReadSelectRoles, ReadGoto
<1>2. answer' = [answer EXCEPT ![r] = answer[r]] /\ want' = [want EXCEPT ![r] = want[r]]
  BY <1>1 DEF ReadersInv
<1>3. ReaderInv(r)'
  BY <1>1 DEF ReadersInv, ReaderInv, Reading, Note
<1> QED BY <1>1, <1>2, <1>3, ReadersOwn DEF ReadersInv

(* The SELECT finds what is true at that moment, which has been noted.     *)
LEMMA RequirePermissionKeeps ==
  ASSUME ReadersInv, Note, NEW r \in Readers, RequirePermission(r)
  PROVE  ReadersInv'
<1> DEFINE a == IF MayPass(r) THEN "ok" ELSE "refused"
<1>1. /\ readPc[r] = "permission" /\ readPc' = [readPc EXCEPT ![r] = "done"]
      /\ answer' = [answer EXCEPT ![r] = a] /\ want' = want
  BY DEF RequirePermission, ReadAnswer
<1>2. want' = [want EXCEPT ![r] = want[r]]
  BY <1>1 DEF ReadersInv
<1>3. /\ "active" \in noted[r]
      /\ MayPass(r) => "permitted" \in noted[r]
      /\ ~MayPass(r) => "forbidden" \in noted[r]
  BY <1>1 DEF ReadersInv, ReaderInv, Reading, Current, RightsOf, Rights, MayPass
<1>4. noted'[r] = noted[r] /\ readPc'[r] = "done" /\ answer'[r] = a
  BY <1>1 DEF ReadersInv, Note
<1>5. ReaderInv(r)'
  BY <1>3, <1>4 DEF ReaderInv, Reading
<1> QED BY <1>1, <1>2, <1>5, ReadersOwn DEF ReadersInv

LEMMA ReadersStep == ReadersInv /\ [PermNext]_permVars => ReadersInv'
<1> SUFFICES ASSUME ReadersInv, [PermNext]_permVars PROVE ReadersInv'
  OBVIOUS
<1>1. ASSUME NEW r \in Reqs, RoleStep(r), Note PROVE ReadersInv'
  BY <1>1, ReadersFrame DEF RoleStep
<1>2. ASSUME NEW q \in RuleReqs, Note,
             (\E u \in Users : RuleSelectUser(q, u)) \/ RuleSelectRoles(q) \/ RuleStep(q)
      PROVE  ReadersInv'
  BY <1>2, ReadersFrame DEF RuleSelectUser, RuleSelectRoles, RuleStep, Admit
<1>3. ASSUME NEW r \in Readers, Note,
             (\E w \in Wants : ReadSelectUser(r, w)) \/ ReadSelectRoles(r) \/ RequirePermission(r)
      PROVE  ReadersInv'
  BY <1>3, SelectUserKeeps, SelectRolesKeeps, RequirePermissionKeeps
<1>4. CASE PermQuiet \/ UNCHANGED permVars
  BY <1>4 DEF PermQuiet, permVars, vars, tables, ruleVars, readVars, ReadersInv, ReaderInv,
              Reading, Current, Granting, Rules!Grants, Rules!Matching
<1> QED BY <1>1, <1>2, <1>3, <1>4 DEF PermNext

(* A resource is shown only to a user that was there and had, at one       *)
(* moment, both the role and the rule; it is refused only for a right that *)
(* was missing: for any changes of roles, rules and users at any statement *)
(* of a reader.                                                            *)
THEOREM AccessIsJustified == PermSpec => []AccessJustified
<1>1. ReadersInv => AccessJustified
  BY DEF ReadersInv, ReaderInv, AccessJustified
<1> QED BY <1>1, ReadersInit, ReadersStep, PTL DEF PermSpec

-----------------------------------------------------------------------------
(* Typing of the composition                                               *)

OwnTyped ==
  /\ AdmissionInv /\ ReadersInv
  /\ carried \in [Readers -> SUBSET Roles]

LEMMA OwnInit == PermInit => OwnTyped
BY AdmissionInit, ReadersInit DEF PermInit, OwnTyped

LEMMA OwnStep == OwnTyped /\ TypeOK /\ [PermNext]_permVars => OwnTyped'
<1> SUFFICES ASSUME OwnTyped, TypeOK, [PermNext]_permVars PROVE OwnTyped'
  OBVIOUS
<1>1. AdmissionInv' /\ ReadersInv'
  BY AdmissionStep, ReadersStep DEF OwnTyped
<1>2. carried' \in [Readers -> SUBSET Roles]
  <2>1. ASSUME NEW r \in Readers, ReadSelectRoles(r) PROVE carried' \in [Readers -> SUBSET Roles]
    <3>1. want[r].user \in Users
      BY <2>1, PermissionsAssumption DEF OwnTyped, ReadersInv, ReaderInv, Reading, ReadSelectRoles
    <3> QED BY <2>1, <3>1 DEF OwnTyped, ReadSelectRoles, ActorRoles, TypeOK
  <2> QED BY <2>1 DEF OwnTyped, PermNext, RoleStep, RuleSelectUser, RuleSelectRoles, RuleStep, Admit,
             ReadSelectUser, RequirePermission, PermQuiet, permVars, readVars
<1> QED BY <1>1, <1>2 DEF OwnTyped

(* With all three kinds of requests at once every variable keeps its type: *)
(* those of the roles and of the rules by the theorems about their own     *)
(* modules, which the composition does not disturb.                        *)
THEOREM PermTypeCorrect == PermSpec => []PermTypeOK
<1>1. PermSpec => []TypeOK
  BY RolesUndisturbed, TypeCorrect, PTL
<1>2. TypeOK /\ Rules!TypeOK /\ OwnTyped => PermTypeOK
  BY DEF PermTypeOK, OwnTyped, AdmissionInv, ReadersInv
<1> QED BY <1>1, <1>2, RulesTyped, OwnInit, OwnStep, PTL DEF PermSpec

=============================================================================
