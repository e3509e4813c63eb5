---------------------------- MODULE AccessRules -----------------------------
(***************************************************************************)
(* The administration of access_rules: creating, changing and deleting     *)
(* rules, as the requests interleave.  Statements, transactions and locks  *)
(* are those of AuthSessions: one SQL statement is one step, in a READ     *)
(* COMMITTED transaction for each request.  Who may do this is             *)
(* require_admin_user's affair (RoleAdmin); the requests here passed it.   *)
(*                                                                         *)
(* No constraint of the table, only the SELECT of create_rule, keeps the   *)
(* rules of a role, resource and permission from being doubled.            *)
(***************************************************************************)
EXTENDS Integers, Sequences, FiniteSets

CONSTANTS
  Triples,      (* <<role, resource, permission>> whose parts all exist    *)
  Reqs,         (* the HTTP requests, each served once                     *)
  Jobs,         (* what requests may ask for                               *)
  NoTriple,     (* stands for the triple of a request not known to have one*)
  NoJob,        (* what a request asks for that is not being served        *)
  InitRules,    (* the triples of the rules at the beginning, by id        *)
  InitAllowed   (* the ids of those that allow                             *)

Kinds    == {"create", "update", "delete"}
AllJobs  == [kind : Kinds, triple : Triples \cup {j.triple : j \in Jobs}, id : Nat, value : BOOLEAN]

(* A job has its triple and no id to create a rule, its id and no triple   *)
(* to change or to delete one.  The triple asked for need not exist.       *)
ASSUME AccessRulesAssumption ==
  /\ InitRules \in Seq(Triples)
  /\ \A i, k \in DOMAIN InitRules : InitRules[i] = InitRules[k] => i = k
  /\ InitAllowed \subseteq DOMAIN InitRules
  /\ NoTriple \notin Triples
  /\ Jobs \subseteq AllJobs /\ NoJob \notin AllJobs
  /\ \A j \in Jobs : /\ j.kind = "create" => j.id = 0
                     /\ j.kind # "create" => j.triple = NoTriple

Labels   == {"idle", "insert", "flush", "commit", "list", "done"}
(* broken: 500 though nothing failed; aborted: something did.              *)
Outcomes == {"none", "ok", "notfound", "conflict", "broken", "aborted"}

VARIABLES
  rule,       (* rule[i]: the triple of the rule with id i; grows with the *)
              (* sequence that draws the ids, also for rolled back rows    *)
  rows,       (* ids of the committed access_rules                         *)
  allowed,    (* committed rows with is_allowed                            *)
  pc, job, result,
  written,    (* ids of rows the transaction has written, not committed    *)
  (* History, read by no action.                                           *)
  seen,       (* facts about the committed table, since the request began  *)
  before      (* the requests already committed when the request began     *)

table == <<rule, rows, allowed>>
vars  == <<table, pc, job, result, written, seen, before>>

-----------------------------------------------------------------------------

(* The SELECT of find_rule.                                                *)
Matching(R, t) == {i \in R : rule[i] = t}

(* has_permission, for a user who has the role of the triple and no other: *)
(* one rule that allows is enough, for the triple as for all of the roles. *)
Grants(R, A, t) == Matching(R, t) \cap A # {}

FactNames == {"absent", "present", "double", "gone", "set", "denied"}

(* What a request may have to answer for, given committed rows R, A.       *)
Facts(R, A, j) ==
  {f \in FactNames :
     \/ f = "absent"  /\ Matching(R, j.triple) = {}
     \/ f = "present" /\ Matching(R, j.triple) # {}
     \/ f = "double"  /\ \E i, k \in Matching(R, j.triple) : i # k
     \/ f = "gone"    /\ j.id \notin R
     \/ f = "set"     /\ j.id \in R /\ (j.id \in A <=> j.value)
     \/ f = "denied"  /\ ~Grants(R, A, j.triple)}

InFlight == {r \in Reqs : pc[r] \notin {"idle", "done"}}

Goto(r, label) == pc' = [pc EXCEPT ![r] = label] /\ UNCHANGED result

(* The answer, and the end of the transaction.                             *)
Answer(r, outcome) ==
  /\ pc' = [pc EXCEPT ![r] = "done"]
  /\ result' = [result EXCEPT ![r] = outcome]

(* The first statement of a handler, about job j.                          *)
Begin(r, j) ==
  /\ pc[r] = "idle"
  /\ job' = [job EXCEPT ![r] = j]
  /\ seen' = [seen EXCEPT ![r] = Facts(rows, allowed, j)]
  /\ before' = [before EXCEPT ![r] = {q \in Reqs : pc[q] \in {"list", "done"}}]
  /\ UNCHANGED <<table, written>>

(* variant: rows are not locked                                            *)
FreeAlways(r, i) == TRUE

(* No other transaction has written the row.                               *)
Free(r, i) == \A q \in Reqs \ {r} : i \notin written[q]

-----------------------------------------------------------------------------
(* AccessAdminService                                                      *)

(* variant: existing rules are not looked for                              *)
FindRuleUnchecked(r, j) ==
  /\ j.kind = "create"
  /\ Begin(r, j)
  /\ IF j.triple \notin Triples THEN Answer(r, "notfound") ELSE Goto(r, "insert")

(* role_exists, resource_exists, permission_exists, find_rule.  None of    *)
(* the three tables ever changes.  scalar_one_or_none of two rows raises   *)
(* MultipleResultsFound.                                                   *)
FindRule(r, j) ==
  /\ j.kind = "create"
  /\ Begin(r, j)
  /\ LET found == Matching(rows, j.triple)
     IN CASE j.triple \notin Triples -> Answer(r, "notfound")
          [] j.triple \in Triples /\ found = {} -> Goto(r, "insert")
          [] OTHER -> Answer(r, IF \E i, k \in found : i # k THEN "broken" ELSE "conflict")

(* add_rule: INSERT and refresh.                                           *)
Insert(r) ==
  /\ pc[r] = "insert"
  /\ rule' = Append(rule, job[r].triple)
  /\ job' = [job EXCEPT ![r].id = Len(rule')]
  /\ written' = [written EXCEPT ![r] = {Len(rule')}]
  /\ Goto(r, "commit")
  /\ UNCHANGED <<rows, allowed, seen, before>>

(* get_rule, in update_rule and delete_rule.  Nothing is written when the  *)
(* row has the value already.                                              *)
GetRule(r, j) ==
  /\ j.kind # "create"
  /\ Begin(r, IF j.id \in rows THEN [j EXCEPT !.triple = rule[j.id]] ELSE j)
  /\ LET same == j.kind = "update" /\ (j.id \in allowed <=> j.value)
     IN \/ j.id \notin rows /\ Answer(r, "notfound")
        \/ j.id \in rows /\ Goto(r, IF same THEN "commit" ELSE "flush")

(* variant: a row that is gone is written again, as Session.merge would    *)
FlushMerging(r) ==
  /\ pc[r] = "flush"
  /\ Free(r, job[r].id)
  /\ written' = [written EXCEPT ![r] = {job[r].id}]
  /\ Goto(r, "commit")
  /\ UNCHANGED <<table, job, seen, before>>

(* The flush before the commit: UPDATE or DELETE of the row, once no other *)
(* transaction has written it.  If it was deleted meanwhile, an UPDATE     *)
(* raises StaleDataError; for a DELETE that is only a warning.             *)
Flush(r) ==
  /\ pc[r] = "flush"
  /\ Free(r, job[r].id)
  /\ LET stale == job[r].id \notin rows /\ job[r].kind = "update"
     IN \/ /\ ~stale
           /\ written' = [written EXCEPT ![r] = {job[r].id} \cap rows]
           /\ Goto(r, "commit")
        \/ stale /\ Answer(r, "broken") /\ UNCHANGED written
  /\ UNCHANGED <<table, job, seen, before>>

(* variant: the default of is_allowed is written                           *)
SaysDefault(r) == TRUE

(* The value of is_allowed written.                                        *)
Says(r) == job[r].value

(* COMMIT.                                                                 *)
Commit(r) ==
  /\ pc[r] = "commit"
  /\ rows' = IF job[r].kind = "delete" THEN rows \ written[r] ELSE rows \cup written[r]
  /\ allowed' = IF job[r].kind # "delete" /\ Says(r) THEN allowed \cup written[r]
                                                     ELSE allowed \ written[r]
  /\ written' = [written EXCEPT ![r] = {}]
  /\ seen' = [q \in Reqs |->
       IF q \in InFlight THEN seen[q] \cup Facts(rows', allowed', job[q]) ELSE seen[q]]
  /\ \/ job[r].kind = "delete" /\ Answer(r, "ok")
     \/ job[r].kind # "delete" /\ Goto(r, "list")
  /\ UNCHANGED <<rule, job, before>>

(* list_rules: the answer is built from the row, if it is still there; the *)
(* session keeps the values it has written.                                *)
List(r) ==
  /\ pc[r] = "list"
  /\ Answer(r, IF job[r].id \in rows THEN "ok" ELSE "broken")
  /\ UNCHANGED <<table, job, written, seen, before>>

(* An exception, a failing statement or a crash: rollback, unless the      *)
(* transaction has been committed.                                         *)
Abort(r) ==
  /\ r \in InFlight
  /\ Answer(r, "aborted")
  /\ written' = [written EXCEPT ![r] = {}]
  /\ UNCHANGED <<table, job, seen, before>>

-----------------------------------------------------------------------------

Init ==
  /\ rule = InitRules
  /\ rows = DOMAIN InitRules
  /\ allowed = InitAllowed
  /\ pc = [r \in Reqs |-> "idle"]
  /\ job = [r \in Reqs |-> NoJob]
  /\ result = [r \in Reqs |-> "none"]
  /\ written = [r \in Reqs |-> {}]
  /\ seen = [r \in Reqs |-> {}]
  /\ before = [r \in Reqs |-> {}]

Step(r) == Insert(r) \/ Flush(r) \/ Commit(r) \/ List(r)

(* Every request is answered: the bound on requests is used up.            *)
Quiet == (\A r \in Reqs : pc[r] = "done") /\ UNCHANGED vars

Next ==
  \/ \E r \in Reqs : (\E j \in Jobs : FindRule(r, j) \/ GetRule(r, j)) \/ Step(r) \/ Abort(r)
  \/ Quiet

Spec == Init /\ [][Next]_vars

-----------------------------------------------------------------------------
(* Properties                                                              *)

(* Every variable has its type: committed ids were drawn, only committed   *)
(* rows allow, and two transactions never write the same row at once.      *)
TypeOK ==
  /\ rule \in Seq(Triples)
  /\ rows \subseteq DOMAIN rule /\ allowed \subseteq rows
  /\ pc \in [Reqs -> Labels]
  /\ job \in [Reqs -> AllJobs \cup {NoJob}]
  /\ result \in [Reqs -> Outcomes]
  /\ written \in [Reqs -> SUBSET (DOMAIN rule)]
  /\ seen \in [Reqs -> SUBSET FactNames]
  /\ before \in [Reqs -> SUBSET Reqs]
  /\ \A r \in Reqs : written[r] # {} => pc[r] = "commit" /\ written[r] = {job[r].id}
  /\ \A q, r \in Reqs : q # r => written[q] \cap written[r] = {}

Deleted(i) ==
  \E r \in Reqs : job[r] # NoJob /\ job[r].kind = "delete" /\ result[r] = "ok" /\ job[r].id = i

(* What an answer says of the table was true while the request ran: a rule *)
(* is created where there was none, a conflict is with a rule that was     *)
(* there, an updated row had the value, a deleted one is gone for good.    *)
(* The service breaks, with nothing failing, only over a doubled rule or   *)
(* over one that another request has deleted.                              *)
AnswersTruthful ==
  \A r \in Reqs : pc[r] = "done" =>
    LET is(kind, outcome) == job[r].kind = kind /\ result[r] = outcome
    IN /\ is("create", "ok") => {"absent", "present"} \subseteq seen[r]
       /\ is("create", "conflict") => "present" \in seen[r]
       /\ is("update", "ok") => "set" \in seen[r]
       /\ is("delete", "ok") => job[r].id \notin rows
       /\ job[r].kind # "create" /\ result[r] = "notfound" => "gone" \in seen[r]
       /\ result[r] = "broken" =>
            (job[r].kind = "create" /\ "double" \in seen[r]) \/ Deleted(job[r].id)

Created(r, i) == pc[r] \in {"list", "done"} /\ job[r].kind = "create" /\ job[r].id = i

(* Two rules of a triple come from two requests that overlapped: a rule    *)
(* can not be doubled by requests that follow each other.                  *)
DuplicatesOverlap ==
  \A i, k \in rows : i # k /\ rule[i] = rule[k] =>
    \E q, r \in Reqs : /\ Created(q, i) /\ Created(r, k)
                       /\ q \notin before[r] /\ r \notin before[q]

(* A revocation that is answered ok has taken the permission from those    *)
(* who had it by this role alone, unless the rule was doubled.             *)
RevocationBites ==
  \A r \in Reqs :
    /\ result[r] = "ok"
    /\ job[r].kind = "delete" \/ (job[r].kind = "update" /\ ~job[r].value)
    => "denied" \in seen[r] \/ "double" \in seen[r]

(* Why the invariants hold: the inductive invariant.                       *)

(* Ids are drawn once.  A row is one of the beginning or has its creator,  *)
(* and a row that is deleted does not come back.                           *)
Drawn(r) == pc[r] \in {"commit", "list", "done"} /\ job[r].kind = "create" /\ job[r].id # 0

IdInv ==
  /\ Len(rule) >= Len(InitRules) /\ \A i \in DOMAIN InitRules : rule[i] = InitRules[i]
  /\ \A r \in Reqs : Drawn(r) => /\ job[r].id \in DOMAIN rule \ DOMAIN InitRules
                                 /\ rule[job[r].id] = job[r].triple
  /\ \A q, r \in Reqs : Drawn(q) /\ Drawn(r) /\ job[q].id = job[r].id => q = r
  /\ \A i \in rows : i \in DOMAIN InitRules \/ \E r \in Reqs : Created(r, i)
  /\ \A q \in Reqs : result[q] = "ok" /\ job[q].kind = "delete" =>
       /\ job[q].id \in DOMAIN rule \ rows
       /\ \A r \in Reqs : pc[r] = "commit" /\ job[r].kind = "create" => job[r].id # job[q].id

(* Who creates a rule found none: the creator of one that is there has     *)
(* committed since.                                                        *)
OverlapInv(r) ==
  /\ before[r] \subseteq {q \in Reqs : pc[q] \in {"list", "done"}}
  /\ \A i \in rows :
       /\ pc[r] = "insert" \/ (Drawn(r) /\ job[r].id # i)
       /\ rule[i] = job[r].triple
       => \E q \in Reqs : Created(q, i) /\ q \notin before[r]

(* Which requests can be at which statement.                               *)
ControlInv(r) ==
  /\ pc[r] # "done" => result[r] = "none"
  /\ pc[r] # "idle" => job[r] # NoJob
  /\ pc[r] = "insert" => /\ job[r].kind = "create" /\ job[r].id = 0
                         /\ job[r].triple \in Triples
  /\ pc[r] = "flush" => job[r].kind # "create"
  /\ pc[r] = "list" => job[r].kind # "delete"

(* What is true now is among what has been true since the request began.   *)
WitnessInv(r) ==
  r \in InFlight =>
    \A f \in Facts(rows, allowed, job[r]) :
      f \in seen[r] \/ (job[r].kind = "create" /\ f \in {"gone", "set"})

CreateInv(r) ==
  pc[r] # "idle" /\ job[r].kind = "create" =>
    /\ pc[r] \in {"insert", "commit", "list"} => "absent" \in seen[r]
    /\ pc[r] = "commit" => written[r] = {job[r].id} /\ job[r].id \in DOMAIN rule \ rows
    /\ pc[r] = "list" => /\ "present" \in seen[r]
                         /\ job[r].id \in rows \/ Deleted(job[r].id)

Revoked(r) == "denied" \in seen[r] \/ "double" \in seen[r]

(* A request about a rule that was there when it began.                    *)
TargetInv(r) ==
  pc[r] \in {"flush", "commit", "list"} /\ job[r].kind # "create" =>
    /\ job[r].id \in DOMAIN rule /\ rule[job[r].id] = job[r].triple
    /\ job[r].id \in rows \/ (Deleted(job[r].id) /\ Revoked(r))
    /\ pc[r] = "commit" => written[r] \subseteq {job[r].id} \cap rows
    /\ pc[r] = "commit" /\ written[r] = {} /\ job[r].kind = "delete" => job[r].id \notin rows
    /\ \/ pc[r] = "list"
       \/ pc[r] = "commit" /\ written[r] = {} /\ job[r].kind = "update"
       => "set" \in seen[r] /\ (job[r].value \/ Revoked(r))

(* The safety properties, request by request.                             *)
AnswerInv(r) ==
  pc[r] = "done" =>
    /\ job[r].kind = "create" /\ result[r] = "ok" => {"absent", "present"} \subseteq seen[r]
    /\ job[r].kind = "create" /\ result[r] = "conflict" => "present" \in seen[r]
    /\ job[r].kind = "update" /\ result[r] = "ok" => "set" \in seen[r] /\ (job[r].value \/ Revoked(r))
    /\ job[r].kind = "delete" /\ result[r] = "ok" => Revoked(r)
    /\ job[r].kind # "create" /\ result[r] = "notfound" => "gone" \in seen[r]
    /\ result[r] = "broken" =>
         (job[r].kind = "create" /\ "double" \in seen[r]) \/ Deleted(job[r].id)

RequestInv(r) ==
  /\ OverlapInv(r) /\ ControlInv(r) /\ WitnessInv(r)
  /\ CreateInv(r) /\ TargetInv(r) /\ AnswerInv(r)

Inv == TypeOK /\ IdInv /\ \A r \in Reqs : RequestInv(r)

(* What the documentation says and the interleavings break.                *)

(* "A repeated rule cannot be created" (api/v1/access.py).                 *)
NoDuplicateRules == \A i, k \in rows : rule[i] = rule[k] => i = k

=============================================================================
