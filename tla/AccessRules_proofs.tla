------------------------- MODULE AccessRules_proofs -------------------------
(* Proofs about AccessRules, for any triples, requests and things requests *)
(* may ask for.                                                            *)
EXTENDS AccessRules, TLAPS

-----------------------------------------------------------------------------
(* Typing                                                                  *)

LEMMA InitTyped == Init => TypeOK
BY AccessRulesAssumption
DEF Init, TypeOK, Labels, Outcomes, AllJobs, Kinds

(* What a request asks for is a job, also with its triple or id filled in. *)
LEMMA JobsTyped ==
  ASSUME NEW j \in Jobs
  PROVE  /\ j \in AllJobs
         /\ \A t \in Triples : [j EXCEPT !.triple = t] \in AllJobs
         /\ \A t \in Triples : [j EXCEPT !.triple = t].kind = j.kind
                            /\ [j EXCEPT !.triple = t].id = j.id
                            /\ [j EXCEPT !.triple = t].value = j.value
                            /\ [j EXCEPT !.triple = t].triple = t
BY AccessRulesAssumption DEF AllJobs

LEMMA FactsTyped ==
  ASSUME NEW R, NEW A, NEW j
  PROVE  Facts(R, A, j) \subseteq FactNames
BY DEF Facts

LEMMA ControlTyped ==
  ASSUME TypeOK, NEW r \in Reqs,
         (\E l \in Labels : Goto(r, l)) \/ (\E o \in Outcomes : Answer(r, o))
  PROVE  /\ pc' \in [Reqs -> Labels] /\ result' \in [Reqs -> Outcomes]
         /\ \A q \in Reqs \ {r} : pc'[q] = pc[q]
BY DEF TypeOK, Goto, Answer, Labels

LEMMA BeginTyped ==
  ASSUME TypeOK, NEW r \in Reqs, NEW j \in AllJobs, Begin(r, j),
         \/ \E l \in Labels \ {"idle"} : Goto(r, l)
         \/ \E o \in Outcomes : Answer(r, o)
  PROVE  TypeOK'
<1>1. /\ pc' \in [Reqs -> Labels] /\ result' \in [Reqs -> Outcomes]
      /\ \A q \in Reqs \ {r} : pc'[q] = pc[q]
  BY ControlTyped DEF Labels
<1>2. job' \in [Reqs -> AllJobs \cup {NoJob}] /\ \A q \in Reqs \ {r} : job'[q] = job[q]
  BY DEF TypeOK, Begin
<1>3. seen' \in [Reqs -> SUBSET FactNames] /\ before' \in [Reqs -> SUBSET Reqs]
  BY FactsTyped DEF TypeOK, Begin
<1>4. written' = written /\ written[r] = {}
  BY DEF TypeOK, Begin
<1> QED BY <1>1, <1>2, <1>3, <1>4 DEF TypeOK, Begin, table

LEMMA FindRuleTyped ==
  ASSUME TypeOK, NEW r \in Reqs, NEW j \in Jobs, FindRule(r, j)
  PROVE  TypeOK'
BY BeginTyped, JobsTyped DEF FindRule, Labels, Outcomes

LEMMA GetRuleTyped ==
  ASSUME TypeOK, NEW r \in Reqs, NEW j \in Jobs, GetRule(r, j)
  PROVE  TypeOK'
<1> DEFINE jj == IF j.id \in rows THEN [j EXCEPT !.triple = rule[j.id]] ELSE j
<1>1. jj \in AllJobs
  BY JobsTyped DEF TypeOK
<1>2. QED
  BY <1>1, BeginTyped DEF GetRule, Labels, Outcomes

LEMMA InsertTyped ==
  ASSUME TypeOK, IdInv, NEW r \in Reqs, Insert(r), RequestInv(r)
  PROVE  TypeOK'
<1>1. job[r] \in AllJobs /\ job[r].triple \in Triples
  BY DEF Insert, RequestInv, ControlInv, TypeOK
<1>2. /\ rule' \in Seq(Triples) /\ Len(rule') = Len(rule) + 1
      /\ DOMAIN rule' = 1 .. Len(rule) + 1 /\ DOMAIN rule = 1 .. Len(rule)
  BY <1>1 DEF TypeOK, Insert
<1>3. job' \in [Reqs -> AllJobs \cup {NoJob}] /\ job'[r].id = Len(rule')
  BY <1>1, <1>2 DEF TypeOK, Insert, AllJobs
<1>4. written' \in [Reqs -> SUBSET (DOMAIN rule')]
  BY <1>2 DEF TypeOK, Insert
<1>5. ASSUME NEW q \in Reqs
      PROVE  written'[q] # {} => pc'[q] = "commit" /\ written'[q] = {job'[q].id}
  BY <1>3 DEF TypeOK, Insert, Goto
<1>6. ASSUME NEW q \in Reqs, NEW p \in Reqs, q # p
      PROVE  written'[q] \cap written'[p] = {}
  <2>1. Len(rule') \notin DOMAIN rule
    BY <1>2 DEF TypeOK
  <2>2. written[q] \subseteq DOMAIN rule /\ written[p] \subseteq DOMAIN rule
        /\ written[q] \cap written[p] = {}
    BY <1>6 DEF TypeOK
  <2>3. written'[q] = (IF q = r THEN {Len(rule')} ELSE written[q])
        /\ written'[p] = (IF p = r THEN {Len(rule')} ELSE written[p])
    BY DEF TypeOK, Insert
  <2>4. QED
    BY <1>6, <2>1, <2>2, <2>3
<1>7. QED
  BY <1>2, <1>3, <1>4, <1>5, <1>6 DEF TypeOK, Insert, Goto, Labels

LEMMA FlushTyped ==
  ASSUME TypeOK, NEW r \in Reqs, Flush(r)
  PROVE  TypeOK'
<1>1. /\ pc' \in [Reqs -> Labels] /\ result' \in [Reqs -> Outcomes]
      /\ \A q \in Reqs \ {r} : pc'[q] = pc[q]
  BY ControlTyped DEF Flush, Labels, Outcomes
<1>2. UNCHANGED <<table, job, seen, before>>
  BY DEF Flush
<1>3. CASE written' = written /\ pc[r] = "flush"
  BY <1>1, <1>2, <1>3 DEF TypeOK, table
<1>4. CASE written' = [written EXCEPT ![r] = {job[r].id} \cap rows] /\ pc'[r] = "commit"
  <2>1. written' \in [Reqs -> SUBSET (DOMAIN rule)]
    BY <1>4 DEF TypeOK
  <2>2. \A q \in Reqs \ {r} : written'[q] = written[q] /\ written[q] \cap written'[r] = {}
    BY <1>4 DEF TypeOK, Flush, Free
  <2>3. written'[r] # {} => written'[r] = {job[r].id}
    BY <1>4 DEF TypeOK
  <2> QED BY <1>1, <1>2, <1>4, <2>1, <2>2, <2>3 DEF TypeOK, table
<1> QED BY <1>3, <1>4 DEF Flush, Goto, TypeOK

LEMMA CommitTyped ==
  ASSUME TypeOK, NEW r \in Reqs, Commit(r)
  PROVE  TypeOK'
<1>1. rows' \subseteq DOMAIN rule' /\ allowed' \subseteq rows'
  BY DEF TypeOK, Commit
<1>2. seen' \in [Reqs -> SUBSET FactNames]
  BY FactsTyped DEF TypeOK, Commit
<1>3. /\ pc' \in [Reqs -> Labels] /\ result' \in [Reqs -> Outcomes]
      /\ \A q \in Reqs \ {r} : pc'[q] = pc[q]
  BY ControlTyped DEF Commit, Labels, Outcomes
<1>4. written' = [written EXCEPT ![r] = {}] /\ UNCHANGED <<rule, job, before>>
  BY DEF Commit
<1> QED BY <1>1, <1>2, <1>3, <1>4 DEF TypeOK

LEMMA AnswerTyped ==
  ASSUME TypeOK, NEW r \in Reqs, List(r) \/ Abort(r)
  PROVE  TypeOK'
BY DEF TypeOK, List, Abort, Answer, Labels, Outcomes, table

-----------------------------------------------------------------------------
(* What every step keeps                                                   *)

(* Rules keep their triple, requests that are over stay over.              *)
Later ==
  /\ \A i \in DOMAIN rule : i \in DOMAIN rule' /\ rule'[i] = rule[i]
  /\ \A q \in Reqs : pc[q] \in {"list", "done"} => /\ pc'[q] \in {"list", "done"}
                                                /\ job'[q] = job[q]
  /\ \A q \in Reqs : result[q] # "none" => result'[q] = result[q]

(* Request q takes no step.                                                *)
Same(q) ==
  /\ pc'[q] = pc[q] /\ job'[q] = job[q] /\ result'[q] = result[q]
  /\ written'[q] = written[q] /\ seen'[q] = seen[q] /\ before'[q] = before[q]

LEMMA HistoryStands ==
  ASSUME Inv, Later
  PROVE  /\ \A q \in Reqs : \A i : Created(q, i) => Created(q, i)'
         /\ \A i : Deleted(i) => Deleted(i)'
<1>1. \A q \in Reqs : \A i : Created(q, i) => Created(q, i)'
  BY DEF Later, Created
<1>2. \A q \in Reqs : result[q] = "ok" => pc[q] = "done" /\ job[q] # NoJob
  BY DEF Inv, RequestInv, ControlInv, TypeOK, Labels
<1>3. \A i : Deleted(i) => Deleted(i)'
  BY <1>2 DEF Later, Deleted
<1>4. QED
  BY <1>1, <1>3

(* While the rows stay as they are, so does what can be said of them.      *)
LEMMA FactsStand ==
  ASSUME TypeOK, Later, UNCHANGED <<rows, allowed>>, NEW q \in Reqs, job'[q] = job[q]
  PROVE  Facts(rows, allowed, job[q])' = Facts(rows, allowed, job[q])
<1>1. \A i \in rows : rule'[i] = rule[i]
  BY DEF TypeOK, Later
<1>2. Matching(rows, job[q].triple)' = Matching(rows, job[q].triple)
  BY <1>1 DEF Matching
<1>3. Grants(rows, allowed, job[q].triple)' = Grants(rows, allowed, job[q].triple)
  BY <1>2 DEF Grants
<1>4. QED
  BY <1>2, <1>3 DEF Facts

(* A request is concerned by its own steps and by commits only.            *)
LEMMA Frame ==
  ASSUME Inv, Later, UNCHANGED <<rows, allowed>>, NEW q \in Reqs, Same(q)
  PROVE  RequestInv(q)'
<1> USE DEF Same
<1>1. OverlapInv(q)'
  <2>1. before'[q] \subseteq {p \in Reqs : pc'[p] \in {"list", "done"}}
    BY DEF Inv, RequestInv, OverlapInv, Later
  <2>2. ASSUME NEW i \in rows', pc'[q] = "insert" \/ (Drawn(q)' /\ job'[q].id # i),
               rule'[i] = job'[q].triple
        PROVE  \E p \in Reqs : Created(p, i)' /\ p \notin before'[q]
    <3>1. rule[i] = job[q].triple /\ (pc[q] = "insert" \/ (Drawn(q) /\ job[q].id # i))
      BY <2>2 DEF Inv, TypeOK, Later, Drawn
    <3>2. QED
      BY <2>2, <3>1, HistoryStands DEF Inv, RequestInv, OverlapInv
  <2>3. QED
    BY <2>1, <2>2 DEF OverlapInv
<1>2. ControlInv(q)'
  BY DEF Inv, RequestInv, ControlInv
<1>3. WitnessInv(q)'
  BY FactsStand DEF Inv, RequestInv, WitnessInv, InFlight
<1>4. CreateInv(q)'
  BY HistoryStands DEF Inv, RequestInv, CreateInv, Later
<1>5. TargetInv(q)'
  BY HistoryStands DEF Inv, RequestInv, TargetInv, Later, Revoked
<1>6. AnswerInv(q)'
  BY HistoryStands DEF Inv, RequestInv, AnswerInv, Revoked
<1>7. QED
  BY <1>1, <1>2, <1>3, <1>4, <1>5, <1>6 DEF RequestInv

(* A step that draws no id and commits nothing.                            *)
LEMMA IdsStand ==
  ASSUME Inv, Later, UNCHANGED <<rule, rows>>, NEW r \in Reqs,
         \A q \in Reqs \ {r} : Same(q),
         Drawn(r)' => Drawn(r) /\ job'[r] = job[r],
         pc'[r] # "commit" \/ job'[r].kind # "create" \/ (pc[r] = "commit" /\ job'[r] = job[r]),
         result'[r] # "ok" \/ job'[r].kind # "delete"
  PROVE  IdInv'
<1> USE DEF Same
<1>1. /\ Len(rule') >= Len(InitRules)
      /\ \A i \in DOMAIN InitRules : rule'[i] = InitRules[i]
  BY DEF Inv, IdInv
<1>2. ASSUME NEW q \in Reqs, Drawn(q)'
      PROVE  Drawn(q) /\ job'[q] = job[q]
  BY <1>2 DEF Drawn
<1>3. \A i \in rows' : i \in DOMAIN InitRules \/ \E q \in Reqs : Created(q, i)'
  BY HistoryStands DEF Inv, IdInv
<1>4. ASSUME NEW q \in Reqs, result'[q] = "ok" /\ job'[q].kind = "delete"
      PROVE  /\ job'[q].id \in DOMAIN rule' \ rows'
             /\ \A p \in Reqs : pc'[p] = "commit" /\ job'[p].kind = "create" => job'[p].id # job'[q].id
  <2>1. q # r /\ result[q] = "ok" /\ job[q].kind = "delete" /\ job'[q] = job[q]
    BY <1>4
  <2>2. QED
    BY <2>1 DEF Inv, IdInv
<1>5. QED
  BY <1>1, <1>2, <1>3, <1>4 DEF Inv, IdInv

-----------------------------------------------------------------------------
(* The steps                                                               *)

(* A request that fails, or whose answer is read.                          *)
LEMMA AnswerStep ==
  ASSUME Inv, NEW r \in Reqs, List(r) \/ Abort(r)
  PROVE  Inv'
<1> USE DEF List, Abort, Answer, InFlight
<1>1. TypeOK'
  BY AnswerTyped DEF Inv
<1>2. /\ UNCHANGED <<table, job, seen, before>> /\ \A q \in Reqs \ {r} : Same(q)
      /\ pc'[r] = "done" /\ result[r] = "none" /\ result'[r] \in {"ok", "broken", "aborted"}
  BY DEF Inv, TypeOK, Same, table, RequestInv, ControlInv
<1>3. Later
  BY <1>2 DEF Later, Same, table, Inv, TypeOK
<1>4. \A q \in Reqs \ {r} : RequestInv(q)'
  BY <1>2, <1>3, Frame DEF table
<1>5. job[r] # NoJob /\ pc[r] \notin {"idle", "done"}
  BY DEF Inv, RequestInv, ControlInv
<1>6. Drawn(r)' => Drawn(r) /\ job'[r] = job[r]
  BY <1>2, <1>5 DEF Drawn, Inv, TypeOK, Labels, RequestInv, ControlInv
<1>7. RequestInv(r)'
  <2>1. OverlapInv(r)'
    <3>1. before'[r] \subseteq {p \in Reqs : pc'[p] \in {"list", "done"}}
      BY <1>2, <1>3 DEF Inv, RequestInv, OverlapInv, Later, TypeOK
    <3>2. QED
      BY <1>2, <1>3, <1>6, <3>1, HistoryStands DEF Inv, RequestInv, OverlapInv, table
  <2>2. ControlInv(r)' /\ WitnessInv(r)' /\ CreateInv(r)' /\ TargetInv(r)'
    BY <1>2, <1>5 DEF ControlInv, WitnessInv, CreateInv, TargetInv
  <2>3. AnswerInv(r)'
    BY <1>2, <1>3, <1>5, HistoryStands
    DEF AnswerInv, Inv, RequestInv, ControlInv, CreateInv, TargetInv, Revoked, TypeOK, AllJobs, Kinds, table
  <2>4. QED
    BY <2>1, <2>2, <2>3 DEF RequestInv
<1>8. IdInv'
  <2>1. result'[r] # "ok" \/ job'[r].kind # "delete"
    BY <1>2 DEF Inv, RequestInv, ControlInv, TypeOK
  <2>2. QED
    BY <1>2, <1>3, <1>6, <2>1, IdsStand DEF table
<1>9. QED
  BY <1>1, <1>4, <1>7, <1>8 DEF Inv

(* A request begins: what is true is what has been true since.             *)
LEMMA BeginStep ==
  ASSUME Inv, NEW r \in Reqs, NEW j \in AllJobs, Begin(r, j), j # NoJob,
         \/ \E l \in Labels \ {"idle"} : Goto(r, l)
         \/ \E o \in Outcomes \ {"ok"} : Answer(r, o)
  PROVE  /\ TypeOK' /\ Later /\ \A q \in Reqs \ {r} : RequestInv(q)'
         /\ job'[r] = j /\ seen'[r] = Facts(rows, allowed, j) /\ written'[r] = {}
         /\ WitnessInv(r)'
         /\ before'[r] \subseteq {q \in Reqs : pc'[q] \in {"list", "done"}}
<1>1. TypeOK'
  BY BeginTyped DEF Inv
<1>2. /\ UNCHANGED <<table, written>> /\ \A q \in Reqs \ {r} : Same(q)
      /\ pc[r] = "idle" /\ result[r] = "none" /\ written[r] = {}
      /\ job'[r] = j /\ seen'[r] = Facts(rows, allowed, j)
  BY DEF Begin, Goto, Answer, Inv, TypeOK, Same, table, RequestInv, ControlInv
<1>3. Later
  BY <1>2 DEF Later, Same, table, Inv, TypeOK
<1>4. \A q \in Reqs \ {r} : RequestInv(q)'
  BY <1>2, <1>3, Frame DEF table
<1>5. before'[r] = {q \in Reqs : pc[q] \in {"list", "done"}}
  BY DEF Begin, Inv, TypeOK
<1>6. WitnessInv(r)'
  BY <1>2 DEF WitnessInv, table, Facts, Matching, Grants
<1>7. QED
  BY <1>1, <1>2, <1>3, <1>4, <1>5, <1>6 DEF Later

LEMMA FindRuleStep ==
  ASSUME Inv, NEW r \in Reqs, NEW j \in Jobs, FindRule(r, j)
  PROVE  Inv'
<1> DEFINE found == Matching(rows, j.triple)
<1>0. j.kind = "create"
  BY DEF FindRule
<1>1. j \in AllJobs /\ j # NoJob /\ j.kind = "create" /\ j.id = 0
  <2>1. Jobs \subseteq AllJobs /\ NoJob \notin AllJobs
    BY AccessRulesAssumption
  <2>2. j.id = 0
    BY <1>0, AccessRulesAssumption
  <2>3. QED
    BY <1>0, <2>1, <2>2
<1>2. /\ \/ j.triple \in Triples /\ found = {} /\ Goto(r, "insert")
         \/ j.triple \notin Triples /\ Answer(r, "notfound")
         \/ (\E i, k \in found : i # k) /\ Answer(r, "broken")
         \/ found # {} /\ Answer(r, "conflict")
      /\ Begin(r, j)
  BY DEF FindRule
<1> USE <1>1, <1>2
<1>3. /\ TypeOK' /\ Later /\ \A q \in Reqs \ {r} : RequestInv(q)'
      /\ job'[r] = j /\ seen'[r] = Facts(rows, allowed, j) /\ written'[r] = {}
      /\ WitnessInv(r)'
      /\ before'[r] \subseteq {q \in Reqs : pc'[q] \in {"list", "done"}}
  BY BeginStep DEF Labels, Outcomes
<1>4. UNCHANGED table /\ (\A q \in Reqs \ {r} : Same(q)) /\ pc[r] = "idle" /\ result[r] = "none"
  BY DEF Begin, Goto, Answer, Same, Inv, TypeOK, RequestInv, ControlInv
<1>5. \/ pc'[r] = "insert" /\ result'[r] = "none" /\ j.triple \in Triples /\ found = {}
      \/ pc'[r] = "done" /\ result'[r] = "notfound"
      \/ pc'[r] = "done" /\ result'[r] = "broken" /\ \E i, k \in found : i # k
      \/ pc'[r] = "done" /\ result'[r] = "conflict" /\ found # {}
  BY <1>4 DEF Goto, Answer, Inv, TypeOK
<1>6. /\ found = {} => "absent" \in seen'[r]
      /\ found # {} => "present" \in seen'[r]
      /\ (\E i, k \in found : i # k) => "double" \in seen'[r]
  BY <1>3 DEF Facts, FactNames
<1>7. ~Drawn(r)'
  BY <1>3, <1>5 DEF Drawn
<1>8. RequestInv(r)'
  <2>1. OverlapInv(r)'
    BY <1>3, <1>4, <1>5, <1>7 DEF OverlapInv, Matching, table
  <2>2. ControlInv(r)' /\ CreateInv(r)' /\ TargetInv(r)'
    BY <1>3, <1>5, <1>6 DEF ControlInv, CreateInv, TargetInv
  <2>3. AnswerInv(r)'
    BY <1>3, <1>5, <1>6 DEF AnswerInv
  <2>4. QED
    BY <1>3, <2>1, <2>2, <2>3 DEF RequestInv
<1>9. IdInv'
  BY <1>3, <1>4, <1>5, <1>7, IdsStand DEF table
<1>10. QED
  BY <1>3, <1>8, <1>9 DEF Inv

LEMMA GetRuleStep ==
  ASSUME Inv, NEW r \in Reqs, NEW j \in Jobs, GetRule(r, j)
  PROVE  Inv'
<1> DEFINE jj == IF j.id \in rows THEN [j EXCEPT !.triple = rule[j.id]] ELSE j
           same == j.kind = "update" /\ (j.id \in allowed <=> j.value)
<1>1. /\ jj \in AllJobs /\ jj # NoJob /\ jj.kind = j.kind /\ j.kind # "create"
      /\ jj.id = j.id /\ jj.value = j.value /\ j.value \in BOOLEAN /\ j.kind \in Kinds
      /\ j.id \in rows => jj.triple = rule[j.id]
  <2>1. j.kind # "create" /\ j \in AllJobs /\ j.value \in BOOLEAN /\ j.kind \in Kinds
    BY AccessRulesAssumption DEF GetRule, AllJobs
  <2>2. j.id \in rows => rule[j.id] \in Triples
    BY DEF Inv, TypeOK
  <2>3. jj \in AllJobs /\ jj.kind = j.kind /\ jj.id = j.id /\ jj.value = j.value
        /\ (j.id \in rows => jj.triple = rule[j.id])
    BY <2>1, <2>2, JobsTyped
  <2>4. NoJob \notin AllJobs
    BY AccessRulesAssumption
  <2>5. QED
    BY <2>1, <2>3, <2>4
<1>2. /\ Begin(r, jj)
      /\ \/ j.id \notin rows /\ Answer(r, "notfound")
         \/ j.id \in rows /\ same /\ Goto(r, "commit")
         \/ j.id \in rows /\ ~same /\ Goto(r, "flush")
  BY DEF GetRule
<1> HIDE DEF jj
<1>3. /\ TypeOK' /\ Later /\ \A q \in Reqs \ {r} : RequestInv(q)'
      /\ job'[r] = jj /\ seen'[r] = Facts(rows, allowed, jj) /\ written'[r] = {}
      /\ WitnessInv(r)'
      /\ before'[r] \subseteq {q \in Reqs : pc'[q] \in {"list", "done"}}
  BY <1>1, <1>2, BeginStep DEF Labels, Outcomes
<1>4. UNCHANGED table /\ (\A q \in Reqs \ {r} : Same(q)) /\ pc[r] = "idle" /\ result[r] = "none"
  BY <1>2 DEF Begin, Goto, Answer, Same, Inv, TypeOK, RequestInv, ControlInv
<1>5. \/ j.id \notin rows /\ pc'[r] = "done" /\ result'[r] = "notfound"
      \/ j.id \in rows /\ same /\ pc'[r] = "commit" /\ result'[r] = "none"
      \/ j.id \in rows /\ ~same /\ pc'[r] = "flush" /\ result'[r] = "none"
  BY <1>2, <1>4 DEF Goto, Answer, Inv, TypeOK
<1>6. /\ j.id \notin rows => "gone" \in seen'[r]
      /\ j.id \in rows /\ same => "set" \in seen'[r]
  BY <1>1, <1>3 DEF Facts, FactNames
(* A rule that denies leaves the permission denied, unless it is doubled.  *)
<1>7. j.id \in rows /\ j.id \notin allowed => "denied" \in seen'[r] \/ "double" \in seen'[r]
  BY <1>1, <1>3 DEF Facts, FactNames, Grants, Matching
<1>8. ~Drawn(r)'
  BY <1>1, <1>3 DEF Drawn
<1>9. RequestInv(r)'
  <2>1. OverlapInv(r)'
    BY <1>3, <1>5, <1>8 DEF OverlapInv
  <2>2. ControlInv(r)' /\ CreateInv(r)'
    BY <1>1, <1>3, <1>5 DEF ControlInv, CreateInv
  <2>3. TargetInv(r)'
    BY <1>1, <1>3, <1>4, <1>5, <1>6, <1>7 DEF TargetInv, Revoked, table, Inv, TypeOK
  <2>4. AnswerInv(r)'
    BY <1>1, <1>3, <1>5, <1>6 DEF AnswerInv
  <2>5. QED
    BY <1>3, <2>1, <2>2, <2>3, <2>4 DEF RequestInv
<1>10. IdInv'
  BY <1>1, <1>3, <1>4, <1>5, <1>8, IdsStand DEF table
<1>11. QED
  BY <1>3, <1>9, <1>10 DEF Inv

LEMMA InsertStep ==
  ASSUME Inv, NEW r \in Reqs, Insert(r)
  PROVE  Inv'
<1>1. TypeOK'
  BY InsertTyped DEF Inv
<1>2. /\ pc[r] = "insert" /\ job[r].kind = "create" /\ job[r].id = 0 /\ job[r].triple \in Triples
      /\ job[r] \in AllJobs /\ result[r] = "none" /\ "absent" \in seen[r]
  BY DEF Insert, Inv, RequestInv, ControlInv, CreateInv, TypeOK
<1>3. /\ DOMAIN rule = 1 .. Len(rule) /\ DOMAIN rule' = 1 .. Len(rule')
      /\ Len(rule) \in Nat /\ Len(rule') = Len(rule) + 1
      /\ \A i \in DOMAIN rule : rule'[i] = rule[i]
      /\ rule'[Len(rule')] = job[r].triple
  BY <1>2 DEF Insert, Inv, TypeOK
<1>4. /\ UNCHANGED <<rows, allowed>> /\ \A q \in Reqs \ {r} : Same(q)
      /\ pc'[r] = "commit" /\ result'[r] = "none" /\ seen'[r] = seen[r] /\ before'[r] = before[r]
      /\ written'[r] = {job'[r].id} /\ job'[r].id = Len(rule')
      /\ job'[r].kind = "create" /\ job'[r].triple = job[r].triple
  BY <1>2 DEF Insert, Goto, Inv, TypeOK, Same, AllJobs
<1>5. Later
  BY <1>2, <1>3, <1>4 DEF Later, Same
<1>6. \A q \in Reqs \ {r} : RequestInv(q)'
  BY <1>4, <1>5, Frame
<1>7. job'[r] # NoJob
  <2>1. job'[r] \in AllJobs
    BY <1>2, <1>3 DEF Insert, Inv, TypeOK, AllJobs
  <2>2. QED
    BY <2>1, AccessRulesAssumption
<1>8. RequestInv(r)'
  <2>1. OverlapInv(r)'
    BY <1>2, <1>3, <1>4, <1>5, HistoryStands
    DEF Inv, RequestInv, OverlapInv, Later, TypeOK
  <2>2. WitnessInv(r)'
    <3>1. Matching(rows, job[r].triple)' = Matching(rows, job[r].triple)
          /\ job'[r].triple = job[r].triple
      BY <1>3, <1>4 DEF Matching, Inv, TypeOK
    <3>2. \A f \in Facts(rows, allowed, job[r])' :
             f \in {"gone", "set"} \/ f \in Facts(rows, allowed, job[r])
      BY <1>4, <3>1 DEF Facts, Grants, Matching
    <3>3. QED
      BY <1>2, <1>4, <3>2 DEF Inv, RequestInv, WitnessInv, InFlight
  <2>3. ControlInv(r)' /\ TargetInv(r)' /\ AnswerInv(r)'
    BY <1>4, <1>7 DEF ControlInv, TargetInv, AnswerInv
  <2>4. CreateInv(r)'
    BY <1>2, <1>3, <1>4 DEF CreateInv, Inv, TypeOK
  <2>5. QED
    BY <2>1, <2>2, <2>3, <2>4 DEF RequestInv
<1>9. IdInv'
  <2>1. \A q \in Reqs \ {r} : (Drawn(q)' <=> Drawn(q)) /\ job'[q] = job[q]
    BY <1>4 DEF Drawn, Same
  <2>2. Len(rule') >= Len(InitRules) /\ \A i \in DOMAIN InitRules : rule'[i] = InitRules[i]
    BY <1>3, AccessRulesAssumption DEF Inv, IdInv
  <2>3. Len(InitRules) \in Nat /\ DOMAIN InitRules = 1 .. Len(InitRules)
    BY AccessRulesAssumption
  <2>4. ASSUME NEW q \in Reqs, Drawn(q)'
        PROVE  /\ job'[q].id \in DOMAIN rule' \ DOMAIN InitRules
               /\ rule'[job'[q].id] = job'[q].triple
    BY <1>3, <1>4, <2>1, <2>3, <2>4 DEF Inv, IdInv
  <2>5. ASSUME NEW p \in Reqs, NEW q \in Reqs, Drawn(p)', Drawn(q)', job'[p].id = job'[q].id
        PROVE  p = q
    BY <1>3, <1>4, <2>1, <2>5 DEF Inv, IdInv
  <2>6. \A i \in rows' : i \in DOMAIN InitRules \/ \E q \in Reqs : Created(q, i)'
    BY <1>4, <1>5, HistoryStands DEF Inv, IdInv
  <2>7. ASSUME NEW q \in Reqs, result'[q] = "ok" /\ job'[q].kind = "delete"
        PROVE  /\ job'[q].id \in DOMAIN rule' \ rows'
               /\ \A p \in Reqs : pc'[p] = "commit" /\ job'[p].kind = "create" => job'[p].id # job'[q].id
    <3>1. q # r /\ result[q] = "ok" /\ job[q].kind = "delete" /\ job'[q] = job[q]
      BY <1>4, <2>7 DEF Same
    <3>2. job[q].id \in DOMAIN rule \ rows
          /\ \A p \in Reqs : pc[p] = "commit" /\ job[p].kind = "create" => job[p].id # job[q].id
      BY <3>1 DEF Inv, IdInv
    <3>3. QED
      BY <1>3, <1>4, <3>1, <3>2 DEF Same
  <2>8. QED
    BY <2>2, <2>4, <2>5, <2>6, <2>7 DEF IdInv
<1>10. QED
  BY <1>1, <1>6, <1>8, <1>9 DEF Inv

LEMMA FlushStep ==
  ASSUME Inv, NEW r \in Reqs, Flush(r)
  PROVE  Inv'
<1>1. TypeOK'
  BY FlushTyped DEF Inv
<1>2. /\ pc[r] = "flush" /\ job[r].kind # "create" /\ job[r] # NoJob /\ result[r] = "none"
      /\ written[r] = {} /\ job[r].kind \in Kinds
  BY DEF Flush, Inv, RequestInv, ControlInv, TypeOK, AllJobs
<1>3. /\ UNCHANGED <<table, job, seen, before>> /\ \A q \in Reqs \ {r} : Same(q)
      /\ \/ /\ job[r].id \in rows \/ job[r].kind # "update"
            /\ written'[r] = {job[r].id} \cap rows /\ pc'[r] = "commit" /\ result'[r] = "none"
         \/ /\ job[r].id \notin rows /\ written'[r] = {}
            /\ pc'[r] = "done" /\ result'[r] = "broken"
  BY <1>2 DEF Flush, Goto, Answer, Inv, TypeOK, Same, table
<1>4. Later
  BY <1>2, <1>3 DEF Later, Same, table
<1>5. \A q \in Reqs \ {r} : RequestInv(q)'
  BY <1>3, <1>4, Frame DEF table
<1>6. ~Drawn(r)'
  BY <1>2, <1>3 DEF Drawn
<1>7. RequestInv(r)'
  <2>1. OverlapInv(r)'
    BY <1>2, <1>3, <1>4, <1>6 DEF Inv, RequestInv, OverlapInv, Later, TypeOK
  <2>2. WitnessInv(r)'
    BY <1>2, <1>3, <1>4, FactsStand DEF Inv, RequestInv, WitnessInv, InFlight, table
  <2>3. ControlInv(r)' /\ CreateInv(r)'
    BY <1>2, <1>3 DEF ControlInv, CreateInv
  <2>4. TargetInv(r)' /\ AnswerInv(r)'
    BY <1>2, <1>3, <1>4, HistoryStands
    DEF Inv, RequestInv, TargetInv, AnswerInv, Revoked, table, Kinds
  <2>5. QED
    BY <2>1, <2>2, <2>3, <2>4 DEF RequestInv
<1>8. IdInv'
  BY <1>2, <1>3, <1>4, <1>6, IdsStand DEF table
<1>9. QED
  BY <1>1, <1>5, <1>7, <1>8 DEF Inv

(* A commit: who is being served has seen the table it leaves, and a rule  *)
(* that stops to allow leaves its permission denied, or it was doubled.    *)
LEMMA CommitStep ==
  ASSUME Inv, NEW r \in Reqs, Commit(r)
  PROVE  Inv'
<1> DEFINE i == job[r].id
           F(q) == Facts(rows, allowed, job[q])
<1>1. TypeOK'
  BY CommitTyped DEF Inv
<1>2. /\ pc[r] = "commit" /\ job[r] # NoJob /\ result[r] = "none"
      /\ job[r].kind \in Kinds /\ job[r].value \in BOOLEAN
      /\ UNCHANGED <<rule, job, before>>
      /\ \/ job[r].kind = "delete" /\ pc'[r] = "done" /\ result'[r] = "ok"
         \/ job[r].kind # "delete" /\ pc'[r] = "list" /\ result'[r] = "none"
      /\ \A q \in Reqs \ {r} : pc'[q] = pc[q] /\ result'[q] = result[q] /\ written'[q] = written[q]
      /\ written'[r] = {}
  BY DEF Commit, Goto, Answer, Inv, TypeOK, AllJobs, RequestInv, ControlInv
<1>3. Later
  BY <1>2 DEF Later, Inv, TypeOK
<1>4. ASSUME NEW q \in Reqs
      PROVE  /\ seen[q] \subseteq seen'[q]
             /\ q \in InFlight => seen'[q] = seen[q] \cup F(q)'
             /\ q \notin InFlight => seen'[q] = seen[q]
  <2>1. F(q)' = Facts(rows', allowed', job[q])
    BY <1>2 DEF Facts, Matching, Grants
  <2>2. QED
    BY <2>1 DEF Commit, InFlight
(* The rows that are added, changed and removed.                           *)
<1>5. /\ written[r] \subseteq {i} /\ i \in DOMAIN rule
      /\ job[r].kind = "create" => written[r] = {i} /\ i \notin rows
      /\ job[r].kind # "create" => written[r] \subseteq rows
  BY <1>2 DEF Inv, TypeOK, RequestInv, CreateInv, TargetInv
<1>6. /\ job[r].kind = "create" => rows' = rows \cup {i}
      /\ job[r].kind = "update" => rows' = rows
      /\ job[r].kind = "delete" => rows' = rows \ written[r]
  BY <1>5, <1>2 DEF Commit, Kinds
<1>7. \A k \in rows' \ rows : k = i /\ Created(r, k)' /\ job[r].kind = "create"
  BY <1>2, <1>5, <1>6 DEF Created, Kinds
<1>8. \A k \in rows \ rows' : k = i /\ k \in written[r] /\ Deleted(k)' /\ job[r].kind = "delete"
  BY <1>2, <1>5, <1>6 DEF Deleted, Kinds
<1>9. ASSUME NEW q \in Reqs, q \in InFlight, job[q].kind # "create", job[q].id \in rows,
             rule[job[q].id] = job[q].triple, job[q].id \notin allowed'
      PROVE  Revoked(q)'
  <2>1. F(q) \subseteq seen[q] \cup {"gone", "set"}
    BY <1>9 DEF Inv, RequestInv, WitnessInv
  <2>2. ASSUME NEW k \in rows', k \in allowed', rule[k] = job[q].triple
        PROVE  "double" \in seen'[q]
    <3>1. k # job[q].id
      BY <1>9, <2>2
    <3>2. k \in rows \/ job[q].id \in rows'
      BY <1>7, <1>8, <1>9
    <3>3. "double" \in F(q) \/ "double" \in F(q)'
      BY <1>2, <1>9, <2>2, <3>1, <3>2 DEF Facts, FactNames, Matching
    <3>4. QED
      BY <1>4, <1>9, <2>1, <3>3
  <2>3. ASSUME ~\E k \in rows' : k \in allowed' /\ rule[k] = job[q].triple
        PROVE  "denied" \in seen'[q]
    <3>1. "denied" \in F(q)'
      BY <1>2, <2>3 DEF Facts, FactNames, Matching, Grants
    <3>2. QED
      BY <1>4, <1>9, <3>1
  <2>4. QED
    BY <2>2, <2>3 DEF Revoked
<1>10. IdInv'
  <2>1. \A q \in Reqs : (Drawn(q)' <=> Drawn(q)) /\ job'[q] = job[q]
    BY <1>2 DEF Drawn
  <2>2. \A k \in rows' : k \in DOMAIN InitRules \/ \E q \in Reqs : Created(q, k)'
    BY <1>3, <1>7, HistoryStands DEF Inv, IdInv
  <2>3. ASSUME NEW q \in Reqs, result'[q] = "ok", job'[q].kind = "delete"
        PROVE  /\ job'[q].id \in DOMAIN rule' \ rows'
               /\ \A p \in Reqs : pc'[p] = "commit" /\ job'[p].kind = "create" => job'[p].id # job'[q].id
    <3>1. CASE q # r
      <4>1. /\ job[q].id \in DOMAIN rule \ rows
            /\ \A p \in Reqs : pc[p] = "commit" /\ job[p].kind = "create" => job[p].id # job[q].id
        BY <1>2, <2>3, <3>1 DEF Inv, IdInv
      <4>2. QED
        BY <1>2, <1>7, <4>1
    <3>2. CASE q = r
      <4>1. i \notin rows'
        BY <1>2, <1>5, <1>6, <2>3, <3>2 DEF Inv, RequestInv, TargetInv
      <4>2. ASSUME NEW p \in Reqs, p # r, pc[p] = "commit", job[p].kind = "create"
            PROVE  job[p].id # i
        <5>1. job[p].id \notin rows
          BY <4>2 DEF Inv, RequestInv, CreateInv
        <5>2. i \in rows \/ Deleted(i)
          BY <1>2, <2>3, <3>2 DEF Inv, RequestInv, TargetInv
        <5>3. Deleted(i) => job[p].id # i
          BY <4>2 DEF Deleted, Inv, IdInv
        <5>4. QED
          BY <5>1, <5>2, <5>3
      <4>3. QED
        BY <1>2, <1>5, <3>2, <4>1, <4>2
    <3>3. QED
      BY <3>1, <3>2
  <2>4. QED
    BY <1>2, <2>1, <2>2, <2>3 DEF Inv, IdInv
<1>11. ASSUME NEW q \in Reqs
       PROVE  OverlapInv(q)' /\ ControlInv(q)' /\ WitnessInv(q)'
  <2>1. before'[q] \subseteq {p \in Reqs : pc'[p] \in {"list", "done"}}
    BY <1>2, <1>3 DEF Later, Inv, RequestInv, OverlapInv, TypeOK
  <2>2. ASSUME NEW k \in rows', pc'[q] = "insert" \/ (Drawn(q)' /\ job'[q].id # k),
               rule'[k] = job'[q].triple
        PROVE  \E p \in Reqs : Created(p, k)' /\ p \notin before'[q]
    <3>1. pc[q] = "insert" \/ (Drawn(q) /\ job[q].id # k)
      BY <1>2, <2>2 DEF Drawn
    <3>2. CASE k \in rows
      BY <1>2, <1>3, <2>2, <3>1, <3>2, HistoryStands DEF Inv, RequestInv, OverlapInv
    <3>3. CASE k \notin rows
      BY <1>2, <1>7, <3>3 DEF Inv, RequestInv, OverlapInv
    <3>4. QED
      BY <3>2, <3>3
  <2>3. ControlInv(q)'
    BY <1>2 DEF Inv, RequestInv, ControlInv
  <2>4. WitnessInv(q)'
    BY <1>2, <1>4 DEF WitnessInv, InFlight
  <2>5. QED
    BY <2>1, <2>2, <2>3, <2>4 DEF OverlapInv
<1>12. RequestInv(r)'
  <2>1. CreateInv(r)'
    <3>1. CASE job[r].kind = "create"
      <4>1. "absent" \in seen'[r]
        BY <1>2, <1>4, <3>1 DEF Inv, RequestInv, CreateInv
      <4>2. i \in rows' /\ rule[i] = job[r].triple
        <5>1. i # 0
          BY <1>5 DEF Inv, TypeOK
        <5>2. QED
          BY <1>2, <1>6, <3>1, <5>1 DEF Inv, IdInv, Drawn
      <4>3. "present" \in F(r)'
        BY <1>2, <4>2 DEF Facts, FactNames, Matching
      <4>4. QED
        BY <1>2, <1>4, <3>1, <4>1, <4>2, <4>3 DEF CreateInv, InFlight
    <3>2. QED
      BY <1>2, <3>1 DEF CreateInv
  <2>2. TargetInv(r)'
    <3>1. CASE job[r].kind = "update"
      <4>1. /\ i \in DOMAIN rule /\ rule[i] = job[r].triple
            /\ i \in rows' \/ (Deleted(i)' /\ Revoked(r)')
        BY <1>2, <1>3, <1>4, <1>6, <3>1, HistoryStands DEF Inv, RequestInv, TargetInv, Revoked
      <4>2. CASE written[r] = {}
        BY <1>2, <1>4, <3>1, <4>1, <4>2 DEF Inv, RequestInv, TargetInv, Revoked
      <4>3. CASE written[r] = {i}
        <5>1. i \in rows /\ i \in rows' /\ (i \in allowed' <=> job[r].value)
          BY <1>2, <1>5, <1>6, <3>1, <4>3 DEF Commit, Says
        <5>2. "set" \in seen'[r]
          BY <1>2, <1>4, <5>1 DEF Facts, FactNames, InFlight
        <5>3. job[r].value \/ Revoked(r)'
          BY <1>2, <1>9, <3>1, <4>1, <5>1 DEF InFlight
        <5>4. QED
          BY <1>2, <3>1, <4>1, <5>2, <5>3 DEF TargetInv
      <4>4. QED
        BY <1>5, <4>2, <4>3
    <3>2. QED
      BY <1>2, <3>1 DEF TargetInv, Kinds
  <2>3. AnswerInv(r)'
    <3>1. CASE job[r].kind = "delete"
      <4>1. CASE i \in rows
        <5>1. i \notin rows' /\ i \notin allowed'
          BY <1>1, <1>2, <1>5, <1>6, <3>1, <4>1 DEF Inv, RequestInv, TargetInv, TypeOK
        <5>2. Revoked(r)'
          BY <1>2, <1>9, <3>1, <4>1, <5>1 DEF InFlight, Inv, RequestInv, TargetInv
        <5>3. QED
          BY <1>2, <3>1, <5>2 DEF AnswerInv
      <4>2. CASE i \notin rows
        BY <1>2, <1>4, <3>1, <4>2 DEF AnswerInv, Inv, RequestInv, TargetInv, Revoked
      <4>3. QED
        BY <4>1, <4>2
    <3>2. QED
      BY <1>2, <3>1 DEF AnswerInv
  <2>4. QED
    BY <1>11, <2>1, <2>2, <2>3 DEF RequestInv
<1>13. ASSUME NEW q \in Reqs \ {r}
       PROVE  RequestInv(q)'
  <2>1. pc'[q] = pc[q] /\ result'[q] = result[q] /\ written'[q] = written[q] /\ job'[q] = job[q]
    BY <1>2
  <2>2. written[q] \cap written[r] = {}
    BY DEF Inv, TypeOK
  <2>3. \A k : k \in rows \/ Deleted(k) => k \in rows' \/ Deleted(k)'
    BY <1>3, <1>8, HistoryStands
  <2>4. CreateInv(q)'
    BY <1>2, <1>4, <1>5, <1>7, <2>1, <2>2, <2>3 DEF Inv, RequestInv, CreateInv
  <2>5. TargetInv(q)'
    <3>1. SUFFICES ASSUME pc[q] \in {"flush", "commit", "list"}, job[q].kind # "create"
                   PROVE  TargetInv(q)'
      BY <2>1 DEF TargetInv
    <3>2. TargetInv(q) /\ q \in InFlight
      BY <3>1 DEF Inv, RequestInv, InFlight
    <3>3. job[q].id \in rows' \/ (Deleted(job[q].id)' /\ Revoked(q)')
      <4>1. CASE job[q].id \in rows /\ job[q].id \notin rows'
        <5>1. job[q].id \notin allowed'
          BY <1>1, <4>1 DEF TypeOK
        <5>2. Revoked(q)'
          BY <1>9, <3>1, <3>2, <4>1, <5>1 DEF TargetInv
        <5>3. QED
          BY <1>8, <2>1, <4>1, <5>2 DEF Deleted
      <4>2. CASE job[q].id \notin rows
        <5>1. Deleted(job[q].id) /\ Revoked(q)
          BY <3>1, <3>2, <4>2 DEF TargetInv
        <5>2. Revoked(q)'
          BY <1>4, <5>1 DEF Revoked
        <5>3. Deleted(job[q].id)'
          BY <1>2, <1>3, <5>1, HistoryStands DEF Deleted
        <5>4. QED
          BY <5>2, <5>3
      <4>3. QED
        BY <4>1, <4>2
    <3>4. pc[q] = "commit" => written[q] \subseteq {job[q].id} \cap rows'
      BY <1>8, <2>2, <3>1, <3>2 DEF TargetInv
    <3>5. ASSUME job[q].id \notin rows
          PROVE  job[q].id \notin rows'
      <4>1. Deleted(job[q].id)
        BY <3>1, <3>2, <3>5 DEF TargetInv
      <4>2. job[r].kind = "create" => i # job[q].id
        BY <1>2, <4>1 DEF Deleted, Inv, IdInv
      <4>3. QED
        BY <1>7, <3>5, <4>2
    <3>6. QED
      BY <1>2, <1>4, <2>1, <3>1, <3>2, <3>3, <3>4, <3>5 DEF TargetInv, Revoked
  <2>6. AnswerInv(q)'
    BY <1>3, <1>4, <2>1, HistoryStands DEF Inv, RequestInv, AnswerInv, Revoked
  <2>7. QED
    BY <1>11, <2>4, <2>5, <2>6 DEF RequestInv
<1>14. QED
  BY <1>1, <1>10, <1>12, <1>13 DEF Inv

-----------------------------------------------------------------------------
(* The theorems                                                            *)

LEMMA InitInv == Init => Inv
<1> SUFFICES ASSUME Init PROVE Inv
  OBVIOUS
<1>1. TypeOK
  BY InitTyped
<1>2. IdInv
  BY AccessRulesAssumption DEF Init, IdInv, Drawn
<1>3. ASSUME NEW r \in Reqs
      PROVE  RequestInv(r)
  BY DEF Init, RequestInv, OverlapInv, ControlInv, WitnessInv, CreateInv, TargetInv, AnswerInv,
         Drawn, InFlight
<1>4. QED
  BY <1>1, <1>2, <1>3 DEF Inv

LEMMA UnchangedInv ==
  ASSUME Inv, UNCHANGED vars
  PROVE  Inv'
<1> USE DEF vars, table
<1>1. Later /\ \A q \in Reqs : Same(q)
  BY DEF Later, Same, Inv, TypeOK
<1>2. TypeOK' /\ IdInv'
  BY DEF Inv, TypeOK, IdInv, Drawn, Created
<1>3. \A q \in Reqs : RequestInv(q)'
  BY <1>1, Frame
<1>4. QED
  BY <1>2, <1>3 DEF Inv

LEMMA NextInv == Inv /\ [Next]_vars => Inv'
<1> SUFFICES ASSUME Inv, [Next]_vars PROVE Inv'
  OBVIOUS
<1>1. ASSUME NEW r \in Reqs, NEW j \in Jobs, FindRule(r, j)
      PROVE  Inv'
  BY <1>1, FindRuleStep
<1>2. ASSUME NEW r \in Reqs, NEW j \in Jobs, GetRule(r, j)
      PROVE  Inv'
  BY <1>2, GetRuleStep
<1>3. ASSUME NEW r \in Reqs, Insert(r)
      PROVE  Inv'
  BY <1>3, InsertStep
<1>4. ASSUME NEW r \in Reqs, Flush(r)
      PROVE  Inv'
  BY <1>4, FlushStep
<1>5. ASSUME NEW r \in Reqs, Commit(r)
      PROVE  Inv'
  BY <1>5, CommitStep
<1>6. ASSUME NEW r \in Reqs, List(r) \/ Abort(r)
      PROVE  Inv'
  BY <1>6, AnswerStep
<1>7. ASSUME Quiet \/ UNCHANGED vars
      PROVE  Inv'
  BY <1>7, UnchangedInv DEF Quiet
<1>8. QED
  BY <1>1, <1>2, <1>3, <1>4, <1>5, <1>6, <1>7 DEF Next, Step

(* The inductive invariant holds.                                          *)
THEOREM Invariance == Spec => []Inv
BY InitInv, NextInv, PTL DEF Spec

(* The variables have their types; two transactions never hold a row.      *)
THEOREM TypeCorrect == Spec => []TypeOK
<1>1. Inv => TypeOK
  BY DEF Inv
<1>2. QED
  BY <1>1, Invariance, PTL

(* What an answer of the administration of rules says of the table was     *)
(* true while the request ran.                                             *)
THEOREM AnswersFit == Spec => []AnswersTruthful
<1>1. ASSUME Inv, NEW r \in Reqs, pc[r] = "done"
      PROVE  job[r].kind = "delete" /\ result[r] = "ok" => job[r].id \notin rows
  BY <1>1 DEF Inv, IdInv
<1>2. Inv => AnswersTruthful
  BY <1>1 DEF Inv, RequestInv, AnswerInv, AnswersTruthful
<1>3. QED
  BY <1>2, Invariance, PTL

(* Requests that follow each other never double a rule.                    *)
THEOREM DoublesOverlap == Spec => []DuplicatesOverlap
<1>1. ASSUME Inv, NEW i \in rows, NEW k \in rows, i # k, rule[i] = rule[k]
      PROVE  \E q, r \in Reqs : /\ Created(q, i) /\ Created(r, k)
                                /\ q \notin before[r] /\ r \notin before[q]
  <2>0. i \in DOMAIN rule /\ k \in DOMAIN rule /\ i # 0 /\ k # 0
    BY <1>1 DEF Inv, TypeOK
(* A rule with a creator has met the creator of any other of its triple.   *)
  <2>1. ASSUME NEW a \in rows, NEW b \in rows, a # b, rule[a] = rule[b], a # 0,
               NEW q \in Reqs, Created(q, a)
        PROVE  Drawn(q) /\ rule[a] = job[q].triple /\ job[q].id = a
               /\ \E p \in Reqs : Created(p, b) /\ p \notin before[q]
    <3>1. Drawn(q) /\ job[q].id = a
      BY <2>1 DEF Created, Drawn
    <3>2. rule[a] = job[q].triple
      BY <1>1, <3>1 DEF Inv, IdInv
    <3>3. OverlapInv(q)
      BY <1>1 DEF Inv, RequestInv
    <3>4. QED
      BY <2>1, <3>1, <3>2, <3>3 DEF OverlapInv
  <2>2. \A a : \A p, q \in Reqs : Created(p, a) /\ Created(q, a) /\ a # 0 => p = q
    BY <1>1 DEF Inv, IdInv, Created, Drawn
  <2>3. (\E q \in Reqs : Created(q, i)) \/ (\E r \in Reqs : Created(r, k))
    <3>1. i \in DOMAIN InitRules /\ k \in DOMAIN InitRules => i = k
      BY <1>1, AccessRulesAssumption DEF Inv, IdInv
    <3>2. QED
      BY <1>1, <3>1 DEF Inv, IdInv
  <2>4. QED
    BY <1>1, <2>0, <2>1, <2>2, <2>3
<1>2. Inv => DuplicatesOverlap
  BY <1>1 DEF DuplicatesOverlap
<1>3. QED
  BY <1>2, Invariance, PTL

(* A revocation that is answered ok has taken the permission, or the rule  *)
(* was doubled.                                                            *)
THEOREM RevocationsBite == Spec => []RevocationBites
<1>1. ASSUME Inv, NEW r \in Reqs, result[r] = "ok",
             job[r].kind = "delete" \/ (job[r].kind = "update" /\ ~job[r].value)
      PROVE  "denied" \in seen[r] \/ "double" \in seen[r]
  <2>1. pc[r] = "done"
    BY <1>1 DEF Inv, RequestInv, ControlInv
  <2>2. QED
    BY <1>1, <2>1 DEF Inv, RequestInv, AnswerInv, Revoked
<1>2. Inv => RevocationBites
  BY <1>1 DEF RevocationBites
<1>3. QED
  BY <1>2, Invariance, PTL

=============================================================================
