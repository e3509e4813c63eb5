-------------------------- MODULE Accounts_proofs ---------------------------
(* Proofs about Accounts, for any emails, names, requests and things they  *)
(* may ask for.                                                            *)
EXTENDS Accounts, SequenceTheorems, TLAPS

-----------------------------------------------------------------------------
(* Typing                                                                  *)

LEMMA Columns ==
  ASSUME TypeOK
  PROVE  /\ DOMAIN mail = 1 .. Len(mail) /\ DOMAIN name = 1 .. Len(mail) /\ Len(mail) \in Nat
         /\ \A i \in users : mail[i] \in Emails /\ name[i] \in Names
         /\ \A i \in users : i \in 1 .. Len(mail) /\ i # 0
BY DEF TypeOK

LEMMA NoWriteTyped ==
  /\ NoWrite.row = 0 /\ NoWrite.mail = Unset /\ NoWrite.name = Unset /\ NoWrite.deleted = Unset
  /\ NotHeld.mail = Unset /\ NotHeld.name = Unset
  /\ NotHeld \in [mail : Emails \cup {Unset}, name : Names \cup {Unset}]
  /\ \A n \in Nat : NoWrite \in [row : 0 .. n, mail : Emails \cup {Unset},
                                 name : Names \cup {Unset}, deleted : {TRUE, Unset}]
BY DEF NoWrite, NotHeld

LEMMA InitTyped == Init => TypeOK
<1> SUFFICES ASSUME Init PROVE TypeOK
  OBVIOUS
<1>1. mail \in Seq(Emails) /\ Len(mail) \in Nat /\ DOMAIN mail = 1 .. Len(mail)
  BY AccountsAssumption DEF Init
<1>2. name \in Seq(Names) /\ Len(name) = Len(mail)
  <2>1. name = [i \in 1 .. Len(mail) |-> InitName] /\ InitName \in Names
    BY <1>1, AccountsAssumption DEF Init
  <2>2. name \in [1 .. Len(mail) -> Names]
    BY <2>1
  <2>3. QED
    BY <1>1, <2>1, <2>2
<1>3. QED
  BY <1>1, <1>2, NoWriteTyped DEF Init, TypeOK, Labels, Outcomes

LEMMA JobsTyped ==
  ASSUME NEW j \in Jobs
  PROVE  /\ j \in AllJobs /\ j # NoJob /\ j.kind \in Kinds /\ j.user \in Nat
         /\ j.email \in Emails \cup {Unset, Null} /\ j.name \in Names \cup {Unset}
         /\ j.kind = "register" => j.user = 0 /\ j.email \in Emails /\ j.name \in Names
         /\ j.kind = "delete" => j.email = Unset /\ j.name = Unset
BY AccountsAssumption DEF AllJobs

LEMMA FactsTyped ==
  ASSUME NEW M, NEW U, NEW D, NEW j
  PROVE  Facts(M, U, D, j) \subseteq FactNames
BY DEF Facts

(* What a step that leaves the table alone has to keep.                    *)
LEMMA StepTyped ==
  ASSUME TypeOK, UNCHANGED <<table, took>>, NEW r \in Reqs,
         \/ \E l \in Labels : Goto(r, l)
         \/ \E o \in Outcomes : Answer(r, o),
         job' \in [Reqs -> AllJobs \cup {NoJob}],
         seen' \in [Reqs -> SUBSET FactNames],
         held' \in [Reqs -> [mail : Emails \cup {Unset}, name : Names \cup {Unset}]],
         UNCHANGED write \/ write' = [write EXCEPT ![r] = NoWrite]
  PROVE  TypeOK'
<1>1. /\ Len(mail) \in Nat
      /\ pc \in [Reqs -> Labels] /\ result \in [Reqs -> Outcomes]
      /\ write \in [Reqs -> [row : 0 .. Len(mail), mail : Emails \cup {Unset},
                             name : Names \cup {Unset}, deleted : {TRUE, Unset}]]
      /\ \A q, p \in Reqs : q # p /\ write[q].row = write[p].row => write[q].row = 0
  <2>1. Len(mail) \in Nat
    BY DEF TypeOK
  <2>2. QED
    BY <2>1 DEF TypeOK
<1>2. pc' \in [Reqs -> Labels] /\ result' \in [Reqs -> Outcomes]
  <2>1. CASE \E l \in Labels : Goto(r, l)
    BY <1>1, <2>1 DEF Goto
  <2>2. CASE \E o \in Outcomes : Answer(r, o)
    BY <1>1, <2>2 DEF Answer, Labels
  <2>3. QED
    BY <2>1, <2>2
<1>3. /\ write' \in [Reqs -> [row : 0 .. Len(mail), mail : Emails \cup {Unset},
                              name : Names \cup {Unset}, deleted : {TRUE, Unset}]]
      /\ \A q, p \in Reqs : q # p /\ write'[q].row = write'[p].row => write'[q].row = 0
  <2>1. CASE UNCHANGED write
    BY <1>1, <2>1
  <2>2. CASE write' = [write EXCEPT ![r] = NoWrite]
    <3>1. NoWrite \in [row : 0 .. Len(mail), mail : Emails \cup {Unset},
                       name : Names \cup {Unset}, deleted : {TRUE, Unset}]
          /\ NoWrite.row = 0
      BY <1>1, NoWriteTyped
    <3>2. \A q \in Reqs : write'[q] = IF q = r THEN NoWrite ELSE write[q]
      BY <1>1, <2>2
    <3>3. QED
      BY <1>1, <2>2, <3>1, <3>2
  <2>3. QED
    BY <2>1, <2>2
<1>4. QED
  BY <1>2, <1>3 DEF TypeOK, table

LEMMA BeginTyped ==
  ASSUME TypeOK, NEW r \in Reqs, NEW j \in Jobs, RegisterCheck(r, j) \/ SelectTarget(r, j)
  PROVE  TypeOK'
<1>1. Begin(r, j) /\ j \in AllJobs
  BY JobsTyped DEF RegisterCheck, SelectTarget
<1>2. /\ UNCHANGED <<table, took>>
      /\ job' \in [Reqs -> AllJobs \cup {NoJob}]
      /\ seen' \in [Reqs -> SUBSET FactNames]
  BY <1>1, FactsTyped DEF Begin, TypeOK
<1>3. held' \in [Reqs -> [mail : Emails \cup {Unset}, name : Names \cup {Unset}]]
  <2>1. j.user \in users => mail[j.user] \in Emails /\ name[j.user] \in Names
    BY Columns
  <2>2. held \in [Reqs -> [mail : Emails \cup {Unset}, name : Names \cup {Unset}]]
    BY DEF TypeOK
  <2>3. \/ UNCHANGED held
        \/ held' = [held EXCEPT ![r] = NotHeld]
        \/ /\ j.user \in users
           /\ held' = [held EXCEPT ![r] = [mail |-> mail[j.user], name |-> name[j.user]]]
    BY DEF RegisterCheck, SelectTarget, Answer
  <2>4. QED
    BY <2>1, <2>2, <2>3, NoWriteTyped
<1>4. (\E l \in Labels : Goto(r, l)) \/ (\E o \in Outcomes : Answer(r, o))
  BY DEF RegisterCheck, SelectTarget, Labels, Outcomes
<1>5. UNCHANGED write \/ write' = [write EXCEPT ![r] = NoWrite]
  BY DEF RegisterCheck, SelectTarget, Answer
<1>6. QED
  BY <1>2, <1>3, <1>4, <1>5, StepTyped

LEMMA InsertTyped ==
  ASSUME TypeOK, NEW r \in Reqs, Insert(r), job[r] \in AllJobs, job[r].kind = "register"
  PROVE  /\ TypeOK'
         /\ Len(mail') = Len(mail) + 1 /\ Len(mail) \in Nat
         /\ \A i \in users : mail'[i] = mail[i] /\ name'[i] = name[i]
         /\ job'[r].kind = "register" /\ job'[r].email = job[r].email
         /\ job'[r].user = Len(mail')
<1>1. /\ job[r].email \in Emails /\ job[r].name \in Names /\ Len(mail) \in Nat
      /\ mail \in Seq(Emails) /\ name \in Seq(Names) /\ Len(name) = Len(mail)
      /\ DOMAIN mail = 1 .. Len(mail) /\ users \subseteq 1 .. Len(mail)
  BY DEF AllJobs, TypeOK
<1>2. /\ mail' \in Seq(Emails) /\ name' \in Seq(Names) /\ Len(name') = Len(mail')
      /\ Len(mail') = Len(mail) + 1 /\ DOMAIN mail' = 1 .. Len(mail) + 1
      /\ \A i \in users : mail'[i] = mail[i] /\ name'[i] = name[i]
  BY <1>1 DEF Insert
<1>3. job' \in [Reqs -> AllJobs \cup {NoJob}] /\ job'[r] = [job[r] EXCEPT !.user = Len(mail')]
  <2>1. [job[r] EXCEPT !.user = Len(mail')] \in AllJobs
    BY <1>1, <1>2 DEF AllJobs
  <2>2. job \in [Reqs -> AllJobs \cup {NoJob}]
    BY DEF TypeOK
  <2>3. QED
    BY <2>1, <2>2 DEF Insert
<1> DEFINE w == [row |-> Len(mail'), mail |-> job[r].email, name |-> Unset, deleted |-> Unset]
           W(n) == [row : 0 .. n, mail : Emails \cup {Unset},
                    name : Names \cup {Unset}, deleted : {TRUE, Unset}]
<1>4. write' \in [Reqs -> W(Len(mail'))]
  <2>1. w \in W(Len(mail'))
    <3>1. Len(mail') \in 0 .. Len(mail')
      BY <1>1, <1>2
    <3>2. QED
      BY <1>1, <3>1
  <2>2. write \in [Reqs -> W(Len(mail))] /\ W(Len(mail)) \subseteq W(Len(mail'))
    <3>1. write \in [Reqs -> W(Len(mail))]
      BY DEF TypeOK
    <3>2. 0 .. Len(mail) \subseteq 0 .. Len(mail')
      BY <1>1, <1>2
    <3>3. QED
      BY <3>1, <3>2
  <2>3. write' = [write EXCEPT ![r] = w]
    BY DEF Insert
  <2>4. QED
    BY <2>1, <2>2, <2>3
<1>5. ASSUME NEW q \in Reqs, NEW p \in Reqs, q # p, write'[q].row = write'[p].row
      PROVE  write'[q].row = 0
  <2>1. /\ write[q].row \in 0 .. Len(mail) /\ write[p].row \in 0 .. Len(mail)
        /\ write[q].row = write[p].row => write[q].row = 0
    BY <1>5 DEF TypeOK
  <2>2. write'[r].row = Len(mail) + 1 /\ \A x \in Reqs \ {r} : write'[x] = write[x]
    BY <1>2 DEF Insert, TypeOK, NoWrite
  <2>3. QED
    BY <1>1, <1>5, <2>1, <2>2
<1>6. pc' \in [Reqs -> Labels] /\ UNCHANGED <<users, deleted, result, held, took, seen>>
  BY DEF Insert, Goto, TypeOK, Labels
<1>7. TypeOK'
  <2>1. deleted' \subseteq users' /\ users' \subseteq DOMAIN mail'
    BY <1>1, <1>2, <1>6 DEF TypeOK
  <2>2. QED
    BY <1>2, <1>3, <1>4, <1>5, <1>6, <2>1 DEF TypeOK
<1>8. QED
  BY <1>2, <1>3, <1>7, <1>1 DEF AllJobs

LEMMA CheckEmailTyped ==
  ASSUME TypeOK, NEW r \in Reqs, CheckEmail(r)
  PROVE  TypeOK'
<1>1. job[r].user \in users => mail[job[r].user] \in Emails /\ name[job[r].user] \in Names
  BY Columns
<1>2. UNCHANGED <<table, took, job, seen>>
  BY DEF CheckEmail
<1>3. held' \in [Reqs -> [mail : Emails \cup {Unset}, name : Names \cup {Unset}]]
  <2>1. held \in [Reqs -> [mail : Emails \cup {Unset}, name : Names \cup {Unset}]]
    BY DEF TypeOK
  <2>2. \/ held' = held
        \/ held' = [held EXCEPT ![r] = NotHeld]
        \/ /\ job[r].user \in users
           /\ held' = [held EXCEPT ![r] = [mail |-> mail[job[r].user], name |-> name[job[r].user]]]
    BY <2>1 DEF CheckEmail, Answer, Holders
  <2>3. QED
    BY <1>1, <2>1, <2>2, NoWriteTyped
<1>4. (\E l \in Labels : Goto(r, l)) \/ (\E o \in Outcomes : Answer(r, o))
  BY DEF CheckEmail, Labels, Outcomes
<1>5. UNCHANGED write \/ write' = [write EXCEPT ![r] = NoWrite]
  BY DEF CheckEmail, Answer
<1>6. job' \in [Reqs -> AllJobs \cup {NoJob}] /\ seen' \in [Reqs -> SUBSET FactNames]
  BY <1>2 DEF TypeOK
<1>7. QED
  BY <1>2, <1>3, <1>4, <1>5, <1>6, StepTyped

LEMMA AnswerTyped ==
  ASSUME TypeOK, NEW r \in Reqs, UNCHANGED <<table, took, job, seen>>,
         \/ \E o \in Outcomes : Answer(r, o)
         \/ \E l \in Labels : Goto(r, l) /\ UNCHANGED <<held, write>>
  PROVE  TypeOK'
<1>1. held' \in [Reqs -> [mail : Emails \cup {Unset}, name : Names \cup {Unset}]]
  <2>1. held \in [Reqs -> [mail : Emails \cup {Unset}, name : Names \cup {Unset}]]
    BY DEF TypeOK
  <2>2. held' = held \/ held' = [held EXCEPT ![r] = NotHeld]
    BY DEF Answer
  <2>3. QED
    BY <2>1, <2>2, NoWriteTyped
<1>2. (\E l \in Labels : Goto(r, l)) \/ (\E o \in Outcomes : Answer(r, o))
  OBVIOUS
<1>3. UNCHANGED write \/ write' = [write EXCEPT ![r] = NoWrite]
  BY DEF Answer
<1>4. job' \in [Reqs -> AllJobs \cup {NoJob}] /\ seen' \in [Reqs -> SUBSET FactNames]
  BY DEF TypeOK
<1>5. QED
  BY <1>1, <1>2, <1>3, <1>4, StepTyped

(* The row and the columns that an update or a deletion writes.            *)
LEMMA ChangedFits ==
  ASSUME TypeOK, NEW r \in Reqs, job[r] \in AllJobs, job[r].user \in users,
         Changed(r).mail # Null
  PROVE  Changed(r) \in [row : 0 .. Len(mail), mail : Emails \cup {Unset},
                         name : Names \cup {Unset}, deleted : {TRUE, Unset}]
<1>1. job[r].user \in 0 .. Len(mail)
  BY Columns
<1>2. /\ Changed(r).row = job[r].user
      /\ Changed(r).mail \in {Unset, job[r].email} /\ Changed(r).name \in {Unset, job[r].name}
      /\ Changed(r).deleted \in {TRUE, Unset}
  BY DEF Changed
<1>3. job[r].email \in Emails \cup {Unset, Null} /\ job[r].name \in Names \cup {Unset}
  BY DEF AllJobs
<1>4. Changed(r) = [row |-> Changed(r).row, mail |-> Changed(r).mail,
                    name |-> Changed(r).name, deleted |-> Changed(r).deleted]
  BY DEF Changed
<1>5. QED
  BY <1>1, <1>2, <1>3, <1>4

LEMMA LockRowTyped ==
  ASSUME TypeOK, NEW r \in Reqs, LockRow(r), job[r] \in AllJobs, job[r].user \in users
  PROVE  TypeOK'
<1>1. UNCHANGED <<table, took, job, seen>>
  BY DEF LockRow
<1>2. CASE (\E o \in Outcomes : Answer(r, o)) \/ (\E l \in Labels : Goto(r, l) /\ UNCHANGED <<held, write>>)
  BY <1>1, <1>2, AnswerTyped
<1>3. CASE /\ Changed(r).mail # Null /\ RowFree(r, Changed(r).row)
           /\ write' = [write EXCEPT ![r] = Changed(r)]
           /\ \E l \in Labels : Goto(r, l)
           /\ UNCHANGED held
  <2> DEFINE W == [row : 0 .. Len(mail), mail : Emails \cup {Unset},
                   name : Names \cup {Unset}, deleted : {TRUE, Unset}]
  <2>1. write \in [Reqs -> W] /\ Changed(r) \in W
    BY <1>3, ChangedFits DEF TypeOK
  <2>2. write' \in [Reqs -> W] /\ \A q \in Reqs : write'[q] = IF q = r THEN Changed(r) ELSE write[q]
    BY <1>3, <2>1
  <2>3. \A q, p \in Reqs : q # p /\ write'[q].row = write'[p].row => write'[q].row = 0
    BY <1>3, <2>2 DEF TypeOK, RowFree
  <2>4. pc' \in [Reqs -> Labels] /\ result' = result
    BY <1>3 DEF TypeOK, Goto
  <2>5. QED
    BY <1>1, <1>3, <2>2, <2>3, <2>4 DEF TypeOK, table
<1>4. QED
  BY <1>2, <1>3 DEF LockRow, Labels, Outcomes

LEMMA EnterIndexTyped ==
  ASSUME TypeOK, NEW r \in Reqs, EnterIndex(r) \/ Reread(r) \/ Abort(r)
  PROVE  TypeOK'
<1>1. UNCHANGED <<table, took, job, seen>>
  BY DEF EnterIndex, Reread, Abort
<1>2. (\E o \in Outcomes : Answer(r, o)) \/ (\E l \in Labels : Goto(r, l) /\ UNCHANGED <<held, write>>)
  BY DEF EnterIndex, Reread, Abort, Outcomes, Labels
<1>3. QED
  BY <1>1, <1>2, AnswerTyped

(* COMMIT puts the columns that are written in the place of the old ones.  *)
LEMMA CommitTable ==
  ASSUME TypeOK, NEW r \in Reqs, Commit(r)
  PROVE  /\ mail' \in Seq(Emails) /\ name' \in Seq(Names)
         /\ Len(mail') = Len(mail) /\ Len(name') = Len(mail)
         /\ \A i \in DOMAIN mail :
              /\ mail'[i] = IF i = write[r].row /\ write[r].mail # Unset THEN write[r].mail ELSE mail[i]
              /\ name'[i] = IF i = write[r].row /\ write[r].name # Unset THEN write[r].name ELSE name[i]
         /\ users' = users \cup ({write[r].row} \ {0})
         /\ deleted' = IF write[r].deleted = TRUE THEN deleted \cup {write[r].row} ELSE deleted
<1> DEFINE w == write[r]
<1>1. /\ w.row \in 0 .. Len(mail) /\ w.mail \in Emails \cup {Unset}
      /\ w.name \in Names \cup {Unset} /\ w.deleted \in {TRUE, Unset}
      /\ w = write[r]
  BY DEF TypeOK
<1>2. /\ mail \in Seq(Emails) /\ name \in Seq(Names) /\ Len(mail) \in Nat
      /\ DOMAIN mail = 1 .. Len(mail) /\ DOMAIN name = 1 .. Len(mail)
  BY Columns DEF TypeOK
<1>3. /\ users' = users \cup ({w.row} \ {0})
      /\ mail' = [i \in DOMAIN mail |-> IF i = w.row THEN Merged(w.mail, mail[i]) ELSE mail[i]]
      /\ name' = [i \in DOMAIN name |-> IF i = w.row THEN Merged(w.name, name[i]) ELSE name[i]]
      /\ deleted' = CASE w.deleted = TRUE -> deleted \cup {w.row}
                      [] w.deleted = FALSE -> deleted \ {w.row}
                      [] OTHER -> deleted
  BY DEF Commit
<1> HIDE DEF w
<1>4. deleted' = IF w.deleted = TRUE THEN deleted \cup {w.row} ELSE deleted
  BY <1>1, <1>3, AccountsAssumption
<1>5. \A i \in 1 .. Len(mail) : mail[i] \in Emails /\ name[i] \in Names
  BY <1>2
<1>6. mail' \in [1 .. Len(mail) -> Emails] /\ name' \in [1 .. Len(mail) -> Names]
  BY <1>1, <1>2, <1>3, <1>5 DEF Merged
<1>7. mail' \in Seq(Emails) /\ name' \in Seq(Names) /\ Len(mail') = Len(mail) /\ Len(name') = Len(mail)
  BY <1>2, <1>6
<1>8. \A i \in DOMAIN mail :
        /\ mail'[i] = IF i = w.row /\ w.mail # Unset THEN w.mail ELSE mail[i]
        /\ name'[i] = IF i = w.row /\ w.name # Unset THEN w.name ELSE name[i]
  BY <1>2, <1>3 DEF Merged
<1>9. QED
  BY <1>1, <1>3, <1>4, <1>7, <1>8

LEMMA CommitTyped ==
  ASSUME TypeOK, NEW r \in Reqs, Commit(r), write[r].deleted = TRUE => write[r].row # 0
  PROVE  TypeOK'
<1> DEFINE W == [row : 0 .. Len(mail), mail : Emails \cup {Unset},
                 name : Names \cup {Unset}, deleted : {TRUE, Unset}]
<1>1. write \in [Reqs -> W] /\ Len(mail) \in Nat /\ write[r].row \in 0 .. Len(mail)
      /\ \A q, p \in Reqs : q # p /\ write[q].row = write[p].row => write[q].row = 0
  <2>1. Len(mail) \in Nat
    BY Columns
  <2>2. QED
    BY <2>1 DEF TypeOK
<1>2. deleted' \subseteq users' /\ users' \subseteq 1 .. Len(mail) /\ DOMAIN mail' = 1 .. Len(mail)
  <2>1. deleted \subseteq users /\ users \subseteq 1 .. Len(mail)
    BY Columns DEF TypeOK
  <2>2. /\ users' = users \cup ({write[r].row} \ {0})
        /\ deleted' = IF write[r].deleted = TRUE THEN deleted \cup {write[r].row} ELSE deleted
        /\ mail' \in Seq(Emails) /\ Len(mail') = Len(mail)
    BY CommitTable
  <2>3. users' \subseteq 1 .. Len(mail)
    <3>1. write[r].row \in {0} \cup (1 .. Len(mail))
      BY <1>1
    <3>2. QED
      BY <2>1, <2>2, <3>1
  <2>4. deleted' \subseteq users'
    BY <2>1, <2>2
  <2>5. DOMAIN mail' = 1 .. Len(mail)
    BY <2>2
  <2>6. QED
    BY <2>3, <2>4, <2>5
<1>3. write' = [write EXCEPT ![r] = NoWrite]
  BY DEF Commit, Answer
<1>4. NoWrite \in W /\ NoWrite.row = 0
  BY <1>1, NoWriteTyped
<1>5. write' \in [Reqs -> W]
      /\ \A q, p \in Reqs : q # p /\ write'[q].row = write'[p].row => write'[q].row = 0
  <2>1. \A q \in Reqs : write'[q] = IF q = r THEN NoWrite ELSE write[q]
    BY <1>1, <1>3
  <2>2. QED
    BY <1>1, <1>3, <1>4, <2>1
<1>6. held' \in [Reqs -> [mail : Emails \cup {Unset}, name : Names \cup {Unset}]]
  <2>1. held \in [Reqs -> [mail : Emails \cup {Unset}, name : Names \cup {Unset}]]
    BY DEF TypeOK
  <2>2. held' = held \/ held' = [held EXCEPT ![r] = NotHeld]
    BY DEF Commit, Answer
  <2>3. QED
    BY <2>1, <2>2, NoWriteTyped
<1>7. seen' \in [Reqs -> SUBSET FactNames]
  BY FactsTyped DEF Commit, TypeOK
<1>8. pc' \in [Reqs -> Labels] /\ result' \in [Reqs -> Outcomes] /\ took' \subseteq Reqs /\ job' = job
  BY DEF Commit, Goto, Answer, TypeOK, Labels, Outcomes
<1>9. QED
  BY <1>2, <1>5, <1>6, <1>7, <1>8, CommitTable DEF TypeOK

-----------------------------------------------------------------------------
(* What every step keeps                                                   *)

(* Accounts that are not committed may have been added to the columns.     *)
TableStands ==
  /\ UNCHANGED <<users, deleted, took>>
  /\ \A i \in users : mail'[i] = mail[i] /\ name'[i] = name[i]

(* What the committed requests did stays what it was.                      *)
TookStands == took \subseteq took' /\ \A q \in took : job'[q] = job[q]

(* Request q takes no step.                                                *)
Same(q) ==
  /\ pc'[q] = pc[q] /\ job'[q] = job[q] /\ result'[q] = result[q]
  /\ held'[q] = held[q] /\ write'[q] = write[q] /\ seen'[q] = seen[q]

LEMMA OthersStand ==
  ASSUME TookStands, NEW q \in Reqs, job'[q] = job[q]
  PROVE  /\ MailSetByOther(q) => MailSetByOther(q)'
         /\ NameSetByOther(q) => NameSetByOther(q)'
BY DEF TookStands, MailSetByOther, NameSetByOther, Sets

LEMMA FactsStand ==
  ASSUME TypeOK, TableStands, NEW q \in Reqs, job'[q] = job[q]
  PROVE  Facts(mail, users, deleted, job[q])' = Facts(mail, users, deleted, job[q])
<1>1. {i \in users \ {job[q].user} : mail[i] = job[q].email}'
        = {i \in users \ {job[q].user} : mail[i] = job[q].email}
  BY DEF TableStands
<1>2. (job[q].user \in users /\ mail[job[q].user] = job[q].email)'
        <=> (job[q].user \in users /\ mail[job[q].user] = job[q].email)
  BY DEF TableStands
<1>3. QED
  BY <1>1, <1>2 DEF Facts, TableStands

(* A request is concerned by its own steps and by commits only.            *)
LEMMA Frame ==
  ASSUME Inv, TableStands, TookStands, NEW q \in Reqs, Same(q)
  PROVE  RequestInv(q)'
<1> USE DEF Same
<1>1. RequestInv(q) /\ TypeOK
  BY DEF Inv
<1>2. ControlInv(q)' /\ WriteInv(q)' /\ AnswerInv(q)'
  BY <1>1 DEF RequestInv, ControlInv, WriteInv, AnswerInv, TableStands
<1>3. HeldInv(q)'
  <2>1. pc[q] \in {"check", "lock", "index", "commit"} /\ job[q].kind = "update" => job[q].user \in users
    BY <1>1 DEF RequestInv, ControlInv
  <2>2. QED
    BY <1>1, <2>1, OthersStand DEF RequestInv, HeldInv, TableStands
<1>4. SeenInv(q)'
  BY <1>1, FactsStand DEF RequestInv, SeenInv, InFlight
<1>5. TookInv(q)'
  BY <1>1, OthersStand DEF RequestInv, TookInv, TableStands
<1>6. QED
  BY <1>2, <1>3, <1>4, <1>5 DEF RequestInv

(* A step after which no request is past the index that was not before.    *)
LEMMA IndexStands ==
  ASSUME Inv, TypeOK', TableStands,
         \A q \in Reqs : pc'[q] = "commit" =>
           (pc[q] = "commit" /\ write'[q] = write[q]) \/ write'[q].mail = Unset
  PROVE  IndexInv'
<1>1. EmailsUnique'
  BY DEF Inv, IndexInv, EmailsUnique, TableStands
<1>2. ASSUME NEW r \in Reqs, pc'[r] = "commit", write'[r].mail # Unset
      PROVE  /\ ~Duplicate(r)'
             /\ \A q \in Reqs \ {r} : pc'[q] = "commit" => write'[q].mail # write'[r].mail
  <2>1. pc[r] = "commit" /\ write'[r] = write[r] /\ write[r].mail # Unset
    BY <1>2
  <2>2. ~Duplicate(r) /\ \A q \in Reqs \ {r} : pc[q] = "commit" => write[q].mail # write[r].mail
    BY <2>1 DEF Inv, IndexInv
  <2>3. ~Duplicate(r)'
    BY <2>1, <2>2 DEF Duplicate, TableStands
  <2>4. QED
    BY <1>2, <2>1, <2>2, <2>3
<1>3. QED
  BY <1>1, <1>2 DEF IndexInv

-----------------------------------------------------------------------------
(* The steps                                                               *)

(* A request answers; its transaction is rolled back or over.              *)
LEMMA AnswerStep ==
  ASSUME Inv, NEW r \in Reqs, NEW o \in Outcomes, Answer(r, o), pc[r] # "done",
         UNCHANGED <<table, took, job, seen>>, TypeOK', AnswerInv(r)'
  PROVE  Inv'
<1>1. TableStands /\ TookStands
  BY DEF TableStands, TookStands, table
<1>2. \A q \in Reqs \ {r} : Same(q)
  BY DEF Answer, Same, Inv, TypeOK
<1>3. pc'[r] = "done" /\ write'[r] = NoWrite /\ job'[r] = job[r]
  BY DEF Answer, Inv, TypeOK
<1>4. IndexInv'
  BY <1>1, <1>2, <1>3, IndexStands DEF Same
<1>5. TookInv(r)'
  BY <1>1, <1>3, OthersStand DEF Inv, RequestInv, TookInv, table
<1>6. ControlInv(r)' /\ WriteInv(r)' /\ HeldInv(r)' /\ SeenInv(r)'
  BY <1>3 DEF ControlInv, WriteInv, HeldInv, SeenInv, InFlight
<1>7. QED
  BY <1>1, <1>2, <1>4, <1>5, <1>6, Frame DEF Inv, RequestInv

LEMMA RereadStep ==
  ASSUME Inv, NEW r \in Reqs, Reread(r) \/ Abort(r)
  PROVE  Inv'
<1>1. TypeOK /\ TypeOK' /\ RequestInv(r)
  BY EnterIndexTyped DEF Inv
<1>2. /\ pc[r] # "done" /\ UNCHANGED <<table, took, job, seen>>
      /\ result[r] = "none"
  BY <1>1 DEF Reread, Abort, RequestInv, ControlInv
<1>3. CASE Abort(r)
  <2>1. Answer(r, "aborted")
    BY <1>3 DEF Abort
  <2>2. result'[r] = "aborted"
    BY <1>1, <2>1 DEF Answer, TypeOK
  <2>3. AnswerInv(r)'
    BY <2>2 DEF AnswerInv
  <2>4. QED
    BY <1>1, <1>2, <2>1, <2>3, AnswerStep DEF Outcomes
<1>4. CASE Reread(r)
  <2> DEFINE o == IF job[r].kind = "update" /\ job[r].user \in deleted THEN "notfound" ELSE "ok"
  <2>1. Answer(r, o) /\ o \in {"notfound", "ok"} /\ o \in Outcomes /\ pc[r] = "reread" /\ r \in took
    BY <1>1, <1>4 DEF Reread, Outcomes, RequestInv, ControlInv
  <2>2. result'[r] = o
    BY <1>1, <2>1 DEF Answer, TypeOK
  <2>3. o = "notfound" => "gone" \in Facts(mail, users, deleted, job[r])
    BY DEF Facts, FactNames
  <2> HIDE DEF o
  <2>4. AnswerInv(r)'
    BY <1>1, <1>2, <2>1, <2>2, <2>3 DEF AnswerInv, RequestInv, SeenInv, InFlight
  <2>5. QED
    BY <1>1, <1>2, <2>1, <2>4, AnswerStep
<1>5. QED
  BY <1>3, <1>4

(* A request begins: what is true is what has been true since.             *)
LEMMA BeginStep ==
  ASSUME Inv, NEW r \in Reqs, NEW j \in Jobs, RegisterCheck(r, j) \/ SelectTarget(r, j)
  PROVE  Inv'
<1>1. TypeOK /\ TypeOK' /\ RequestInv(r)
  BY BeginTyped DEF Inv
<1>2. Begin(r, j) /\ pc[r] = "idle" /\ UNCHANGED <<table, took>>
  BY DEF RegisterCheck, SelectTarget, Begin
<1>3. TableStands /\ TookStands /\ \A q \in Reqs \ {r} : Same(q)
  <2>1. \A q \in Reqs \ {r} : Same(q)
    BY <1>1, <1>2 DEF RegisterCheck, SelectTarget, Goto, Answer, Begin, Same, TypeOK
  <2>2. r \notin took
    BY <1>1, <1>2 DEF RequestInv, ControlInv
  <2>3. QED
    BY <1>1, <1>2, <2>1, <2>2 DEF TableStands, TookStands, table, Same, TypeOK
<1>4. /\ job'[r] = j /\ seen'[r] = Facts(mail, users, deleted, j)
      /\ r \notin took /\ result[r] = "none" /\ write[r] = NoWrite /\ took' = took
  BY <1>1, <1>2 DEF Begin, TypeOK, RequestInv, ControlInv, WriteInv
<1>5. /\ j # NoJob /\ j.kind \in Kinds
      /\ j.kind = "register" => j.user = 0 /\ j.email \in Emails
      /\ j.kind = "delete" => j.email = Unset
      /\ j.email \in Emails => j.email # Unset
  BY JobsTyped, AccountsAssumption
<1>6. \/ /\ pc'[r] = "insert" /\ result'[r] = "none" /\ write'[r] = NoWrite
         /\ j.kind = "register" /\ Holders(j.email) = {}
      \/ /\ pc'[r] = IF j.email \in Emails THEN "check" ELSE "lock"
         /\ result'[r] = "none" /\ write'[r] = NoWrite
         /\ j.kind # "register" /\ j.user \in users
         /\ held'[r] = [mail |-> mail[j.user], name |-> name[j.user]]
      \/ /\ pc'[r] = "done" /\ write'[r] = NoWrite
         /\ \/ result'[r] = "taken" /\ j.kind = "register" /\ Holders(j.email) # {}
            \/ result'[r] = "notfound" /\ j.user \notin users \ deleted
  BY <1>1, <1>4 DEF RegisterCheck, SelectTarget, Goto, Answer, TypeOK
<1>7. 0 \notin users
  BY <1>1, Columns
<1>8. IndexInv'
  BY <1>1, <1>3, <1>6, IndexStands DEF Same
<1>9. ControlInv(r)' /\ WriteInv(r)' /\ TookInv(r)'
  <2>1. users' = users
    BY <1>2 DEF table
  <2>2. ControlInv(r)'
    BY <1>4, <1>5, <1>6, <2>1 DEF ControlInv, Kinds
  <2>3. WriteInv(r)'
    BY <1>6 DEF WriteInv
  <2>4. TookInv(r)'
    BY <1>4 DEF TookInv
  <2>5. QED
    BY <2>2, <2>3, <2>4
<1>10. HeldInv(r)'
  <2>1. j.user \in users => mail[j.user] \in Emails /\ name[j.user] \in Names
    BY <1>1, Columns
  <2>2. j.user \in users /\ mail[j.user] = j.email => "own" \in seen'[r]
    BY <1>4 DEF Facts, FactNames
  <2>3. QED
    BY <1>2, <1>4, <1>6, <2>1, <2>2 DEF HeldInv, table
<1>11. SeenInv(r)'
  <2>1. Facts(mail, users, deleted, job[r])' = Facts(mail, users, deleted, j)
    BY <1>2, <1>4 DEF table, Facts
  <2>2. j.kind = "register" /\ Holders(j.email) = {} => "free" \in seen'[r]
    BY <1>4 DEF Facts, FactNames, Holders
  <2>3. QED
    BY <1>4, <1>6, <2>1, <2>2 DEF SeenInv
<1>12. AnswerInv(r)'
  <2>1. j.kind = "register" /\ Holders(j.email) # {} => "taken" \in seen'[r]
    BY <1>4, <1>5, <1>7 DEF Facts, FactNames, Holders
  <2>2. j.user \notin users \ deleted => "gone" \in seen'[r]
    BY <1>4 DEF Facts, FactNames
  <2>3. QED
    BY <1>4, <1>6, <2>1, <2>2 DEF AnswerInv
<1>13. QED
  BY <1>1, <1>3, <1>8, <1>9, <1>10, <1>11, <1>12, Frame DEF Inv, RequestInv

LEMMA InsertStep ==
  ASSUME Inv, NEW r \in Reqs, Insert(r)
  PROVE  Inv'
<1>1. /\ TypeOK /\ RequestInv(r) /\ pc[r] = "insert" /\ job[r].kind = "register" /\ job[r].user = 0
      /\ job[r] \in AllJobs /\ job[r].email \in Emails /\ result[r] = "none"
  <2>1. TypeOK /\ RequestInv(r) /\ pc[r] = "insert"
    BY DEF Inv, Insert
  <2>2. job[r].kind = "register" /\ job[r].user = 0 /\ job[r] \in AllJobs /\ result[r] = "none"
    BY <2>1 DEF RequestInv, ControlInv, TypeOK
  <2>3. job[r].email \in Emails
    BY <2>2 DEF AllJobs
  <2>4. QED
    BY <2>1, <2>2, <2>3
<1>2. /\ TypeOK'
      /\ Len(mail') = Len(mail) + 1 /\ Len(mail) \in Nat
      /\ \A i \in users : mail'[i] = mail[i] /\ name'[i] = name[i]
      /\ job'[r].kind = "register" /\ job'[r].email = job[r].email /\ job'[r].user = Len(mail')
  BY <1>1, InsertTyped
<1>3. /\ UNCHANGED <<users, deleted, took, held, seen>>
      /\ pc'[r] = "index" /\ result'[r] = "none"
      /\ write'[r] = [row |-> Len(mail'), mail |-> job[r].email, name |-> Unset, deleted |-> Unset]
      /\ \A q \in Reqs \ {r} : Same(q)
  BY <1>1 DEF Insert, Goto, Same, TypeOK
<1>4. /\ write'[r].row = Len(mail') /\ write'[r].mail = job[r].email
      /\ job'[r] # NoJob /\ Len(mail') \notin users /\ Len(mail') # 0 /\ write'[r] # NoWrite
  <2>1. Len(mail') \notin users /\ Len(mail') # 0
    BY <1>1, <1>2, Columns
  <2>2. write'[r] # NoWrite
    BY <1>3, <2>1, NoWriteTyped
  <2>3. job'[r] = [job[r] EXCEPT !.user = Len(mail')]
    BY <1>1 DEF Insert, TypeOK
  <2>4. [job[r] EXCEPT !.user = Len(mail')] \in AllJobs
    BY <1>1, <1>2 DEF AllJobs
  <2>5. QED
    BY <1>3, <2>1, <2>2, <2>3, <2>4, AccountsAssumption
<1>5. TableStands /\ TookStands
  <2>1. r \notin took
    BY <1>1 DEF RequestInv, ControlInv
  <2>2. QED
    BY <1>1, <1>2, <1>3, <2>1 DEF TableStands, TookStands, Same, TypeOK
<1>6. IndexInv'
  BY <1>2, <1>3, <1>5, IndexStands DEF Same
<1>7. ControlInv(r)' /\ WriteInv(r)' /\ HeldInv(r)' /\ AnswerInv(r)' /\ TookInv(r)'
  BY <1>1, <1>2, <1>3, <1>4 DEF ControlInv, WriteInv, HeldInv, AnswerInv, TookInv, RequestInv
<1>8. SeenInv(r)'
  <2>1. 0 \notin users
    BY <1>1, Columns
  <2>2. Facts(mail, users, deleted, job[r])' \subseteq Facts(mail, users, deleted, job[r])
    <3>1. {i \in users \ {job[r].user} : mail[i] = job[r].email}'
            = {i \in users \ {job[r].user} : mail[i] = job[r].email}
      BY <1>1, <1>2, <1>3, <1>4, <2>1
    <3>2. QED
      BY <1>1, <1>2, <1>3, <1>4, <2>1, <3>1 DEF Facts
  <2>3. QED
    BY <1>1, <1>2, <1>3, <2>2 DEF SeenInv, RequestInv, InFlight
<1>9. QED
  BY <1>2, <1>3, <1>5, <1>6, <1>7, <1>8, Frame DEF Inv, RequestInv

LEMMA CheckEmailStep ==
  ASSUME Inv, NEW r \in Reqs, CheckEmail(r)
  PROVE  Inv'
<1> DEFINE u == job[r].user
           holders == Holders(job[r].email)
<1>1. /\ TypeOK /\ TypeOK' /\ RequestInv(r) /\ pc[r] = "check" /\ result[r] = "none"
      /\ job[r] # NoJob /\ job[r].kind = "update" /\ job[r].email \in Emails /\ u \in users
      /\ UNCHANGED <<table, took, job, seen>> /\ r \notin took /\ write[r] = NoWrite
  <2>1. TypeOK /\ TypeOK' /\ RequestInv(r)
    BY CheckEmailTyped DEF Inv
  <2>2. pc[r] = "check" /\ UNCHANGED <<table, took, job, seen>>
    BY DEF CheckEmail
  <2>3. QED
    BY <2>1, <2>2 DEF RequestInv, ControlInv, WriteInv
<1>2. CASE holders \ {u} # {} /\ Answer(r, "taken")
  <2>1. "taken" \in Facts(mail, users, deleted, job[r])
    BY <1>2 DEF Facts, FactNames, Holders
  <2>2. result'[r] = "taken" /\ "taken" \in seen'[r] /\ r \notin took'
    BY <1>1, <1>2, <2>1 DEF Answer, TypeOK, RequestInv, SeenInv, InFlight
  <2>3. AnswerInv(r)'
    BY <2>2 DEF AnswerInv
  <2>4. QED
    BY <1>1, <1>2, <2>3, AnswerStep DEF Outcomes
<1>3. CASE /\ holders \ {u} = {} /\ Goto(r, "lock") /\ UNCHANGED write
           /\ held' = [held EXCEPT ![r] =
                IF u \in holders THEN [mail |-> mail[u], name |-> name[u]] ELSE @]
  <2>1. /\ \A q \in Reqs \ {r} : Same(q)
        /\ pc'[r] = "lock" /\ result'[r] = "none" /\ write'[r] = NoWrite
        /\ held'[r] = IF u \in holders THEN [mail |-> mail[u], name |-> name[u]] ELSE held[r]
    BY <1>1, <1>3 DEF Goto, Same, TypeOK
  <2>2. TableStands /\ TookStands
    BY <1>1 DEF TableStands, TookStands, table
  <2>3. IndexInv'
    BY <1>1, <2>1, <2>2, IndexStands DEF Same
  <2>4. ControlInv(r)' /\ WriteInv(r)' /\ AnswerInv(r)' /\ TookInv(r)'
    BY <1>1, <2>1 DEF ControlInv, WriteInv, AnswerInv, TookInv, table
  <2>5. "free" \in seen[r] /\ Facts(mail, users, deleted, job[r]) \subseteq seen[r]
    <3>1. "free" \in Facts(mail, users, deleted, job[r])
      BY <1>3 DEF Facts, FactNames, Holders
    <3>2. QED
      BY <1>1, <3>1 DEF RequestInv, SeenInv, InFlight
  <2>6. SeenInv(r)'
    BY <1>1, <2>1, <2>2, <2>5, FactsStand DEF SeenInv
  <2>7. HeldInv(r)'
    <3>1. CASE u \in holders
      <4>1. mail[u] \in Emails /\ name[u] \in Names
        BY <1>1, Columns
      <4>2. "own" \in Facts(mail, users, deleted, job[r])
        BY <1>1, <3>1 DEF Facts, FactNames, Holders
      <4>3. QED
        BY <1>1, <2>1, <2>5, <3>1, <4>1, <4>2 DEF HeldInv, table
    <3>2. CASE u \notin holders
      BY <1>1, <2>1, <2>2, <3>2, OthersStand DEF HeldInv, RequestInv, table
    <3>3. QED
      BY <3>1, <3>2
  <2>8. QED
    BY <1>1, <2>1, <2>2, <2>3, <2>4, <2>6, <2>7, Frame DEF Inv, RequestInv
<1>4. QED
  BY <1>2, <1>3 DEF CheckEmail

LEMMA LockRowStep ==
  ASSUME Inv, NEW r \in Reqs, LockRow(r)
  PROVE  Inv'
<1> DEFINE w == Changed(r)
<1>1. /\ TypeOK /\ RequestInv(r) /\ pc[r] = "lock" /\ result[r] = "none"
      /\ job[r] # NoJob /\ job[r].kind \in {"update", "delete"} /\ job[r].user \in users
      /\ UNCHANGED <<table, took, job, seen>> /\ r \notin took /\ write[r] = NoWrite
      /\ job[r] \in AllJobs /\ job[r].user # 0
  <2>1. TypeOK /\ RequestInv(r) /\ pc[r] = "lock" /\ UNCHANGED <<table, took, job, seen>>
    BY DEF Inv, LockRow
  <2>2. /\ job[r] # NoJob /\ job[r].kind # "register" /\ job[r].user \in users
        /\ r \notin took /\ write[r] = NoWrite /\ result[r] = "none"
    BY <2>1 DEF RequestInv, ControlInv, WriteInv
  <2>3. job[r] \in AllJobs /\ job[r].user # 0
    BY <2>1, <2>2, Columns DEF TypeOK
  <2>4. job[r].kind \in Kinds
    BY <2>3 DEF AllJobs
  <2>5. QED
    BY <2>1, <2>2, <2>3, <2>4 DEF Kinds
<1>2. TypeOK'
  BY <1>1, LockRowTyped
<1>3. /\ w.row = job[r].user
      /\ w.mail = job[r].email \/ (w.mail = Unset /\ held[r].mail = job[r].email)
      /\ w.name = job[r].name \/ (w.name = Unset /\ held[r].name = job[r].name)
      /\ w.deleted = IF job[r].kind = "delete" THEN TRUE ELSE Unset
      /\ job[r].kind = "delete" => w.mail = Unset
  BY <1>1 DEF Changed, AllJobs
<1>4. w.mail \in Emails \cup {Unset, Null} /\ job[r].email \in Emails \cup {Unset, Null}
  BY <1>1, <1>3 DEF AllJobs
<1>5. TRUE # Unset /\ Null # Unset
  BY AccountsAssumption
<1> HIDE DEF w
<1>6. CASE w.mail = Null /\ Answer(r, "conflict")
  <2>1. job[r].email = Null
    BY <1>3, <1>5, <1>6
  <2>2. AnswerInv(r)'
    BY <1>1, <1>6, <2>1 DEF Answer, TypeOK, AnswerInv
  <2>3. QED
    BY <1>1, <1>2, <1>6, <2>2, AnswerStep DEF Outcomes
<1>7. CASE \/ w = [NoWrite EXCEPT !.row = w.row] /\ Goto(r, "commit") /\ UNCHANGED <<held, write>>
           \/ /\ w # [NoWrite EXCEPT !.row = w.row] /\ w.mail # Null
              /\ write' = [write EXCEPT ![r] = w]
              /\ Goto(r, IF w.mail = Unset THEN "commit" ELSE "index")
              /\ UNCHANGED held
  <2>1. w = [NoWrite EXCEPT !.row = w.row] =>
          w.mail = Unset /\ w.name = Unset /\ w.deleted = Unset
    BY DEF NoWrite
  <2>2. /\ \A q \in Reqs \ {r} : Same(q)
        /\ result'[r] = "none" /\ held'[r] = held[r]
        /\ pc'[r] = IF w.mail = Unset THEN "commit" ELSE "index"
        /\ \/ write'[r] = NoWrite /\ w.mail = Unset /\ w.name = Unset /\ w.deleted = Unset
           \/ write'[r] = w /\ w.mail # Null
    BY <1>1, <1>7, <2>1 DEF Goto, Same, TypeOK
  <2>3. TableStands /\ TookStands
    BY <1>1 DEF TableStands, TookStands, table
  <2>4. IndexInv'
    BY <1>2, <2>2, <2>3, IndexStands, NoWriteTyped DEF Same
  <2>5. ControlInv(r)'
    BY <1>1, <1>3, <2>2 DEF ControlInv, table
  <2>6. WriteInv(r)'
    <3>1. /\ write'[r].mail = w.mail /\ write'[r].name = w.name /\ write'[r].deleted = w.deleted
          /\ write'[r] # NoWrite => write'[r].row = job[r].user
          /\ job[r].kind = "delete" => write'[r].row = job[r].user
      BY <1>3, <1>5, <2>2, NoWriteTyped
    <3>2. QED
      BY <1>1, <1>3, <1>4, <2>2, <3>1 DEF WriteInv
  <2>7. HeldInv(r)'
    BY <1>1, <2>2, <2>3, OthersStand DEF HeldInv, RequestInv, table
  <2>8. SeenInv(r)'
    BY <1>1, <2>2, <2>3, FactsStand DEF SeenInv, RequestInv, InFlight
  <2>9. AnswerInv(r)' /\ TookInv(r)'
    BY <1>1, <2>2 DEF AnswerInv, TookInv
  <2>10. QED
    BY <1>2, <2>2, <2>3, <2>4, <2>5, <2>6, <2>7, <2>8, <2>9, Frame DEF Inv, RequestInv
<1>8. QED
  BY <1>6, <1>7 DEF LockRow, w

LEMMA EnterIndexStep ==
  ASSUME Inv, NEW r \in Reqs, EnterIndex(r)
  PROVE  Inv'
<1> DEFINE w == write[r]
<1>1. /\ TypeOK /\ TypeOK' /\ RequestInv(r) /\ pc[r] = "index" /\ result[r] = "none"
      /\ UNCHANGED <<table, took, job, seen>> /\ r \notin took /\ job[r] # NoJob
      /\ w.mail \in Emails /\ w.mail # Unset /\ w.mail = job[r].email /\ w.row = job[r].user
  <2>1. TypeOK /\ TypeOK' /\ RequestInv(r) /\ pc[r] = "index" /\ UNCHANGED <<table, took, job, seen>>
    BY EnterIndexTyped DEF Inv, EnterIndex
  <2>2. w.mail \in Emails /\ w.mail # Unset
    BY <2>1, AccountsAssumption DEF RequestInv, WriteInv
  <2>3. w # NoWrite
    BY <2>2, NoWriteTyped
  <2>4. QED
    BY <2>1, <2>2, <2>3 DEF RequestInv, ControlInv, WriteInv
<1>2. CASE Duplicate(r) /\ Answer(r, "conflict")
  <2>1. "taken" \in Facts(mail, users, deleted, job[r])
    BY <1>1, <1>2 DEF Duplicate, Facts, FactNames
  <2>2. result'[r] = "conflict" /\ {"free", "taken"} \subseteq seen'[r] /\ r \notin took'
    BY <1>1, <1>2, <2>1 DEF Answer, TypeOK, RequestInv, SeenInv, InFlight
  <2>3. AnswerInv(r)'
    BY <2>2 DEF AnswerInv
  <2>4. QED
    BY <1>1, <1>2, <2>3, AnswerStep DEF Outcomes
<1>3. CASE ~Duplicate(r) /\ Goto(r, "commit") /\ UNCHANGED <<held, write>>
  <2>1. /\ \A q \in Reqs \ {r} : Same(q)
        /\ pc'[r] = "commit" /\ result'[r] = "none" /\ write'[r] = w /\ held'[r] = held[r]
        /\ job'[r] = job[r] /\ write' = write
    BY <1>1, <1>3 DEF Goto, Same, TypeOK
  <2>2. TableStands /\ TookStands
    BY <1>1 DEF TableStands, TookStands, table
  <2>3. IndexInv'
    <3>1. EmailsUnique'
      BY <1>1 DEF Inv, IndexInv, EmailsUnique, table
    <3>2. \A q \in Reqs \ {r} : pc[q] = "commit" => write[q].mail # w.mail
      BY DEF EnterIndex, EmailFree
    <3>3. ASSUME NEW q \in Reqs, pc'[q] = "commit", write'[q].mail # Unset
          PROVE  /\ ~Duplicate(q)'
                 /\ \A p \in Reqs \ {q} : pc'[p] = "commit" => write'[p].mail # write'[q].mail
      <4>1. Duplicate(q)' <=> Duplicate(q)
        BY <1>1, <2>1 DEF Duplicate, table
      <4>2. CASE q = r
        BY <1>3, <2>1, <3>2, <4>1, <4>2 DEF Same
      <4>3. CASE q # r
        <5>1. pc[q] = "commit" /\ write[q].mail # Unset
          BY <2>1, <3>3, <4>3 DEF Same
        <5>2. ~Duplicate(q) /\ \A p \in Reqs \ {q} : pc[p] = "commit" => write[p].mail # write[q].mail
          BY <5>1 DEF Inv, IndexInv
        <5>3. QED
          BY <2>1, <3>2, <4>1, <4>3, <5>1, <5>2 DEF Same
      <4>4. QED
        BY <4>2, <4>3
    <3>4. QED
      BY <3>1, <3>3 DEF IndexInv
  <2>4. ControlInv(r)' /\ WriteInv(r)'
    BY <1>1, <2>1 DEF ControlInv, WriteInv, RequestInv, table
  <2>5. HeldInv(r)'
    BY <1>1, <2>1, <2>2, OthersStand DEF HeldInv, RequestInv, table
  <2>6. SeenInv(r)'
    BY <1>1, <2>1, <2>2, FactsStand DEF SeenInv, RequestInv, InFlight
  <2>7. AnswerInv(r)' /\ TookInv(r)'
    BY <1>1, <2>1 DEF AnswerInv, TookInv
  <2>8. QED
    BY <1>1, <2>1, <2>2, <2>3, <2>4, <2>5, <2>6, <2>7, Frame DEF Inv, RequestInv
<1>4. QED
  BY <1>2, <1>3 DEF EnterIndex

(* A commit: who is being served has seen the table it leaves.             *)
LEMMA CommitStep ==
  ASSUME Inv, NEW r \in Reqs, Commit(r)
  PROVE  Inv'
<1> DEFINE w == write[r]
           u == job[r].user
<1>1. /\ TypeOK /\ RequestInv(r) /\ pc[r] = "commit" /\ result[r] = "none" /\ r \notin took
      /\ job[r] # NoJob /\ job[r] \in AllJobs /\ job[r].kind \in Kinds /\ job' = job
  <2>1. TypeOK /\ RequestInv(r) /\ pc[r] = "commit" /\ job' = job
    BY DEF Inv, Commit
  <2>2. job[r] # NoJob /\ r \notin took /\ result[r] = "none"
    BY <2>1 DEF RequestInv, ControlInv
  <2>3. job[r] \in AllJobs
    BY <2>1, <2>2 DEF TypeOK
  <2>4. QED
    BY <2>1, <2>2, <2>3 DEF AllJobs
<1>2. Unset \notin Emails /\ Unset \notin Names /\ Unset # TRUE /\ Unset # Null
  BY AccountsAssumption
(* What is written.                                                        *)
<1>3. /\ w # NoWrite => w.row = u /\ u # 0
      /\ w.mail \in {job[r].email, Unset} /\ w.name \in {job[r].name, Unset}
      /\ job[r].kind = "register" =>
           w.mail = job[r].email /\ job[r].email \in Emails /\ w.row = u /\ u \notin users /\ u # 0
      /\ job[r].kind # "register" => u \in users
      /\ job[r].kind = "delete" =>
           w.deleted = TRUE /\ w.row = u /\ job[r].email = Unset /\ job[r].name = Unset
      /\ w.mail # Unset \/ w.name # Unset \/ w.deleted = TRUE => w # NoWrite
      /\ w = NoWrite => w.row = 0
  <2>1. WriteInv(r) /\ ControlInv(r)
    BY <1>1 DEF RequestInv
  <2>2. /\ job[r].kind = "register" => job[r].email \in Emails
        /\ job[r].kind = "delete" => job[r].email = Unset /\ job[r].name = Unset
    BY <1>1 DEF AllJobs
  <2>3. /\ w.mail # Unset \/ w.name # Unset \/ w.deleted = TRUE => w # NoWrite
        /\ w = NoWrite => w.row = 0
    BY <1>2, NoWriteTyped
  <2>4. QED
    BY <1>1, <2>1, <2>2, <2>3 DEF WriteInv, ControlInv
<1>4. TypeOK'
  BY <1>1, <1>3, CommitTyped
(* The table it leaves.                                                    *)
<1>5. /\ \A i \in users : /\ mail'[i] = IF i = w.row /\ w.mail # Unset THEN w.mail ELSE mail[i]
                          /\ name'[i] = IF i = w.row /\ w.name # Unset THEN w.name ELSE name[i]
      /\ w.mail # Unset => mail'[w.row] = w.mail
      /\ users' = users \cup ({w.row} \ {0})
      /\ deleted' = IF w.deleted = TRUE THEN deleted \cup {w.row} ELSE deleted
  <2>1. users \subseteq DOMAIN mail
    BY <1>1 DEF TypeOK
  <2>2. w.row \in 0 .. Len(mail) /\ DOMAIN mail = 1 .. Len(mail)
    <3>1. w \in [row : 0 .. Len(mail), mail : Emails \cup {Unset},
                 name : Names \cup {Unset}, deleted : {TRUE, Unset}]
      BY <1>1 DEF TypeOK
    <3>2. QED
      BY <1>1, <3>1, Columns
  <2>3. w.mail # Unset => w.row \in DOMAIN mail
    BY <1>3, <2>2
  <2>4. QED
    BY <1>1, <2>1, <2>3, CommitTable
<1>6. /\ users \subseteq users' /\ deleted \subseteq deleted'
      /\ job[r].kind # "register" => users' = users
      /\ job[r].kind = "register" => users' = users \cup {u}
  BY <1>1, <1>3, <1>5
<1>7. ASSUME NEW q \in Reqs
      PROVE  /\ seen[q] \subseteq seen'[q]
             /\ q \in InFlight => Facts(mail, users, deleted, job[q])' \subseteq seen'[q]
  <2>1. Facts(mail, users, deleted, job[q])' = Facts(mail', users', deleted', job[q])
    BY <1>1 DEF Facts
  <2>2. QED
    BY <2>1 DEF Commit
<1>8. /\ \A q \in Reqs \ {r} : /\ pc'[q] = pc[q] /\ result'[q] = result[q]
                               /\ held'[q] = held[q] /\ write'[q] = write[q]
      /\ write'[r] = NoWrite /\ took' = took \cup {r}
      /\ \/ job[r].kind = "delete" /\ pc'[r] = "done" /\ result'[r] = "ok"
         \/ job[r].kind # "delete" /\ pc'[r] = "reread" /\ result'[r] = "none"
  BY <1>1 DEF Commit, Goto, Answer, TypeOK
<1>9. TookStands
  BY <1>1, <1>8 DEF TookStands
(* Columns that another request relies on: it is this one that sets them.  *)
<1>10. ASSUME NEW q \in Reqs, q # r, job[q].user \in users
       PROVE  /\ mail'[job[q].user] = mail[job[q].user] \/ MailSetByOther(q)'
              /\ name'[job[q].user] = name[job[q].user] \/ NameSetByOther(q)'
  <2>1. job[q].user = w.row /\ (w.mail # Unset \/ w.name # Unset)
          => /\ job[r].kind = "update" /\ u = job[q].user
             /\ w.mail # Unset => job[r].email # Unset
             /\ w.name # Unset => job[r].name # Unset
    BY <1>1, <1>3, <1>10 DEF Kinds
  <2>2. QED
    BY <1>1, <1>5, <1>8, <1>10, <2>1 DEF MailSetByOther, NameSetByOther, Sets
<1>11. IndexInv'
  <2>1. w.mail # Unset => ~Duplicate(r)
    BY <1>1 DEF Inv, IndexInv
  <2>2. \A i \in users' : i \in users \/ (i = w.row /\ w.mail # Unset)
    BY <1>2, <1>3, <1>5, <1>6
  <2>3. \A i \in users' : /\ i = w.row /\ w.mail # Unset => mail'[i] = w.mail
                          /\ i # w.row \/ w.mail = Unset => i \in users /\ mail'[i] = mail[i]
    BY <1>5, <2>2
  <2>4. EmailsUnique'
    <3>1. \A i \in users : i # w.row /\ w.mail # Unset => mail[i] # w.mail
      BY <2>1 DEF Duplicate
    <3>2. \A i, k \in users : mail[i] = mail[k] => i = k
      BY DEF Inv, IndexInv, EmailsUnique
    <3>3. QED
      BY <2>3, <3>1, <3>2 DEF EmailsUnique
  <2>5. ASSUME NEW q \in Reqs, pc'[q] = "commit", write'[q].mail # Unset
        PROVE  /\ ~Duplicate(q)'
               /\ \A p \in Reqs \ {q} : pc'[p] = "commit" => write'[p].mail # write'[q].mail
    <3>1. q # r /\ pc[q] = "commit" /\ write'[q] = write[q] /\ write[q].mail # Unset
      BY <1>8, <2>5
    <3>2. ~Duplicate(q) /\ \A p \in Reqs \ {q} : pc[p] = "commit" => write[p].mail # write[q].mail
      BY <3>1 DEF Inv, IndexInv
    <3>3. ~Duplicate(q)'
      BY <1>1, <2>3, <3>1, <3>2 DEF Duplicate
    <3>4. QED
      BY <1>8, <3>1, <3>2, <3>3
  <2>6. QED
    BY <2>4, <2>5 DEF IndexInv
<1>12. ASSUME NEW q \in Reqs, q # r
       PROVE  RequestInv(q)'
  <2>1. RequestInv(q) /\ job'[q] = job[q] /\ pc'[q] = pc[q] /\ result'[q] = result[q]
        /\ held'[q] = held[q] /\ write'[q] = write[q]
    BY <1>1, <1>8, <1>12 DEF Inv
  <2>2. ControlInv(q)'
    BY <1>6, <1>8, <1>12, <2>1 DEF RequestInv, ControlInv
  <2>3. WriteInv(q)'
    <3>1. write[q].row = w.row => write[q].row = 0
      BY <1>1, <1>12 DEF TypeOK
    <3>2. pc[q] \in {"index", "commit"} /\ job[q].kind = "register" => write[q].row \notin users'
      BY <1>5, <2>1, <3>1 DEF RequestInv, WriteInv
    <3>3. QED
      BY <2>1, <3>2 DEF RequestInv, WriteInv
  <2>4. HeldInv(q)'
    <3>1. pc[q] \in {"check", "lock", "index", "commit"} /\ job[q].kind = "update" => job[q].user \in users
      BY <2>1 DEF RequestInv, ControlInv
    <3>2. QED
      BY <1>7, <1>9, <1>10, <1>12, <2>1, <3>1, OthersStand DEF RequestInv, HeldInv
  <2>5. SeenInv(q)'
    BY <1>7, <2>1 DEF RequestInv, SeenInv, InFlight
  <2>6. AnswerInv(q)'
    BY <1>7, <1>8, <1>12, <2>1 DEF RequestInv, AnswerInv
  <2>7. TookInv(q)'
    <3>1. q \in took' => q \in took
      BY <1>8, <1>12
    <3>2. QED
      BY <1>6, <1>9, <1>10, <1>12, <2>1, <3>1, OthersStand DEF RequestInv, TookInv
  <2>8. QED
    BY <2>2, <2>3, <2>4, <2>5, <2>6, <2>7 DEF RequestInv
<1>13. RequestInv(r)'
  <2>1. u \in users => u # 0
    BY <1>1, Columns
  <2>2. ControlInv(r)' /\ WriteInv(r)' /\ HeldInv(r)'
    BY <1>1, <1>3, <1>6, <1>8 DEF ControlInv, WriteInv, HeldInv
  <2>3. job[r].email \in Emails => "own" \in seen'[r]
    <3>1. CASE w.mail = job[r].email /\ job[r].email \in Emails
      <4>1. w.mail # Unset /\ w.row = u /\ u # 0
        BY <1>2, <1>3, <3>1
      <4>2. u \in users' /\ mail'[u] = job[r].email
        BY <1>5, <3>1, <4>1
      <4>3. "own" \in Facts(mail, users, deleted, job[r])'
        BY <1>1, <4>2 DEF Facts, FactNames
      <4>4. QED
        BY <1>1, <1>7, <4>3 DEF InFlight
    <3>2. CASE w.mail # job[r].email /\ job[r].email \in Emails
      <4>1. job[r].kind = "update" /\ held[r].mail = job[r].email
        BY <1>1, <1>2, <1>3, <3>2 DEF RequestInv, WriteInv, Kinds
      <4>2. QED
        BY <1>1, <1>7, <4>1 DEF RequestInv, HeldInv
    <3>3. QED
      BY <3>1, <3>2
  <2>4. SeenInv(r)' /\ AnswerInv(r)'
    BY <1>1, <1>7, <1>8, <2>3 DEF SeenInv, AnswerInv, InFlight
  <2>5. ASSUME job[r].kind = "update"
        PROVE  TookInv(r)'
    <3>1. HeldInv(r) /\ WriteInv(r) /\ u \in users
      BY <1>1, <1>3, <2>5 DEF RequestInv
    <3>2. job[r].email \in {Unset, mail'[u]} \/ MailSetByOther(r)'
      <4>1. CASE w.mail = job[r].email
        BY <1>3, <1>5, <4>1
      <4>2. CASE w.mail # job[r].email
        <5>1. w.mail = Unset /\ held[r].mail = job[r].email
          BY <1>1, <1>3, <2>5, <3>1, <4>2 DEF WriteInv
        <5>2. mail'[u] = mail[u]
          BY <1>5, <3>1, <5>1
        <5>3. QED
          BY <1>1, <1>9, <2>5, <3>1, <5>1, <5>2, OthersStand DEF HeldInv
      <4>3. QED
        BY <4>1, <4>2
    <3>3. job[r].name \in {Unset, name'[u]} \/ NameSetByOther(r)'
      <4>1. CASE w.name = job[r].name
        BY <1>3, <1>5, <3>1, <4>1
      <4>2. CASE w.name # job[r].name
        <5>1. w.name = Unset /\ held[r].name = job[r].name
          BY <1>1, <1>3, <2>5, <3>1, <4>2 DEF WriteInv
        <5>2. name'[u] = name[u]
          BY <1>5, <3>1, <5>1
        <5>3. QED
          BY <1>1, <1>9, <2>5, <3>1, <5>1, <5>2, OthersStand DEF HeldInv
      <4>3. QED
        BY <4>1, <4>2
    <3>4. QED
      BY <1>1, <1>6, <2>5, <3>1, <3>2, <3>3 DEF TookInv
  <2>6. ASSUME job[r].kind # "update"
        PROVE  TookInv(r)'
    BY <1>1, <1>3, <1>5, <2>6 DEF TookInv
  <2>7. TookInv(r)'
    BY <2>5, <2>6
  <2>8. QED
    BY <2>2, <2>4, <2>7 DEF RequestInv
<1>14. QED
  BY <1>4, <1>11, <1>12, <1>13 DEF Inv

-----------------------------------------------------------------------------
(* The theorems                                                            *)

LEMMA InitInv == Init => Inv
<1> SUFFICES ASSUME Init PROVE Inv
  OBVIOUS
<1>1. TypeOK
  BY InitTyped
<1>2. EmailsUnique /\ \A r \in Reqs : pc[r] = "idle"
  BY AccountsAssumption DEF Init, EmailsUnique
<1>3. IndexInv
  BY <1>2 DEF IndexInv
<1>4. ASSUME NEW r \in Reqs
      PROVE  RequestInv(r)
  <2>1. /\ pc[r] = "idle" /\ result[r] = "none" /\ write[r] = NoWrite /\ took = {}
    BY DEF Init
  <2>2. QED
    BY <2>1 DEF RequestInv, ControlInv, WriteInv, HeldInv, SeenInv, AnswerInv, TookInv, InFlight
<1>5. QED
  BY <1>1, <1>3, <1>4 DEF Inv

LEMMA UnchangedInv ==
  ASSUME Inv, UNCHANGED vars
  PROVE  Inv'
<1> USE DEF vars, table
<1>1. TableStands /\ TookStands /\ \A q \in Reqs : Same(q)
  BY DEF TableStands, TookStands, Same
<1>2. TypeOK'
  BY DEF Inv, TypeOK
<1>3. IndexInv'
  BY <1>1, <1>2, IndexStands DEF Same
<1>4. QED
  BY <1>1, <1>2, <1>3, Frame DEF Inv

LEMMA NextInv == Inv /\ [Next]_vars => Inv'
<1> SUFFICES ASSUME Inv, [Next]_vars PROVE Inv'
  OBVIOUS
<1>1. ASSUME NEW r \in Reqs, NEW j \in Jobs, RegisterCheck(r, j) \/ SelectTarget(r, j)
      PROVE  Inv'
  BY <1>1, BeginStep
<1>2. ASSUME NEW r \in Reqs, Insert(r)
      PROVE  Inv'
  BY <1>2, InsertStep
<1>3. ASSUME NEW r \in Reqs, CheckEmail(r)
      PROVE  Inv'
  BY <1>3, CheckEmailStep
<1>4. ASSUME NEW r \in Reqs, LockRow(r)
      PROVE  Inv'
  BY <1>4, LockRowStep
<1>5. ASSUME NEW r \in Reqs, EnterIndex(r)
      PROVE  Inv'
  BY <1>5, EnterIndexStep
<1>6. ASSUME NEW r \in Reqs, Commit(r)
      PROVE  Inv'
  BY <1>6, CommitStep
<1>7. ASSUME NEW r \in Reqs, Reread(r) \/ Abort(r)
      PROVE  Inv'
  BY <1>7, RereadStep
<1>8. ASSUME Quiet \/ UNCHANGED vars
      PROVE  Inv'
  BY <1>8, UnchangedInv DEF Quiet
<1>9. QED
  BY <1>1, <1>2, <1>3, <1>4, <1>5, <1>6, <1>7, <1>8 DEF Next, Step

(* The inductive invariant holds.                                          *)
THEOREM Invariance == Spec => []Inv
BY InitInv, NextInv, PTL DEF Spec

(* The variables have their types; two transactions never hold a row.      *)
THEOREM TypeCorrect == Spec => []TypeOK
<1>1. Inv => TypeOK
  BY DEF Inv
<1>2. QED
  BY <1>1, Invariance, PTL

(* An email belongs to one account, however many requests find it free.    *)
THEOREM EmailsStayUnique == Spec => []EmailsUnique
<1>1. Inv => EmailsUnique
  BY DEF Inv, IndexInv
<1>2. QED
  BY <1>1, Invariance, PTL

(* What the answers to registrations and updates say of the accounts was   *)
(* true while the request ran.                                             *)
THEOREM AnswersFit == Spec => []AnswersTruthful
<1>1. Inv => AnswersTruthful
  BY DEF Inv, RequestInv, AnswerInv, AnswersTruthful
<1>2. QED
  BY <1>1, Invariance, PTL

(* No update of a column is undone by an update of another one.            *)
THEOREM NoLostUpdate == Spec => []LoneWriterWins
<1>1. ASSUME Inv, NEW r \in took, job[r].kind = "update"
      PROVE  /\ \/ job[r].email = Unset
                \/ mail[job[r].user] = job[r].email
                \/ \E q \in Reqs \ {r} : Sets(q, job[r].user) /\ job[q].email # Unset
             /\ \/ job[r].name = Unset
                \/ name[job[r].user] = job[r].name
                \/ \E q \in Reqs \ {r} : Sets(q, job[r].user) /\ job[q].name # Unset
  <2>1. r \in Reqs /\ TookInv(r)
    BY <1>1 DEF Inv, TypeOK, RequestInv
  <2>2. QED
    BY <1>1, <2>1 DEF TookInv, MailSetByOther, NameSetByOther
<1>2. Inv => LoneWriterWins
  BY <1>1 DEF LoneWriterWins
<1>3. QED
  BY <1>2, Invariance, PTL

(* No update brings a deleted account back.                                *)
THEOREM DeletionsStand == Spec => []DeletedForGood
<1>1. ASSUME Inv, NEW r \in took, job[r].kind = "delete"
      PROVE  job[r].user \in deleted
  BY <1>1 DEF Inv, TypeOK, RequestInv, TookInv
<1>2. Inv => DeletedForGood
  BY <1>1 DEF DeletedForGood
<1>3. QED
  BY <1>2, Invariance, PTL

-----------------------------------------------------------------------------
(* The refinement                                                          *)

(* Invariance says of an update that its columns are those asked for; that *)
(* it is an update of the book needs that it left out no other column.     *)
Intends(r) ==
  /\ pc[r] \in {"idle", "done"} => held[r] = NotHeld
  /\ pc[r] \in {"index", "commit"} /\ job[r].kind = "register" =>
       /\ write[r].name = Unset /\ write[r].deleted = Unset
       /\ name[write[r].row] = job[r].name
  /\ pc[r] \in {"index", "commit"} /\ job[r].kind # "register" =>
       \/ write[r] = Changed(r)
       \/ write[r] = NoWrite /\ Changed(r) = [NoWrite EXCEPT !.row = job[r].user]

BookInv == Inv /\ \A r \in Reqs : Intends(r)

Acts(r) == (\E j \in Jobs : RegisterCheck(r, j) \/ SelectTarget(r, j)) \/ Step(r) \/ Abort(r)

(* Request q, its columns and its writes stay where they are.              *)
Still(q) ==
  /\ pc'[q] = pc[q] /\ job'[q] = job[q] /\ held'[q] = held[q] /\ write'[q] = write[q]
  /\ q \in took' <=> q \in took

LEMMA ActsAreLocal ==
  ASSUME TypeOK, NEW r \in Reqs, Acts(r)
  PROVE  \A q \in Reqs \ {r} : Still(q)
<1> USE DEF TypeOK, Goto, Answer, Still
<1>1. ASSUME NEW j \in Jobs, RegisterCheck(r, j) \/ SelectTarget(r, j)
      PROVE  \A q \in Reqs \ {r} : Still(q)
  BY <1>1 DEF RegisterCheck, SelectTarget, Begin
<1>2. CASE Insert(r)
  BY <1>2 DEF Insert
<1>3. CASE CheckEmail(r)
  BY <1>3 DEF CheckEmail
<1>4. CASE LockRow(r)
  BY <1>4 DEF LockRow
<1>5. CASE EnterIndex(r)
  BY <1>5 DEF EnterIndex
<1>6. CASE Commit(r)
  BY <1>6 DEF Commit
<1>7. CASE Reread(r) \/ Abort(r)
  BY <1>7 DEF Reread, Abort
<1> QED BY <1>1, <1>2, <1>3, <1>4, <1>5, <1>6, <1>7 DEF Step, Acts

(* The columns of a row that is being inserted are its transaction's.      *)
LEMMA InsertedStands ==
  ASSUME Inv, NEW r \in Reqs, Acts(r), NEW q \in Reqs \ {r},
         pc[q] \in {"index", "commit"}, job[q].kind = "register"
  PROVE  name'[write[q].row] = name[write[q].row]
<1>1. TypeOK /\ WriteInv(q)
  BY DEF Inv, RequestInv
<1>2. write[q].row \in 1 .. Len(mail) /\ write[q].row # 0
  <2>1. write[q].row # 0
    BY <1>1 DEF WriteInv
  <2>2. write[q].row \in 0 .. Len(mail) /\ Len(mail) \in Nat
    BY <1>1, Columns DEF TypeOK
  <2> QED BY <2>1, <2>2
<1>3. CASE Insert(r)
  <2>1. name \in Seq(Names) /\ Len(name) = Len(mail) /\ name' = Append(name, job[r].name)
    BY <1>1, <1>3 DEF TypeOK, Insert
  <2> QED BY <1>2, <2>1
<1>4. CASE Commit(r)
  <2>1. write[r].row # write[q].row
    BY <1>1, <1>2 DEF TypeOK
  <2>2. write[q].row \in DOMAIN name
    BY <1>1, <1>2 DEF TypeOK
  <2>3. name' = [i \in DOMAIN name |-> IF i = write[r].row THEN Merged(write[r].name, name[i])
                                                          ELSE name[i]]
    BY <1>4 DEF Commit
  <2> QED BY <2>1, <2>2, <2>3
<1>5. CASE UNCHANGED name
  BY <1>5
<1> QED BY <1>3, <1>4, <1>5
        DEF Acts, Step, RegisterCheck, SelectTarget, Begin, CheckEmail, LockRow, EnterIndex,
            Reread, Abort, table

LEMMA IntendsStep ==
  ASSUME BookInv, NEW r \in Reqs, Acts(r)
  PROVE  Intends(r)'
<1>1. TypeOK /\ Intends(r) /\ ControlInv(r) /\ WriteInv(r)
  BY DEF BookInv, Inv, RequestInv
<1>2. CASE \E o \in Outcomes : Answer(r, o)
  BY <1>1, <1>2 DEF Answer, TypeOK, Intends
<1>3. ASSUME NEW j \in Jobs, RegisterCheck(r, j) \/ SelectTarget(r, j)
      PROVE  Intends(r)'
  <2>1. CASE \E l \in {"insert", "check", "lock"} : Goto(r, l)
    BY <1>1, <2>1 DEF Goto, TypeOK, Intends
  <2> QED BY <1>2, <1>3, <2>1 DEF RegisterCheck, SelectTarget, Outcomes
<1>4. CASE Insert(r)
  <2>1. /\ mail \in Seq(Emails) /\ name \in Seq(Names) /\ Len(name) = Len(mail)
        /\ mail' = Append(mail, job[r].email) /\ name' = Append(name, job[r].name)
    BY <1>1, <1>4 DEF TypeOK, Insert
  <2>2. name'[Len(mail')] = job[r].name
    BY <2>1
  <2>3. /\ pc'[r] = "index"
        /\ write'[r] = [row |-> Len(mail'), mail |-> job[r].email, name |-> Unset, deleted |-> Unset]
        /\ job'[r] = [job[r] EXCEPT !.user = Len(mail')]
    BY <1>1, <1>4 DEF Insert, Goto, TypeOK
  <2>4. job[r] \in AllJobs /\ job[r].kind = "register"
    BY <1>1, <1>4 DEF Insert, ControlInv, TypeOK
  <2>5. job'[r].kind = "register" /\ job'[r].name = job[r].name
    BY <2>3, <2>4 DEF AllJobs
  <2> QED BY <2>2, <2>3, <2>5 DEF Intends
<1>5. CASE CheckEmail(r)
  <2>1. CASE Goto(r, "lock")
    BY <1>1, <2>1 DEF Goto, TypeOK, Intends
  <2> QED BY <1>2, <1>5, <2>1 DEF CheckEmail, Outcomes
<1>6. CASE LockRow(r)
  <2>1. job[r].kind # "register" /\ write[r] = NoWrite /\ Changed(r).row = job[r].user
    BY <1>1, <1>6 DEF LockRow, ControlInv, WriteInv, Changed
  <2>2. CASE Answer(r, "conflict")
    BY <1>2, <2>2 DEF Outcomes
  <2>3. CASE /\ pc'[r] \in {"index", "commit"} /\ UNCHANGED <<job, held>>
             /\ \/ write'[r] = NoWrite /\ Changed(r) = [NoWrite EXCEPT !.row = job[r].user]
                \/ write'[r] = Changed(r)
    BY <2>1, <2>3 DEF Intends, Changed
  <2> QED BY <1>1, <1>6, <2>1, <2>2, <2>3 DEF LockRow, Goto, TypeOK
<1>7. CASE EnterIndex(r)
  <2>1. CASE pc'[r] = "commit" /\ pc[r] = "index" /\ UNCHANGED <<table, job, held, write>>
    BY <1>1, <2>1 DEF Intends, Changed, table
  <2> QED BY <1>1, <1>2, <1>7, <2>1 DEF EnterIndex, Goto, TypeOK, Outcomes
<1>8. CASE Commit(r)
  <2>1. CASE Goto(r, "reread")
    BY <1>1, <1>8, <2>1 DEF Goto, Commit, TypeOK, Intends
  <2> QED BY <1>2, <1>8, <2>1 DEF Commit, Outcomes
<1>9. CASE Reread(r) \/ Abort(r)
  BY <1>2, <1>9 DEF Reread, Abort, Outcomes
<1> QED BY <1>3, <1>4, <1>5, <1>6, <1>7, <1>8, <1>9 DEF Acts, Step

LEMMA BookInvStep == BookInv /\ [Next]_vars => BookInv'
<1> SUFFICES ASSUME BookInv, [Next]_vars PROVE BookInv'
  OBVIOUS
<1>1. Inv'
  BY NextInv DEF BookInv
<1>2. ASSUME NEW r \in Reqs, Acts(r), NEW q \in Reqs PROVE Intends(q)'
  <2>1. CASE q # r
    <3>1. Still(q) /\ Intends(q)
      BY <1>2, <2>1, ActsAreLocal DEF BookInv, Inv
    <3>2. pc[q] \in {"index", "commit"} /\ job[q].kind = "register" =>
            name'[write[q].row] = name[write[q].row]
      BY <1>2, <2>1, InsertedStands DEF BookInv
    <3> QED BY <3>1, <3>2 DEF Intends, Still, Changed
  <2> QED BY <1>2, <2>1, IntendsStep
<1>3. ASSUME UNCHANGED vars, NEW q \in Reqs PROVE Intends(q)'
  BY <1>3 DEF BookInv, Intends, Changed, vars, table
<1> QED BY <1>1, <1>2, <1>3 DEF BookInv, Next, Acts, Quiet

LEMMA InitBook == Init => Book!Init /\ BookInv
<1> SUFFICES ASSUME Init PROVE Book!Init /\ BookInv
  OBVIOUS
<1>1. DOMAIN mail = DOMAIN InitMail /\ users = DOMAIN InitMail
  BY DEF Init
<1>2. Card = [i \in DOMAIN InitMail |-> [mail |-> InitMail[i], name |-> InitName]]
  BY <1>1 DEF Init, Card
<1>3. /\ Served = [r \in Reqs |-> "waiting"] /\ Asked = [r \in Reqs |-> NoJob]
      /\ Read = [r \in Reqs |-> NotHeld]
  BY DEF Init, Served, Asked, Read, Progress, Serving
<1>4. Book!Init
  BY <1>2, <1>3 DEF Init, Book!Init, Book!Unread, NotHeld
<1>5. \A r \in Reqs : Intends(r)
  BY DEF Init, Intends
<1> QED BY <1>4, <1>5, InitInv DEF BookInv

(* Of a step of r the book sees the progress of r.                         *)
LEMMA BookMoves ==
  ASSUME TypeOK, NEW r \in Reqs, \A q \in Reqs \ {r} : Still(q)
  PROVE  /\ Served' = [Served EXCEPT ![r] = Progress(r)']
         /\ Asked' = [Asked EXCEPT ![r] = IF Serving(r)' THEN AsSent(job'[r]) ELSE NoJob]
         /\ Read' = [Read EXCEPT ![r] = IF Serving(r)' THEN held'[r] ELSE NotHeld]
<1>1. ASSUME NEW q \in Reqs \ {r}
      PROVE  /\ Progress(q)' = Progress(q) /\ (Serving(q)' <=> Serving(q))
             /\ job'[q] = job[q] /\ held'[q] = held[q]
  BY DEF Still, Progress, Serving
<1>2. Served' = [Served EXCEPT ![r] = Progress(r)']
  BY <1>1 DEF Served
<1>3. Asked' = [Asked EXCEPT ![r] = IF Serving(r)' THEN AsSent(job'[r]) ELSE NoJob]
  BY <1>1 DEF Asked
<1>4. Read' = [Read EXCEPT ![r] = IF Serving(r)' THEN held'[r] ELSE NotHeld]
  BY <1>1 DEF Read
<1> QED BY <1>2, <1>3, <1>4

LEMMA CardStands ==
  ASSUME TableStands
  PROVE  Card' = Card /\ deleted' = deleted
BY DEF TableStands, Card

(* A statement that tells the book nothing.                                *)
LEMMA Unseen ==
  ASSUME TypeOK, TableStands, NEW r \in Reqs, \A q \in Reqs \ {r} : Still(q),
         Progress(r)' = Progress(r), Serving(r)' <=> Serving(r),
         Serving(r) => AsSent(job'[r]) = AsSent(job[r]) /\ held'[r] = held[r]
  PROVE  UNCHANGED Book!vars
<1>1. Served[r] = Progress(r) /\ DOMAIN Served = Reqs
      /\ Asked[r] = (IF Serving(r) THEN AsSent(job[r]) ELSE NoJob) /\ DOMAIN Asked = Reqs
      /\ Read[r] = (IF Serving(r) THEN held[r] ELSE NotHeld) /\ DOMAIN Read = Reqs
  BY DEF Served, Asked, Read
<1>2. Served' = [Served EXCEPT ![r] = Served[r]] /\ Asked' = [Asked EXCEPT ![r] = Asked[r]]
      /\ Read' = [Read EXCEPT ![r] = Read[r]]
  BY <1>1, BookMoves
<1>3. Served' = Served /\ Asked' = Asked /\ Read' = Read
  <2>1. Served = [q \in Reqs |-> Served[q]] /\ Asked = [q \in Reqs |-> Asked[q]]
        /\ Read = [q \in Reqs |-> Read[q]]
    BY DEF Served, Asked, Read
  <2> QED BY <1>2, <2>1
<1> QED BY <1>3, CardStands DEF Book!vars

(* An error before the commit.                                             *)
LEMMA RefusedRefines ==
  ASSUME TypeOK, TableStands, NEW r \in Reqs, \A q \in Reqs \ {r} : Still(q),
         pc[r] # "done", r \notin took, pc'[r] = "done"
  PROVE  Book!Next
<1>1. Served[r] \in {"waiting", "serving"}
  BY DEF Served, Progress
<1>2. Progress(r)' = "refused" /\ ~Serving(r)'
  BY DEF Progress, Serving, TableStands
<1>3. Book!Refuse(r)
  BY <1>1, <1>2, BookMoves, CardStands DEF Book!Refuse, Book!End, Book!Unread, NotHeld
<1> QED BY <1>3 DEF Book!Next

LEMMA BeginRefines ==
  ASSUME BookInv, NEW r \in Reqs, NEW j \in Jobs, RegisterCheck(r, j) \/ SelectTarget(r, j)
  PROVE  Book!Next
<1>1. TypeOK /\ ControlInv(r) /\ Intends(r)
  BY DEF BookInv, Inv, RequestInv
<1>2. /\ TableStands /\ pc[r] = "idle" /\ job'[r] = j /\ r \notin took /\ took' = took
      /\ held[r] = NotHeld
  BY <1>1 DEF RegisterCheck, SelectTarget, Begin, TableStands, table, ControlInv, Intends, TypeOK
<1>3. \A q \in Reqs \ {r} : Still(q)
  BY <1>1, ActsAreLocal DEF Acts
<1>4. CASE pc'[r] = "done"
  BY <1>1, <1>2, <1>3, <1>4, RefusedRefines
<1>5. CASE pc'[r] \in {"insert", "check", "lock"}
  <2>1. Served[r] = "waiting" /\ Progress(r)' = "serving" /\ Serving(r)'
    BY <1>2, <1>5 DEF Served, Progress, Serving
  <2>2. AsSent(job'[r]) = j
    <3>1. CASE j.kind = "register"
      <4>1. j.user = 0 /\ j \in [kind : Kinds, user : Nat, email : Emails \cup {Unset, Null},
                                name : Names \cup {Unset}]
        BY <3>1, JobsTyped DEF AllJobs
      <4>2. [j EXCEPT !.user = 0] = j
        BY <4>1
      <4> QED BY <1>2, <3>1, <4>2 DEF AsSent
    <3> QED BY <1>2, <3>1 DEF AsSent
  <2>3. Served' = [Served EXCEPT ![r] = "serving"] /\ Asked' = [Asked EXCEPT ![r] = j]
        /\ Read' = [Read EXCEPT ![r] = held'[r]]
    BY <1>1, <1>3, <2>1, <2>2, BookMoves
  <2>4. CASE j.kind = "register"
    <3>1. held' = held
      BY <1>1, <1>2, <1>5, <2>4 DEF RegisterCheck, SelectTarget, Answer, TypeOK
    <3>2. Read' = Read
      <4>1. held'[r] = NotHeld
        BY <1>2, <3>1
      <4>2. Read[r] = NotHeld /\ Read = [q \in Reqs |-> Read[q]]
        BY <1>2 DEF Read, Serving
      <4> QED BY <2>3, <4>1, <4>2
    <3>3. Book!Receive(r, j)
      BY <1>2, <2>1, <2>3, <2>4, <3>2, CardStands DEF Book!Receive
    <3> QED BY <3>3 DEF Book!Next
  <2>5. CASE j.kind # "register"
    <3>1. j.user \in users \ deleted
          /\ held'[r] = [mail |-> mail[j.user], name |-> name[j.user]]
      BY <1>1, <1>5, <2>5 DEF RegisterCheck, SelectTarget, Answer, TypeOK
    <3>2. DOMAIN Card = users /\ Card[j.user] = held'[r]
      BY <3>1 DEF Card
    <3>3. Book!Receive(r, j)
      BY <1>2, <2>1, <2>3, <2>5, <3>1, <3>2, CardStands DEF Book!Receive
    <3> QED BY <3>3 DEF Book!Next
  <2> QED BY <2>4, <2>5
<1>6. pc'[r] \in {"insert", "check", "lock", "done"}
  BY <1>1 DEF RegisterCheck, SelectTarget, Goto, Answer, TypeOK
<1> QED BY <1>4, <1>5, <1>6

LEMMA CheckEmailRefines ==
  ASSUME BookInv, NEW r \in Reqs, CheckEmail(r)
  PROVE  Book!Next \/ UNCHANGED Book!vars
<1>1. TypeOK /\ ControlInv(r)
  BY DEF BookInv, Inv, RequestInv
<1>2. /\ TableStands /\ pc[r] = "check" /\ r \notin took /\ took' = took /\ job' = job
      /\ job[r].kind = "update" /\ job[r].user \in users
  BY <1>1 DEF CheckEmail, TableStands, table, ControlInv
<1>3. \A q \in Reqs \ {r} : Still(q)
  BY <1>1, ActsAreLocal DEF Acts, Step
<1>4. CASE Answer(r, "taken")
  BY <1>1, <1>2, <1>3, <1>4, RefusedRefines DEF Answer, TypeOK
<1>5. CASE /\ Goto(r, "lock")
           /\ held' = [held EXCEPT ![r] =
                IF job[r].user \in Holders(job[r].email)
                THEN [mail |-> mail[job[r].user], name |-> name[job[r].user]] ELSE @]
  <2>1. /\ pc'[r] = "lock" /\ Progress(r) = "serving" /\ Progress(r)' = "serving"
        /\ Serving(r) /\ Serving(r)'
    BY <1>1, <1>2, <1>5 DEF Goto, Progress, Serving, TypeOK
  <2>2. CASE held'[r] = held[r]
    BY <1>1, <1>2, <1>3, <2>1, <2>2, Unseen
  <2>3. CASE held'[r] = [mail |-> mail[job[r].user], name |-> name[job[r].user]]
    <3>1. Served[r] = "serving" /\ Asked[r] = job[r] /\ Card[job[r].user] = held'[r]
      BY <1>2, <2>1, <2>3 DEF Served, Asked, AsSent, Card
    <3>2. Served' = Served /\ Asked' = Asked /\ Read' = [Read EXCEPT ![r] = held'[r]]
      <4>1. Served' = [Served EXCEPT ![r] = Served[r]] /\ Asked' = [Asked EXCEPT ![r] = Asked[r]]
            /\ Read' = [Read EXCEPT ![r] = held'[r]]
        BY <1>1, <1>2, <1>3, <2>1, <3>1, BookMoves DEF AsSent
      <4>2. Served = [q \in Reqs |-> Served[q]] /\ Asked = [q \in Reqs |-> Asked[q]]
        BY DEF Served, Asked
      <4> QED BY <4>1, <4>2
    <3>3. Book!ReadAgain(r)
      BY <1>2, <3>1, <3>2, CardStands DEF Book!ReadAgain
    <3> QED BY <3>3 DEF Book!Next
  <2> QED BY <1>1, <1>5, <2>2, <2>3 DEF TypeOK
<1> QED BY <1>4, <1>5 DEF CheckEmail

(* Statements that tell the book nothing, or that the request failed.      *)
LEMMA InsertRefines ==
  ASSUME BookInv, NEW r \in Reqs, Insert(r)
  PROVE  UNCHANGED Book!vars
<1>1. TypeOK /\ ControlInv(r)
  BY DEF BookInv, Inv, RequestInv
<1>2. /\ pc[r] = "insert" /\ pc'[r] = "index" /\ r \notin took /\ took' = took /\ held' = held
      /\ job[r] \in AllJobs /\ job[r].kind = "register" /\ job[r].user = 0
      /\ job'[r] = [job[r] EXCEPT !.user = Len(mail')]
  BY <1>1 DEF Insert, Goto, TypeOK, ControlInv
<1>3. TableStands
  <2>1. /\ mail \in Seq(Emails) /\ name \in Seq(Names) /\ Len(name) = Len(mail)
        /\ mail' = Append(mail, job[r].email) /\ name' = Append(name, job[r].name)
        /\ UNCHANGED <<users, deleted, took>>
    BY <1>1 DEF TypeOK, Insert
  <2>2. \A i \in users : i \in 1 .. Len(mail)
    BY <1>1, Columns
  <2> QED BY <2>1, <2>2 DEF TableStands
<1>4. AsSent(job'[r]) = AsSent(job[r])
  <2>1. job[r] = [kind |-> job[r].kind, user |-> job[r].user, email |-> job[r].email,
                  name |-> job[r].name]
    BY <1>2 DEF AllJobs
  <2>2. job'[r] = [kind |-> job[r].kind, user |-> Len(mail'), email |-> job[r].email,
                   name |-> job[r].name]
    BY <1>2, <2>1
  <2> QED BY <1>2, <2>1, <2>2 DEF AsSent
<1>5. \A q \in Reqs \ {r} : Still(q)
  BY <1>1, ActsAreLocal DEF Acts, Step
<1> QED BY <1>1, <1>2, <1>3, <1>4, <1>5, Unseen DEF Progress, Serving

LEMMA StatementRefines ==
  ASSUME BookInv, NEW r \in Reqs, LockRow(r) \/ EnterIndex(r) \/ Reread(r) \/ Abort(r)
  PROVE  Book!Next \/ UNCHANGED Book!vars
<1>1. TypeOK /\ ControlInv(r) /\ Intends(r)
  BY DEF BookInv, Inv, RequestInv
<1>2. TableStands /\ took' = took /\ job' = job /\ pc[r] # "done"
  BY DEF LockRow, EnterIndex, Reread, Abort, TableStands, table
<1>3. \A q \in Reqs \ {r} : Still(q)
  BY <1>1, ActsAreLocal DEF Acts, Step
<1>4. CASE r \in took
  BY <1>1, <1>2, <1>3, <1>4, Unseen DEF Progress, Serving
<1>5. CASE r \notin took /\ pc'[r] = "done"
  BY <1>1, <1>2, <1>3, <1>5, RefusedRefines
<1>6. CASE r \notin took /\ pc'[r] # "done"
  <2>1. pc[r] \in {"lock", "index"} /\ pc'[r] \in {"index", "commit"} /\ held' = held
    BY <1>1, <1>6 DEF LockRow, EnterIndex, Reread, Abort, Goto, Answer, ControlInv, TypeOK
  <2> QED BY <1>1, <1>2, <1>3, <1>6, <2>1, Unseen DEF Progress, Serving
<1> QED BY <1>4, <1>5, <1>6

-----------------------------------------------------------------------------
(* The commit, which is the step of the book                               *)

LEMMA SentTyped ==
  ASSUME NEW j \in AllJobs
  PROVE  /\ AsSent(j).kind = j.kind /\ AsSent(j).email = j.email /\ AsSent(j).name = j.name
         /\ j.kind # "register" => AsSent(j) = j
BY DEF AsSent, AllJobs

LEMMA CommitSucceeds ==
  ASSUME BookInv, NEW r \in Reqs, Commit(r)
  PROVE  /\ job[r] \in AllJobs /\ job[r].kind \in Kinds
         /\ Asked[r] = AsSent(job[r]) /\ Read[r] = held[r]
         /\ Book!Succeed(r, job[r].kind)
<1>1. TypeOK /\ ControlInv(r) /\ pc[r] = "commit"
  BY DEF BookInv, Inv, RequestInv, Commit
<1>2. job[r] \in AllJobs /\ job[r].kind \in Kinds /\ r \notin took
  BY <1>1 DEF TypeOK, ControlInv, AllJobs
<1>3. Served[r] = "serving" /\ Asked[r] = AsSent(job[r]) /\ Read[r] = held[r]
  BY <1>1, <1>2 DEF Served, Asked, Read, Serving, Progress
<1>4. r \in took' /\ Progress(r)' = "ok" /\ ~Serving(r)'
  BY DEF Commit, Progress, Serving
<1>5. \A q \in Reqs \ {r} : Still(q)
  BY <1>1, ActsAreLocal DEF Acts, Step
<1>6. Book!End(r, "ok")
  BY <1>1, <1>4, <1>5, BookMoves DEF Book!End, Book!Unread, NotHeld
<1> QED BY <1>2, <1>3, <1>6, SentTyped DEF Book!Succeed

(* What the commit makes of the accounts.                                  *)
LEMMA CommitCard ==
  ASSUME BookInv, NEW r \in Reqs, Commit(r)
  PROVE  /\ users' = users \cup ({write[r].row} \ {0})
         /\ deleted' = IF write[r].deleted = TRUE THEN deleted \cup {write[r].row} ELSE deleted
         /\ \A i \in users' : Card'[i] =
              [mail |-> IF i = write[r].row /\ write[r].mail # Unset THEN write[r].mail ELSE mail[i],
               name |-> IF i = write[r].row /\ write[r].name # Unset THEN write[r].name ELSE name[i]]
         /\ DOMAIN Card' = users'
         /\ write[r].mail # Unset => write[r].mail \in Emails /\ ~Duplicate(r)
<1>1. TypeOK /\ pc[r] = "commit" /\ IndexInv
  BY DEF BookInv, Inv, Commit
<1>2. write[r].row \in 0 .. Len(mail) /\ Len(mail) \in Nat /\ DOMAIN mail = 1 .. Len(mail)
      /\ write[r].mail \in Emails \cup {Unset}
  BY <1>1, Columns DEF TypeOK
<1>3. /\ users' = users \cup ({write[r].row} \ {0}) /\ users \subseteq DOMAIN mail
      /\ users' \subseteq DOMAIN mail
  <2>1. users' = users \cup ({write[r].row} \ {0})
    BY <1>1, CommitTable
  <2>2. users \subseteq DOMAIN mail
    BY <1>1 DEF TypeOK
  <2> QED BY <1>2, <2>1, <2>2
<1>4. \A i \in users' :
        /\ mail'[i] = IF i = write[r].row /\ write[r].mail # Unset THEN write[r].mail ELSE mail[i]
        /\ name'[i] = IF i = write[r].row /\ write[r].name # Unset THEN write[r].name ELSE name[i]
  BY <1>1, <1>3, CommitTable
<1>5. DOMAIN Card' = users' /\ \A i \in users' : Card'[i] = [mail |-> mail'[i], name |-> name'[i]]
  BY DEF Card
<1>6. deleted' = IF write[r].deleted = TRUE THEN deleted \cup {write[r].row} ELSE deleted
  BY <1>1, CommitTable
<1>7. write[r].mail # Unset => write[r].mail \in Emails /\ ~Duplicate(r)
  BY <1>1, <1>2 DEF IndexInv
<1> QED BY <1>3, <1>4, <1>5, <1>6, <1>7

LEMMA RegisterRefines ==
  ASSUME BookInv, NEW r \in Reqs, Commit(r), job[r].kind = "register"
  PROVE  Book!Register(r)
<1> DEFINE w == write[r]
<1>1. TypeOK /\ WriteInv(r) /\ Intends(r) /\ pc[r] = "commit"
  BY DEF BookInv, Inv, RequestInv, Commit
<1>2. /\ w.row \notin users /\ w.row # 0 /\ w.mail = job[r].email /\ w.mail # Unset
      /\ w.name = Unset /\ w.deleted # TRUE /\ name[w.row] = job[r].name
  <2>1. job[r].email # Unset
    BY CommitSucceeds, AccountsAssumption DEF AllJobs
  <2> QED BY <1>1, <2>1, AccountsAssumption DEF WriteInv, Intends
<1>3. users' = users \cup {w.row} /\ deleted' = deleted
  BY <1>2, CommitCard
<1>4. Asked[r].email = job[r].email /\ Asked[r].name = job[r].name
  BY CommitSucceeds, SentTyped
<1>5. DOMAIN Card = users /\ w.row \in Book!NewIds
  BY <1>2, <1>3, CommitCard DEF Card, Book!NewIds
<1>6. Book!Free(Asked[r].email, w.row)
  <2>1. \A i \in users \ {w.row} : mail[i] # w.mail
    BY <1>2, CommitCard DEF Duplicate
  <2>2. \A i \in users : Card[i].mail = mail[i]
    BY DEF Card
  <2> QED BY <1>2, <1>4, <1>5, <2>1, <2>2 DEF Book!Free
<1>7. Card' = [i \in DOMAIN Card \cup {w.row} |->
                 IF i = w.row THEN [mail |-> Asked[r].email, name |-> Asked[r].name] ELSE Card[i]]
  <2>1. \A i \in users' : Card'[i] =
          IF i = w.row THEN [mail |-> Asked[r].email, name |-> Asked[r].name] ELSE Card[i]
    <3> TAKE i \in users'
    <3>1. Card'[i] =
            [mail |-> IF i = w.row /\ w.mail # Unset THEN w.mail ELSE mail[i],
             name |-> IF i = w.row /\ w.name # Unset THEN w.name ELSE name[i]]
      BY CommitCard
    <3>2. CASE i = w.row
      BY <1>2, <1>4, <3>1, <3>2
    <3>3. CASE i # w.row
      <4>1. Card'[i] = [mail |-> mail[i], name |-> name[i]] /\ i \in users
        BY <1>3, <3>1, <3>3
      <4> QED BY <3>3, <4>1 DEF Card
    <3> QED BY <3>2, <3>3
  <2>2. Card' = [i \in users' |-> Card'[i]]
    BY DEF Card
  <2> QED BY <1>3, <1>5, <2>1, <2>2
<1>8. Book!Succeed(r, "register")
  BY CommitSucceeds
<1> QED BY <1>3, <1>5, <1>6, <1>7, <1>8 DEF Book!Register

LEMMA UpdateRefines ==
  ASSUME BookInv, NEW r \in Reqs, Commit(r), job[r].kind = "update"
  PROVE  Book!Update(r)
<1> DEFINE w == write[r]
           u == job[r].user
           e == job[r].email
<1>1. TypeOK /\ ControlInv(r) /\ Intends(r) /\ pc[r] = "commit" /\ u \in users
  BY DEF BookInv, Inv, RequestInv, Commit, ControlInv
<1>2. Asked[r] = job[r] /\ Read[r] = held[r] /\ Book!Succeed(r, "update")
  BY CommitSucceeds, SentTyped
(* What is written is what the book would change.                          *)
<1>3. /\ w.mail = IF e \in {Unset, held[r].mail} THEN Unset ELSE e
      /\ w.name = IF job[r].name \in {Unset, held[r].name} THEN Unset ELSE job[r].name
      /\ w.deleted = Unset
      /\ w.row = u \/ (w.row = 0 /\ w.mail = Unset /\ w.name = Unset)
  <2>1. /\ Changed(r).mail = IF e \in {Unset, held[r].mail} THEN Unset ELSE e
        /\ Changed(r).name = IF job[r].name \in {Unset, held[r].name} THEN Unset ELSE job[r].name
        /\ Changed(r).deleted = Unset /\ Changed(r).row = u
    BY DEF Changed
  <2>2. CASE w = Changed(r)
    BY <2>1, <2>2
  <2>3. CASE w = NoWrite /\ Changed(r) = [NoWrite EXCEPT !.row = u]
    <3>1. Changed(r).mail = Unset /\ Changed(r).name = Unset
      BY <2>3 DEF NoWrite
    <3>2. w.mail = Unset /\ w.name = Unset /\ w.deleted = Unset /\ w.row = 0
      BY <2>3, NoWriteTyped
    <3> QED BY <2>1, <3>1, <3>2
  <2> QED BY <1>1, <2>2, <2>3 DEF Intends
<1>4. users' = users /\ deleted' = deleted
  <2>1. w.deleted # TRUE
    BY <1>3, AccountsAssumption
  <2>2. /\ users' = users \cup ({w.row} \ {0})
        /\ deleted' = IF w.deleted = TRUE THEN deleted \cup {w.row} ELSE deleted
    BY CommitCard
  <2> QED BY <1>1, <1>3, <2>1, <2>2
<1>5. e \notin {Unset, held[r].mail} => e # Null /\ Book!Free(e, u)
  <2>1. ASSUME e \notin {Unset, held[r].mail}
        PROVE  e \in Emails /\ ~Duplicate(r) /\ w.mail = e /\ w.row = u
    BY <1>3, <2>1, CommitCard
  <2> QED BY <2>1, AccountsAssumption DEF Book!Free, Duplicate, Card
<1>6. \A i \in users : Card'[i] =
        IF i = u THEN [mail |-> Book!Column(e, held[r].mail, mail[i]),
                       name |-> Book!Column(job[r].name, held[r].name, name[i])]
        ELSE Card[i]
  <2>1. ASSUME NEW i \in users
        PROVE  Card'[i] = [mail |-> IF i = u /\ w.mail # Unset THEN w.mail ELSE mail[i],
                           name |-> IF i = u /\ w.name # Unset THEN w.name ELSE name[i]]
    <3>1. Card'[i] =
            [mail |-> IF i = w.row /\ w.mail # Unset THEN w.mail ELSE mail[i],
             name |-> IF i = w.row /\ w.name # Unset THEN w.name ELSE name[i]]
      BY <1>4, CommitCard
    <3> QED BY <1>3, <3>1
  <2>2. \A i \in users : Card[i] = [mail |-> mail[i], name |-> name[i]]
    BY DEF Card
  <2>3. ASSUME NEW i \in users, i = u
        PROVE  /\ (IF w.mail # Unset THEN w.mail ELSE mail[i]) = Book!Column(e, held[r].mail, mail[i])
               /\ (IF w.name # Unset THEN w.name ELSE name[i])
                    = Book!Column(job[r].name, held[r].name, name[i])
    BY <1>3 DEF Book!Column
  <2> QED BY <2>1, <2>2, <2>3
<1>7. Card' = [Card EXCEPT ![u] = [mail |-> Book!Column(e, held[r].mail, @.mail),
                                   name |-> Book!Column(job[r].name, held[r].name, @.name)]]
  <2>1. DOMAIN Card = users /\ Card' = [i \in users |-> Card'[i]]
        /\ Card[u].mail = mail[u] /\ Card[u].name = name[u]
    BY <1>1, <1>4 DEF Card
  <2> QED BY <1>6, <2>1
<1> QED BY <1>2, <1>4, <1>5, <1>7 DEF Book!Update

LEMMA DeleteRefines ==
  ASSUME BookInv, NEW r \in Reqs, Commit(r), job[r].kind = "delete"
  PROVE  Book!Delete(r)
<1> DEFINE w == write[r]
<1>1. TypeOK /\ ControlInv(r) /\ WriteInv(r) /\ pc[r] = "commit" /\ job[r].user \in users
  BY DEF BookInv, Inv, RequestInv, Commit, ControlInv
<1>2. job[r].email = Unset /\ job[r].name = Unset
  BY CommitSucceeds DEF AllJobs
<1>3. w.deleted = TRUE /\ w.row = job[r].user /\ w.mail = Unset /\ w.name = Unset
  BY <1>1, <1>2 DEF WriteInv
<1>4. users' = users /\ deleted' = deleted \cup {job[r].user}
  <2>1. /\ users' = users \cup ({w.row} \ {0})
        /\ deleted' = IF w.deleted = TRUE THEN deleted \cup {w.row} ELSE deleted
    BY CommitCard
  <2> QED BY <1>1, <1>3, <2>1
<1>5. Card' = Card
  <2>1. \A i \in users : Card'[i] = Card[i]
    BY <1>3, <1>4, CommitCard DEF Card
  <2> QED BY <1>4, <2>1 DEF Card
<1>6. Asked[r] = job[r] /\ Book!Succeed(r, "delete")
  BY CommitSucceeds, SentTyped
<1> QED BY <1>4, <1>5, <1>6 DEF Book!Delete

LEMMA BookNext == BookInv /\ [Next]_vars => [Book!Next]_(Book!vars)
<1> SUFFICES ASSUME BookInv, [Next]_vars PROVE [Book!Next]_(Book!vars)
  OBVIOUS
<1>1. ASSUME NEW r \in Reqs, Acts(r) PROVE [Book!Next]_(Book!vars)
  <2>1. ASSUME NEW j \in Jobs, RegisterCheck(r, j) \/ SelectTarget(r, j) PROVE Book!Next
    BY <2>1, BeginRefines
  <2>2. CASE Commit(r)
    <3>1. job[r].kind \in Kinds
      BY <2>2, CommitSucceeds
    <3> QED BY <2>2, <3>1, RegisterRefines, UpdateRefines, DeleteRefines DEF Kinds, Book!Next
  <2> QED BY <1>1, <2>1, <2>2, InsertRefines, CheckEmailRefines, StatementRefines DEF Acts, Step
<1>2. CASE UNCHANGED vars
  BY <1>2 DEF vars, table, Book!vars, Card, Served, Asked, Read, Progress, Serving
<1> QED BY <1>1, <1>2 DEF Next, Acts, Quiet

(* However its statements interleave, a registration, an update or a       *)
(* deletion takes effect as a whole when it commits, on the strength of    *)
(* what it read, or not at all.                                            *)
THEOREM BookKept == Spec => ImplementsBook
BY InitBook, BookInvStep, BookNext, PTL DEF Spec, ImplementsBook, Book!Spec

=============================================================================
