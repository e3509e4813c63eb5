------------------------------ MODULE Accounts ------------------------------
(***************************************************************************)
(* Registration, profile updates and soft deletion, as they interleave:    *)
(* who holds an email, and what becomes of the columns of a row that       *)
(* several requests change.  Statements, transactions and row locks are    *)
(* those of AuthSessions.  The requests here are allowed what they ask for *)
(* (RoleRules).                                                            *)
(*                                                                         *)
(* The email is looked up first and written later; what keeps it unique is *)
(* the index of users.email.                                               *)
(***************************************************************************)
EXTENDS Integers, Sequences, FiniteSets

CONSTANTS
  Emails, Names,  (* values of users.email; of the other profile columns   *)
  Reqs,           (* the HTTP requests, each served once                   *)
  Jobs,           (* what requests may ask for                             *)
  NoJob,          (* what a request asks for that is not being served      *)
  InitMail,       (* the emails of the accounts at the beginning, by id    *)
  InitName,       (* the name they all have                                *)
  Unset, Null     (* a field absent from the body of a PATCH; one given as *)
                  (* null                                                  *)

Kinds == {"register", "update", "delete"}

(* A registration has all columns, a deletion none, an update some.        *)
AllJobs ==
  {j \in [kind : Kinds, user : Nat, email : Emails \cup {Unset, Null}, name : Names \cup {Unset}] :
     /\ j.kind = "register" => j.email \in Emails /\ j.name \in Names
     /\ j.kind = "delete" => j.email = Unset /\ j.name = Unset}

(* The id of an account that is to be registered is not known yet.         *)
ASSUME AccountsAssumption ==
  /\ InitMail \in Seq(Emails)
  /\ \A i, k \in DOMAIN InitMail : InitMail[i] = InitMail[k] => i = k
  /\ InitName \in Names
  /\ {Unset, Null} \cap (Emails \cup Names) = {} /\ Unset # Null /\ Unset \notin BOOLEAN
  /\ Jobs \subseteq AllJobs /\ NoJob \notin AllJobs
  /\ \A j \in Jobs : j.kind = "register" => j.user = 0

Labels   == {"idle", "insert", "check", "lock", "index", "commit", "reread", "done"}
Outcomes == {"none", "ok", "notfound", "taken", "conflict", "aborted"}

VARIABLES
  (* The table users.  The columns grow with the sequence that draws the   *)
  (* ids, also for rows that are rolled back.                              *)
  mail, name,
  users,      (* ids of the committed rows                                 *)
  deleted,    (* committed rows with deleted_at set, is_active unset       *)
  pc, job, result,
  held,       (* columns of the ORM object, as last read                   *)
  write,      (* the row and columns the transaction has written           *)
  (* History, read by no action.                                           *)
  took,       (* the requests whose transaction has committed              *)
  seen        (* facts about the committed table, since the request began  *)

table == <<mail, name, users, deleted>>
vars  == <<table, pc, job, result, held, write, took, seen>>

-----------------------------------------------------------------------------

NoWrite == [row |-> 0, mail |-> Unset, name |-> Unset, deleted |-> Unset]
NotHeld == [mail |-> Unset, name |-> Unset]

(* variant: deleted accounts are left out                                  *)
ActiveHolders(e) == {i \in users \ deleted : mail[i] = e}

(* get_by_email: deleted accounts keep their email.                        *)
Holders(e) == {i \in users : mail[i] = e}

FactNames == {"free", "taken", "own", "gone"}

(* What a request may have to answer for.                                  *)
Facts(M, U, D, j) ==
  LET others == {i \in U \ {j.user} : M[i] = j.email}
  IN {f \in FactNames :
        \/ f = "free"  /\ others = {}
        \/ f = "taken" /\ others # {}
        \/ f = "own"   /\ j.user \in U /\ M[j.user] = j.email
        \/ f = "gone"  /\ j.user \notin U \ D}

InFlight == {r \in Reqs : pc[r] \notin {"idle", "done"}}

Goto(r, label) == pc' = [pc EXCEPT ![r] = label] /\ UNCHANGED result

(* The answer, and the end of the transaction.                             *)
Answer(r, outcome) ==
  /\ pc' = [pc EXCEPT ![r] = "done"]
  /\ result' = [result EXCEPT ![r] = outcome]
  /\ write' = [write EXCEPT ![r] = NoWrite]
  /\ held' = [held EXCEPT ![r] = NotHeld]

(* The first statement of a handler, about job j.                          *)
Begin(r, j) ==
  /\ pc[r] = "idle"
  /\ job' = [job EXCEPT ![r] = j]
  /\ seen' = [seen EXCEPT ![r] = Facts(mail, users, deleted, j)]
  /\ UNCHANGED <<table, took>>

-----------------------------------------------------------------------------
(* UserService.register_user                                               *)

(* _ensure_email_is_free                                                   *)
RegisterCheck(r, j) ==
  /\ j.kind = "register"
  /\ Begin(r, j)
  /\ \/ Holders(j.email) = {} /\ Goto(r, "insert") /\ UNCHANGED <<held, write>>
     \/ Holders(j.email) # {} /\ Answer(r, "taken")

(* add: the row of the INSERT, before it enters the index.                 *)
Insert(r) ==
  /\ pc[r] = "insert"
  /\ mail' = Append(mail, job[r].email)
  /\ name' = Append(name, job[r].name)
  /\ job' = [job EXCEPT ![r].user = Len(mail')]
  /\ write' = [write EXCEPT ![r] = [row |-> Len(mail'), mail |-> job[r].email,
                                     name |-> Unset, deleted |-> Unset]]
  /\ Goto(r, "index")
  /\ UNCHANGED <<users, deleted, held, took, seen>>

-----------------------------------------------------------------------------
(* UserService.update_user and soft_delete_user                            *)

(* _get_target_or_404                                                      *)
SelectTarget(r, j) ==
  /\ j.kind # "register"
  /\ Begin(r, j)
  /\ \/ /\ j.user \in users \ deleted
        /\ held' = [held EXCEPT ![r] = [mail |-> mail[j.user], name |-> name[j.user]]]
        /\ Goto(r, IF j.email \in Emails THEN "check" ELSE "lock")
        /\ UNCHANGED write
     \/ j.user \notin users \ deleted /\ Answer(r, "notfound")

(* _ensure_email_is_free: the email may be the user's own; that row is     *)
(* then read again into the same object.                                   *)
CheckEmail(r) ==
  /\ pc[r] = "check"
  /\ LET u == job[r].user
         holders == Holders(job[r].email)
     IN \/ /\ holders \ {u} = {}
           /\ held' = [held EXCEPT ![r] =
                IF u \in holders THEN [mail |-> mail[u], name |-> name[u]] ELSE @]
           /\ Goto(r, "lock")
           /\ UNCHANGED write
        \/ holders \ {u} # {} /\ Answer(r, "taken")
  /\ UNCHANGED <<table, job, took, seen>>

(* variant: the whole object is written back                               *)
WholeRow(r) ==
  [row |-> job[r].user,
   mail |-> IF job[r].email = Unset THEN held[r].mail ELSE job[r].email,
   name |-> IF job[r].name = Unset THEN held[r].name ELSE job[r].name,
   deleted |-> job[r].kind = "delete"]

(* What the UPDATE sets: the columns assigned another value than was read. *)
Changed(r) ==
  [row |-> job[r].user,
   mail |-> IF job[r].email = held[r].mail THEN Unset ELSE job[r].email,
   name |-> IF job[r].name = held[r].name THEN Unset ELSE job[r].name,
   deleted |-> IF job[r].kind = "delete" THEN TRUE ELSE Unset]

(* variant: rows are not locked                                            *)
RowFreeAlways(r, i) == TRUE

(* No other transaction has written the row.                               *)
RowFree(r, i) == \A q \in Reqs \ {r} : write[q].row # i

(* The flush before the commit.  Without a change there is no UPDATE; an   *)
(* email of null violates NOT NULL.                                        *)
LockRow(r) ==
  /\ pc[r] = "lock"
  /\ LET w == Changed(r)
         nothing == w = [NoWrite EXCEPT !.row = w.row]
     IN \/ nothing /\ Goto(r, "commit") /\ UNCHANGED <<held, write>>
        \/ w.mail = Null /\ Answer(r, "conflict")
        \/ /\ ~nothing /\ w.mail # Null
           /\ RowFree(r, w.row)
           /\ write' = [write EXCEPT ![r] = w]
           /\ Goto(r, IF w.mail = Unset THEN "commit" ELSE "index")
           /\ UNCHANGED held
  /\ UNCHANGED <<table, job, took, seen>>

(* The unique index waits for whoever has written the email, or the row of *)
(* the account that has it.                                                *)
EmailFree(r, e) ==
  \A q \in Reqs \ {r} :
    /\ ~(pc[q] = "commit" /\ write[q].mail = e)
    /\ ~(write[q].row \in users /\ mail[write[q].row] = e)

(* variant: the column is not unique                                       *)
DuplicateNever(r) == FALSE

(* The email is in the table, in another row.                              *)
Duplicate(r) == \E i \in users \ {write[r].row} : mail[i] = write[r].mail

(* The new email enters the index, or it is an IntegrityError.             *)
EnterIndex(r) ==
  /\ pc[r] = "index"
  /\ EmailFree(r, write[r].mail)
  /\ \/ ~Duplicate(r) /\ Goto(r, "commit") /\ UNCHANGED <<held, write>>
     \/ Duplicate(r) /\ Answer(r, "conflict")
  /\ UNCHANGED <<table, job, took, seen>>

-----------------------------------------------------------------------------

Merged(new, old) == IF new = Unset THEN old ELSE new

(* COMMIT.  A registration brings the role user with it.  A deletion is    *)
(* answered; the others have to build an answer.                           *)
Commit(r) ==
  /\ pc[r] = "commit"
  /\ LET w == write[r]
     IN /\ users' = users \cup ({w.row} \ {0})
        /\ mail' = [i \in DOMAIN mail |-> IF i = w.row THEN Merged(w.mail, mail[i]) ELSE mail[i]]
        /\ name' = [i \in DOMAIN name |-> IF i = w.row THEN Merged(w.name, name[i]) ELSE name[i]]
        /\ deleted' = CASE w.deleted = TRUE -> deleted \cup {w.row}
                        [] w.deleted = FALSE -> deleted \ {w.row}
                        [] OTHER -> deleted
  /\ took' = took \cup {r}
  /\ seen' = [q \in Reqs |-> IF q \in InFlight
                             THEN seen[q] \cup Facts(mail', users', deleted', job[q])
                             ELSE seen[q]]
  /\ \/ job[r].kind = "delete" /\ Answer(r, "ok")
     \/ /\ job[r].kind # "delete"
        /\ Goto(r, "reread")
        /\ write' = [write EXCEPT ![r] = NoWrite]
        /\ UNCHANGED held
  /\ UNCHANGED job

(* The answer is built from another read, in a transaction of its own:     *)
(* register_user reads the roles, update_user the user, too, whom it may   *)
(* not find.                                                               *)
Reread(r) ==
  /\ pc[r] = "reread"
  /\ Answer(r, IF job[r].kind = "update" /\ job[r].user \in deleted THEN "notfound" ELSE "ok")
  /\ UNCHANGED <<table, job, took, seen>>

(* An exception, a failing statement (the victim of a deadlock, too) or a  *)
(* crash, also before the first statement: rollback, unless the            *)
(* transaction has been committed.  What fails then is the answer.         *)
Abort(r) ==
  /\ pc[r] # "done"
  /\ Answer(r, "aborted")
  /\ UNCHANGED <<table, job, took, seen>>

-----------------------------------------------------------------------------

Init ==
  /\ mail = InitMail
  /\ name = [i \in DOMAIN InitMail |-> InitName]
  /\ users = DOMAIN InitMail
  /\ deleted = {}
  /\ pc = [r \in Reqs |-> "idle"]
  /\ job = [r \in Reqs |-> NoJob]
  /\ result = [r \in Reqs |-> "none"]
  /\ held = [r \in Reqs |-> NotHeld]
  /\ write = [r \in Reqs |-> NoWrite]
  /\ took = {}
  /\ seen = [r \in Reqs |-> {}]

Step(r) ==
  Insert(r) \/ CheckEmail(r) \/ LockRow(r) \/ EnterIndex(r) \/ Commit(r) \/ Reread(r)

(* Every request is answered: the bound on requests is used up.            *)
Quiet == (\A r \in Reqs : pc[r] = "done") /\ UNCHANGED vars

Next ==
  \/ \E r \in Reqs :
       (\E j \in Jobs : RegisterCheck(r, j) \/ SelectTarget(r, j)) \/ Step(r) \/ Abort(r)
  \/ Quiet

Spec == Init /\ [][Next]_vars

-----------------------------------------------------------------------------
(* Properties                                                              *)

(* Every variable has its type, and two transactions never write the same  *)
(* row at once.                                                            *)
TypeOK ==
  /\ mail \in Seq(Emails) /\ name \in Seq(Names) /\ Len(name) = Len(mail)
  /\ deleted \subseteq users /\ users \subseteq DOMAIN mail
  /\ pc \in [Reqs -> Labels]
  /\ job \in [Reqs -> AllJobs \cup {NoJob}]
  /\ result \in [Reqs -> Outcomes]
  /\ held \in [Reqs -> [mail : Emails \cup {Unset}, name : Names \cup {Unset}]]
  /\ write \in [Reqs -> [row : 0 .. Len(mail), mail : Emails \cup {Unset},
                         name : Names \cup {Unset}, deleted : {TRUE, Unset}]]
  /\ took \subseteq Reqs
  /\ seen \in [Reqs -> SUBSET FactNames]
  /\ \A q, r \in Reqs : q # r /\ write[q].row = write[r].row => write[q].row = 0

(* An email belongs to one account, deleted or not, whichever requests     *)
(* found it free at the same time.                                         *)
EmailsUnique == \A i, k \in users : mail[i] = mail[k] => i = k

(* An answer fits the table: 400 says an email was taken; 409 that it was  *)
(* free when it was looked up and taken when it was written, or null; 404  *)
(* that the user was deleted; and an email given and confirmed was held.   *)
(* What was confirmed is committed, what was refused with 400 or 409 is    *)
(* not; a 404 or an error may come from the read after the commit.         *)
AnswersTruthful ==
  \A r \in Reqs :
    /\ result[r] = "ok" => r \in took
    /\ result[r] \in {"taken", "conflict"} => r \notin took
    /\ result[r] = "taken" => "taken" \in seen[r]
    /\ result[r] = "conflict" => job[r].email = Null \/ {"free", "taken"} \subseteq seen[r]
    /\ result[r] = "notfound" => "gone" \in seen[r]
    /\ result[r] = "ok" /\ job[r].email \in Emails => "own" \in seen[r]

Sets(r, u) == r \in took /\ job[r].kind = "update" /\ job[r].user = u

(* A column that one request has changed keeps the value, whatever other   *)
(* columns of the row others change at the same time.                      *)
LoneWriterWins ==
  \A r \in took : LET u == job[r].user IN
    job[r].kind = "update" =>
      /\ \/ job[r].email = Unset
         \/ mail[u] = job[r].email
         \/ \E q \in Reqs \ {r} : Sets(q, u) /\ job[q].email # Unset
      /\ \/ job[r].name = Unset
         \/ name[u] = job[r].name
         \/ \E q \in Reqs \ {r} : Sets(q, u) /\ job[q].name # Unset

(* A deleted account stays deleted: an update that had read the account    *)
(* before does not bring it back.                                          *)
DeletedForGood == \A r \in took : job[r].kind = "delete" => job[r].user \in deleted

(* The requests implement the book of accounts: each takes effect as a     *)
(* whole, at its commit, on the strength of the columns as it read them,   *)
(* and leaves no trace otherwise.                                          *)
Serving(r) == pc[r] \notin {"idle", "done"} /\ r \notin took

Progress(r) ==
  IF r \in took THEN "ok"
  ELSE IF pc[r] = "idle" THEN "waiting" ELSE IF pc[r] = "done" THEN "refused" ELSE "serving"

(* The job as it came: a registration learns the id at its INSERT.         *)
AsSent(j) == IF j.kind = "register" THEN [j EXCEPT !.user = 0] ELSE j

Card   == [i \in users |-> [mail |-> mail[i], name |-> name[i]]]
Served == [r \in Reqs |-> Progress(r)]
Asked  == [r \in Reqs |-> IF Serving(r) THEN AsSent(job[r]) ELSE NoJob]
Read   == [r \in Reqs |-> IF Serving(r) THEN held[r] ELSE NotHeld]

Book == INSTANCE AccountBook WITH
  InitCard <- [i \in DOMAIN InitMail |-> [mail |-> InitMail[i], name |-> InitName]],
  card <- Card, served <- Served, asked <- Asked, read <- Read

ImplementsBook == Book!Spec

(* Why the invariants hold: the inductive invariant.                       *)

(* An email that has entered the index is in no other row, nor about to be.*)
IndexInv ==
  /\ EmailsUnique
  /\ \A r \in Reqs : pc[r] = "commit" /\ write[r].mail # Unset =>
       /\ ~Duplicate(r)
       /\ \A q \in Reqs \ {r} : pc[q] = "commit" => write[q].mail # write[r].mail

(* Which requests can be at which statement.                               *)
ControlInv(r) ==
  /\ pc[r] # "done" => result[r] = "none"
  /\ pc[r] \notin {"idle", "done"} => job[r] # NoJob
  /\ r \in took => pc[r] \in {"reread", "done"}
  /\ pc[r] = "insert" => job[r].kind = "register" /\ job[r].user = 0
  /\ pc[r] = "check" => job[r].kind = "update" /\ job[r].email \in Emails
  /\ pc[r] = "lock" => job[r].kind # "register"
  /\ pc[r] = "index" => job[r].kind # "delete"
  /\ pc[r] = "reread" => job[r].kind # "delete" /\ r \in took
  /\ pc[r] \in {"check", "lock", "index", "commit", "reread"} /\ job[r].kind # "register" =>
       job[r].user \in users

(* What is written is what was asked for, unless the column had the value. *)
WriteInv(r) ==
  /\ pc[r] \notin {"index", "commit"} => write[r] = NoWrite
  /\ pc[r] = "index" => write[r].mail \in Emails
  /\ write[r] # NoWrite => write[r].row = job[r].user /\ job[r].user # 0
  /\ pc[r] \in {"index", "commit"} =>
       /\ write[r].mail \in {job[r].email, Unset} /\ write[r].name \in {job[r].name, Unset}
       /\ job[r].kind = "register" =>
            write[r].mail = job[r].email /\ write[r].row \notin users /\ write[r] # NoWrite
       /\ job[r].kind = "update" =>
            /\ write[r].mail = job[r].email \/ held[r].mail = job[r].email
            /\ write[r].name = job[r].name \/ (write[r].name = Unset /\ held[r].name = job[r].name)
       /\ job[r].kind = "delete" => write[r].deleted = TRUE /\ write[r].row = job[r].user

MailSetByOther(r) ==
  \E q \in Reqs \ {r} : Sets(q, job[r].user) /\ job[q].email # Unset
NameSetByOther(r) ==
  \E q \in Reqs \ {r} : Sets(q, job[r].user) /\ job[q].name # Unset

(* The columns read are those of the row, or another request has set them. *)
HeldInv(r) ==
  pc[r] \in {"check", "lock", "index", "commit"} /\ job[r].kind = "update" =>
    /\ held[r].mail \in Emails /\ held[r].name \in Names
    /\ held[r].mail = mail[job[r].user] \/ MailSetByOther(r)
    /\ held[r].name = name[job[r].user] \/ NameSetByOther(r)
    /\ held[r].mail = job[r].email => "own" \in seen[r]

(* What is true now is among what has been true since the request began.   *)
SeenInv(r) ==
  /\ r \in InFlight => Facts(mail, users, deleted, job[r]) \subseteq seen[r]
  /\ pc[r] \in {"insert", "lock", "index"} /\ job[r].email \in Emails => "free" \in seen[r]
  /\ pc[r] = "reread" /\ job[r].email \in Emails => "own" \in seen[r]

(* The safety properties, request by request.                              *)
AnswerInv(r) ==
  /\ result[r] = "ok" => r \in took
  /\ result[r] \in {"taken", "conflict"} => r \notin took
  /\ result[r] = "taken" => "taken" \in seen[r]
  /\ result[r] = "conflict" => job[r].email = Null \/ {"free", "taken"} \subseteq seen[r]
  /\ result[r] = "notfound" => "gone" \in seen[r]
  /\ result[r] = "ok" /\ job[r].email \in Emails => "own" \in seen[r]

TookInv(r) ==
  r \in took =>
    /\ job[r].kind = "update" =>
         /\ job[r].user \in users
         /\ job[r].email \in {Unset, mail[job[r].user]} \/ MailSetByOther(r)
         /\ job[r].name \in {Unset, name[job[r].user]} \/ NameSetByOther(r)
    /\ job[r].kind = "delete" => job[r].user \in deleted

RequestInv(r) ==
  /\ ControlInv(r) /\ WriteInv(r) /\ HeldInv(r)
  /\ SeenInv(r) /\ AnswerInv(r) /\ TookInv(r)

Inv == TypeOK /\ IndexInv /\ \A r \in Reqs : RequestInv(r)

=============================================================================
