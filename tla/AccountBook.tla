---------------------------- MODULE AccountBook -----------------------------
(***************************************************************************)
(* What registration, updates and deletion of accounts promise.            *)
(*                                                                         *)
(* A request has its whole effect in one step, or none.  An update works   *)
(* on the account as it read it: it changes the columns it is to give      *)
(* another value than it read, and those alone, whatever has become of     *)
(* them and of the other columns since.                                    *)
(***************************************************************************)
EXTENDS Integers

CONSTANTS
  Reqs, Jobs, NoJob,
  InitCard,    (* the accounts there are at the beginning                  *)
  Unset, Null

VARIABLES
  card,        (* email and name of each account, deleted or not           *)
  deleted,
  served,      (* the progress of each request                             *)
  asked,       (* what it was sent for, while it is served                 *)
  read         (* the account it is about, as it read it                   *)

vars == <<card, deleted, served, asked, read>>

Unread == [mail |-> Unset, name |-> Unset]

Free(e, u) == \A i \in DOMAIN card \ {u} : card[i].mail # e

(* Ids are never used twice.                                               *)
NewIds == DOMAIN card' \ DOMAIN card

Receive(r, j) ==
  /\ served[r] = "waiting"
  /\ served' = [served EXCEPT ![r] = "serving"]
  /\ asked' = [asked EXCEPT ![r] = j]
  /\ \/ j.kind = "register" /\ UNCHANGED read
     \/ /\ j.kind # "register"
        /\ j.user \in DOMAIN card \ deleted
        /\ read' = [read EXCEPT ![r] = card[j.user]]
  /\ UNCHANGED <<card, deleted>>

ReadAgain(r) ==
  /\ served[r] = "serving"
  /\ asked[r].kind = "update"
  /\ read' = [read EXCEPT ![r] = card[asked[r].user]]
  /\ UNCHANGED <<card, deleted, served, asked>>

End(r, outcome) ==
  /\ served' = [served EXCEPT ![r] = outcome]
  /\ asked' = [asked EXCEPT ![r] = NoJob]
  /\ read' = [read EXCEPT ![r] = Unread]

Succeed(r, k) == served[r] = "serving" /\ asked[r].kind = k /\ End(r, "ok")

(* One more account, whose email nobody has.                               *)
Register(r) ==
  /\ Succeed(r, "register")
  /\ \E n \in NewIds :
       /\ Free(asked[r].email, n)
       /\ card' = [i \in DOMAIN card \cup {n} |->
                     IF i = n THEN [mail |-> asked[r].email, name |-> asked[r].name] ELSE card[i]]
  /\ UNCHANGED deleted

Column(value, was, is) == IF value \in {Unset, was} THEN is ELSE value

Update(r) ==
  LET u == asked[r].user
      e == asked[r].email
  IN /\ Succeed(r, "update")
     /\ e \notin {Unset, read[r].mail} => e # Null /\ Free(e, u)
     /\ card' = [card EXCEPT ![u] =
          [mail |-> Column(e, read[r].mail, @.mail),
           name |-> Column(asked[r].name, read[r].name, @.name)]]
     /\ UNCHANGED deleted

(* A deleted account keeps its columns, and its email.                     *)
Delete(r) ==
  /\ Succeed(r, "delete")
  /\ deleted' = deleted \cup {asked[r].user}
  /\ UNCHANGED card

(* A request ends with an error and without a trace.                       *)
Refuse(r) ==
  /\ served[r] \in {"waiting", "serving"}
  /\ End(r, "refused")
  /\ UNCHANGED <<card, deleted>>

Init ==
  /\ card = InitCard
  /\ deleted = {}
  /\ served = [r \in Reqs |-> "waiting"]
  /\ asked = [r \in Reqs |-> NoJob]
  /\ read = [r \in Reqs |-> Unread]

Next ==
  \E r \in Reqs :
    \/ \E j \in Jobs : Receive(r, j)
    \/ ReadAgain(r) \/ Register(r) \/ Update(r) \/ Delete(r) \/ Refuse(r)

Spec == Init /\ [][Next]_vars

=============================================================================
