----------------------------- MODULE MCAccounts -----------------------------
(* Accounts on small instances.                                            *)
EXTENDS Accounts, TLC

CONSTANTS a, b, c, n, m

(* Two accounts; registrations draw the ids from 3 on, and other requests  *)
(* may name 3.                                                             *)
MCInitMail == <<a, b>>

Register(e) == [kind |-> "register", user |-> 0, email |-> e, name |-> n]
Patch(u, e, w) == [kind |-> "update", user |-> u, email |-> e, name |-> w]
Delete(u) == [kind |-> "delete", user |-> u, email |-> Unset, name |-> Unset]

(* Emails that are taken, given up and free; a change of one column, of    *)
(* the other, of both, of none.                                            *)
MCJobs ==
  { Register(c), Register(a), Delete(1), Delete(3) } \cup
  { Patch(1, e, Unset) : e \in {a, b, c, Null} } \cup
  { Patch(1, Unset, m), Patch(1, Unset, n), Patch(1, c, m), Patch(2, a, Unset),
    Patch(2, c, m), Patch(3, Unset, m) }

ReqSymmetry == Permutations(Reqs)

=============================================================================
