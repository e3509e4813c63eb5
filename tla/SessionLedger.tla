--------------------------- MODULE SessionLedger ----------------------------
(***************************************************************************)
(* What login, refresh, logout and soft deletion promise.                  *)
(*                                                                         *)
(* A request has its whole effect in one step, or none.  The step need not *)
(* be justified by the state it happens in, only by the state the request  *)
(* began in: this is as much as READ COMMITTED transactions without a      *)
(* locking read give.                                                      *)
(***************************************************************************)
EXTENDS Integers, Sequences

CONSTANTS
  Users, Reqs,
  MayDelete,  (* <<actor, target>> pairs                                    *)
  InitOwner   (* the holders of the tokens there are at the beginning      *)

VARIABLES
  holder,     (* the user each token was issued to                         *)
  live,       (* the tokens that a refresh would accept                    *)
  deleted,    (* the users who are deleted                                 *)
  served,     (* the progress of each request                              *)
  known,      (* what was live when the request began                      *)
  gone        (* who was deleted when the request began                    *)

vars == <<holder, live, deleted, served, known, gone>>

Of(u) == {t \in DOMAIN holder : holder[t] = u}

Present(r, u) == u \in Users \ gone[r]

(* Keys are never used twice.                                              *)
NewKeys == DOMAIN holder' \ DOMAIN holder

Hold(t, u) ==
  holder' = [k \in DOMAIN holder \cup {t} |-> IF k = t THEN u ELSE holder[k]]

Succeed(r) ==
  /\ served[r] = "serving"
  /\ served' = [served EXCEPT ![r] = "ok"]
  /\ UNCHANGED <<known, gone>>

Begin(r) ==
  /\ served[r] = "waiting"
  /\ served' = [served EXCEPT ![r] = "serving"]
  /\ known' = [known EXCEPT ![r] = live]
  /\ gone' = [gone EXCEPT ![r] = deleted]
  /\ UNCHANGED <<holder, live, deleted>>

(* Login: one more token, nothing else.                                    *)
Issue(r) ==
  /\ Succeed(r)
  /\ \E u \in Users, n \in NewKeys :
       /\ Present(r, u)
       /\ Hold(n, u)
       /\ live' = live \cup {n}
  /\ UNCHANGED deleted

(* Refresh: a token that was live is traded for another of its holder.     *)
Rotate(r) ==
  /\ Succeed(r)
  /\ \E t \in known[r], n \in NewKeys :
       /\ Present(r, holder[t])
       /\ Hold(n, holder[t])
       /\ live' = (live \ {t}) \cup {n}
  /\ UNCHANGED deleted

(* Tokens of u die, at least all those that were live.                     *)
Revoke(r, u) ==
  \E S \in SUBSET Of(u) :
    /\ known[r] \cap Of(u) \subseteq S
    /\ live' = live \ S

Logout(r) ==
  /\ Succeed(r)
  /\ \E u \in Users : Present(r, u) /\ Revoke(r, u)
  /\ UNCHANGED <<holder, deleted>>

Delete(r) ==
  /\ Succeed(r)
  /\ \E a, u \in Users :
       /\ Present(r, a) /\ Present(r, u) /\ <<a, u>> \in MayDelete
       /\ Revoke(r, u)
       /\ deleted' = deleted \cup {u}
  /\ UNCHANGED holder

(* Requests end with an error and without a trace.                         *)
Refuse(R) ==
  /\ \A r \in R : served[r] \in {"waiting", "serving"}
  /\ served' = [r \in Reqs |-> IF r \in R THEN "error" ELSE served[r]]
  /\ known' = [r \in Reqs |-> IF r \in R THEN {} ELSE known[r]]
  /\ gone' = [r \in Reqs |-> IF r \in R THEN {} ELSE gone[r]]
  /\ UNCHANGED <<holder, live, deleted>>

Lapse(t) ==
  /\ live' = live \ {t}
  /\ UNCHANGED <<holder, deleted, served, known, gone>>

Init ==
  /\ holder = InitOwner
  /\ live = DOMAIN InitOwner
  /\ deleted = {}
  /\ served = [r \in Reqs |-> "waiting"]
  /\ known = [r \in Reqs |-> {}]
  /\ gone = [r \in Reqs |-> {}]

Next ==
  \/ \E r \in Reqs : Begin(r) \/ Issue(r) \/ Rotate(r) \/ Logout(r) \/ Delete(r)
  \/ \E R \in SUBSET Reqs : Refuse(R)
  \/ \E t \in live : Lapse(t)

Spec == Init /\ [][Next]_vars

=============================================================================
