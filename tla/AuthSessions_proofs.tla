------------------------ MODULE AuthSessions_proofs -------------------------
(* Proofs about AuthSessions, for any users, requests and tokens.          *)
EXTENDS AuthSessions, FiniteSetTheorems, WellFoundedInduction, TLAPS

-----------------------------------------------------------------------------
(* Typing                                                                  *)

Typed == TypeOK /\ FreshRowsDistinct

(* One more key: the sequence of owners grows and keeps what it has.       *)
LEMMA OwnerGrows ==
  ASSUME owner \in Seq(Users), NEW u \in Users, owner' = Append(owner, u)
  PROVE  /\ owner' \in Seq(Users)
         /\ Len(owner') = Len(owner) + 1
         /\ Len(owner) \in Nat
         /\ \A t \in 1..Len(owner) : owner'[t] = owner[t]
         /\ owner'[Len(owner) + 1] = u
  OBVIOUS

LEMMA InitTyped == Init => Typed
BY SessionAssumption DEF Init, Typed, TypeOK, FreshRowsDistinct, Labels, Kinds, Outcomes, InFlight

(* Requests that fail leave every type as it was.                          *)
LEMMA FailTyped ==
  ASSUME Typed, NEW R \in SUBSET Reqs, Fail(R)
  PROVE  Typed'
BY DEF Typed, TypeOK, FreshRowsDistinct, Labels, Kinds, Outcomes, InFlight,
       Fail, Forget, Reset, tables

(* Receiving a request fills its record.                                   *)
LEMMA BeginTyped ==
  ASSUME Typed, NEW r \in Reqs, NEW k \in Kinds, NEW c \in Users, NEW s \in Users,
         NEW t \in rows \cup {0}, NEW l \in Labels \ {"idle", "done"},
         Begin(r, k, c, s, t, l)
  PROVE  Typed'
BY DEF Typed, TypeOK, FreshRowsDistinct, Labels, Kinds, Outcomes, InFlight,
       Begin, Become, tables, pending, Live

LEMMA TypedStep == Typed /\ [Next]_vars => Typed'
<1> SUFFICES ASSUME Typed, [Next]_vars PROVE Typed'
  OBVIOUS
<1> USE DEF Typed, TypeOK, FreshRowsDistinct, InFlight
<1>1. CASE UNCHANGED vars
  BY <1>1 DEF vars, tables, request, pending
<1>2. ASSUME NEW r \in Reqs, NEW u \in Users, LoginSelectUser(r, u) PROVE Typed'
  BY <1>2, FailTyped, BeginTyped DEF LoginSelectUser, Kinds, Labels
<1>3. ASSUME NEW r \in Reqs, NEW t \in rows, RefreshSelectToken(r, t) PROVE Typed'
  <2>1. owner[t] \in Users
    OBVIOUS
  <2>2. QED
    BY <1>3, <2>1, FailTyped, BeginTyped DEF RefreshSelectToken, Kinds, Labels
<1>4. ASSUME NEW r \in Reqs, RefreshSelectUser(r) PROVE Typed'
  <2>1. CASE Fail({r})
    BY <2>1, FailTyped
  <2>2. CASE Goto(r, "reselect") /\ UNCHANGED <<tables, request, pending>>
    BY <2>2, <1>4 DEF RefreshSelectUser, Goto, tables, request, pending, Labels
  <2>3. QED
    BY <1>4, <2>1, <2>2 DEF RefreshSelectUser
<1>5. ASSUME NEW r \in Reqs, RevokeSelectToken(r) PROVE Typed'
  <2>1. pc' \in [Reqs -> Labels] /\ UNCHANGED <<tables, request, marked, erased, fresh>>
    BY <1>5 DEF RevokeSelectToken, Goto, Labels
  <2>2. todo' \in [Reqs -> SUBSET rows]
    BY <1>5 DEF RevokeSelectToken, Usable
  <2> QED BY <1>5, <2>1, <2>2 DEF RevokeSelectToken, Goto, tables, request
<1>6. ASSUME NEW r \in Reqs, NEW u \in Users, LogoutAuthenticate(r, u) PROVE Typed'
  BY <1>6, FailTyped, BeginTyped DEF LogoutAuthenticate, Kinds, Labels
<1>7. ASSUME NEW r \in Reqs, NEW a \in Users, NEW u \in Users, DeleteAuthenticate(r, a, u)
      PROVE Typed'
  BY <1>7, FailTyped, BeginTyped DEF DeleteAuthenticate, Kinds, Labels
<1>8. ASSUME NEW r \in Reqs, DeleteSelectTarget(r) PROVE Typed'
  <2>1. CASE Fail({r})
    BY <2>1, FailTyped
  <2>2. CASE Goto(r, "lockUser") /\ UNCHANGED <<tables, request, pending>>
    BY <2>2, <1>8 DEF DeleteSelectTarget, Goto, tables, request, pending, Labels
  <2>3. QED
    BY <1>8, <2>1, <2>2 DEF DeleteSelectTarget
<1>9. ASSUME NEW r \in Reqs, DeleteUpdateUser(r) PROVE Typed'
  BY <1>9 DEF DeleteUpdateUser, Goto, tables, request, Labels
<1>10. ASSUME NEW r \in Reqs, SelectTokens(r) PROVE Typed'
  BY <1>10 DEF SelectTokens, Goto, tables, request, Labels, UnrevokedOf
<1>11. ASSUME NEW r \in Reqs, UpdateToken(r) PROVE Typed'
  BY <1>11 DEF UpdateToken, Goto, tables, request, Labels
<1>12. ASSUME NEW r \in Reqs, InsertToken(r) PROVE Typed'
  <2>1. subject[r] \in Users
    BY <1>12 DEF InsertToken
  <2>2. /\ owner' \in Seq(Users)
        /\ Len(owner') = Len(owner) + 1
        /\ Len(owner) \in Nat
    BY <1>12, <2>1, OwnerGrows DEF InsertToken
  <2>3. QED
    BY <1>12, <2>2 DEF InsertToken, Goto, request, Labels
<1>13. ASSUME NEW r \in Reqs, Commit(r) PROVE Typed'
  BY <1>13 DEF Commit, Forget, Reset, request, Labels, Outcomes
<1>14. ASSUME NEW r \in Reqs, Abort(r) PROVE Typed'
  BY <1>14, FailTyped DEF Abort
<1>15. CASE Crash
  BY <1>15, FailTyped DEF Crash
<1>16. ASSUME NEW t \in rows, Expire(t) PROVE Typed'
  BY <1>16 DEF Expire, request, pending
<1>17. QED
  BY <1>1, <1>2, <1>3, <1>4, <1>5, <1>6, <1>7, <1>8, <1>9, <1>10, <1>11, <1>12, <1>13,
     <1>14, <1>15, <1>16 DEF Next, Receive, Step, Quiet

(* The variables keep their types, no committed key is inserted again and  *)
(* answered requests hold nothing, for any number of users, requests and   *)
(* tokens.                                                                 *)
THEOREM TypeCorrect == Spec => []TypeOK
<1>1. Typed => TypeOK
  BY DEF Typed
<1>2. QED
  BY <1>1, InitTyped, TypedStep, PTL DEF Spec

-----------------------------------------------------------------------------
(* The inductive invariant                                                 *)

(* No step of another request touches what request q is and has done.      *)
Same(q) ==
  /\ pc'[q] = pc[q] /\ result'[q] = result[q]
  /\ kind'[q] = kind[q] /\ caller'[q] = caller[q] /\ subject'[q] = subject[q]
  /\ presented'[q] = presented[q]
  /\ todo'[q] = todo[q] /\ marked'[q] = marked[q] /\ erased'[q] = erased[q]
  /\ known'[q] = known[q] /\ gone'[q] = gone[q] /\ before'[q] = before[q]

(* The tables only ever gain, and a key keeps its owner.                   *)
TablesGrow ==
  /\ revoked \subseteq revoked' /\ expired \subseteq expired' /\ deleted \subseteq deleted'
  /\ \A t \in rows : owner'[t] = owner[t]

(* Requests that took effect are history.                                  *)
Settled == \A q \in Reqs : Took(q) => Same(q)

(* What a request saw when it began stays marked by what was over then.    *)
LEMMA HistoryFrame ==
  ASSUME Inv, TablesGrow, Settled, NEW q \in Reqs,
         known'[q] = known[q], gone'[q] = gone[q], before'[q] = before[q]
  PROVE  HistoryInv(q)'
<1> USE DEF Inv, TypeOK, RequestInv, TablesGrow
<1> SUFFICES ASSUME NEW p \in before[q]
             PROVE  /\ Took(p)'
                    /\ Rotated(p)' => presented'[p] \notin known'[q]
                    /\ Closed(p)' =>
                         \A t \in known'[p] : owner'[t] = subject'[p] => t \notin known'[q]
                    /\ kind'[p] = "delete" => subject'[p] \in gone'[q]
  BY DEF HistoryInv
<1>1. p \in Reqs /\ Took(p) /\ Same(p)
  BY DEF HistoryInv, Settled
<1>2. \A t \in known[p] : owner'[t] = owner[t]
  BY <1>1
<1>3. QED
  BY <1>1, <1>2 DEF HistoryInv, Took, Rotated, Closed, Same

(* Hence the invariant of a request survives the steps of the others.      *)
LEMMA Frame ==
  ASSUME Inv, TablesGrow, Settled, NEW q \in Reqs, Same(q)
  PROVE  RequestInv(q)'
<1> USE DEF Inv, TypeOK, RequestInv, TablesGrow, Same
<1>1. Control(q)'
  BY DEF Control
<1>2. RefreshInv(q)'
  <2> SUFFICES ASSUME kind[q] = "refresh" PROVE RefreshInv(q)'
    BY DEF RefreshInv
  <2>1. presented[q] \in known[q] /\ RefreshInv(q)
    BY DEF RefreshInv
  <2>2. owner'[presented[q]] = owner[presented[q]]
    BY <2>1
  <2>3. presented[q] \in marked[q] \cup revoked \cup expired =>
          presented[q] \in marked'[q] \cup revoked' \cup expired'
    OBVIOUS
  <2>4. QED
    BY <2>1, <2>2, <2>3 DEF RefreshInv
<1>3. CloseInv(q)'
  <2> SUFFICES ASSUME kind[q] \in {"logout", "delete"} PROVE CloseInv(q)'
    BY DEF CloseInv
  <2>1. \A t \in known[q] : owner'[t] = owner[t]
    OBVIOUS
  <2>2. \A t \in todo[q] \cup marked[q] \cup revoked : t \in todo'[q] \cup marked'[q] \cup revoked'
    OBVIOUS
  <2>3. deleted \subseteq deleted' /\ CloseInv(q)
    OBVIOUS
  <2> QED BY <2>1, <2>2, <2>3 DEF CloseInv
<1>4. PresenceInv(q)'
  BY DEF PresenceInv
<1>5. HistoryInv(q)'
  BY HistoryFrame
<1>6. QED
  BY <1>1, <1>2, <1>3, <1>4, <1>5 DEF RequestInv

(* A failed request has nothing left to say.                               *)
LEMMA FailInv ==
  ASSUME Inv, NEW R \in SUBSET Reqs, \A r \in R : ~Took(r), Fail(R), NEW q \in Reqs
  PROVE  RequestInv(q)'
<1> USE DEF Inv, TypeOK, Fail, Forget, Reset, tables
<1>1. TablesGrow
  BY DEF TablesGrow
<1>2. Settled
  BY DEF Settled, Same
<1>3. CASE q \in R
  BY <1>3 DEF RequestInv, Control, RefreshInv, CloseInv, PresenceInv, HistoryInv
<1>4. CASE q \notin R
  <2>1. Same(q)
    BY <1>4 DEF Same
  <2>2. QED
    BY <1>1, <1>2, <2>1, Frame
<1>5. QED
  BY <1>3, <1>4

(* A request that begins sees every effect of what is already over.        *)
LEMMA BeginInv ==
  ASSUME Inv, NEW r \in Reqs, NEW k \in Kinds, NEW c \in Users, NEW s \in Users,
         NEW t \in rows \cup {0}, NEW l \in Labels, NEW q \in Reqs,
         Begin(r, k, c, s, t, l),
         \/ k = "login" /\ c = s /\ l = "insert" /\ c \notin deleted
         \/ k = "refresh" /\ c = s /\ s = owner[t] /\ l = "checkUser" /\ Usable(t) /\ t \in rows
         \/ k = "logout" /\ c = s /\ l = "select" /\ c \notin deleted
         \/ k = "delete" /\ l = "findTarget" /\ c \notin deleted
  PROVE  RequestInv(q)'
<1> USE DEF Inv, TypeOK, Begin, Become, tables, pending
<1>1. TablesGrow
  BY DEF TablesGrow
<1>2. result[r] = "none"
  BY DEF RequestInv, Control, Outcomes
<1>3. Settled
  BY <1>2 DEF Settled, Same, Took
<1>4. CASE q # r
  <2>1. Same(q)
    BY <1>4 DEF Same
  <2>2. QED
    BY <1>1, <1>3, <2>1, Frame
<1>5. CASE q = r
  <2>1. Control(r)'
    BY <1>2 DEF Control
  <2>2. RefreshInv(r)'
    BY DEF RefreshInv, Live
  <2>3. CloseInv(r)'
    BY DEF CloseInv
  <2>4. PresenceInv(r)'
    BY DEF PresenceInv
  <2>5. HistoryInv(r)'
    <3> SUFFICES ASSUME NEW p \in Reqs, Took(p)
                 PROVE  /\ Took(p)'
                        /\ Rotated(p) => ~Usable(presented[p])
                        /\ Closed(p) => \A x \in known[p] : owner[x] = subject[p] => ~Usable(x)
                        /\ kind[p] = "delete" => subject[p] \in deleted
      BY <1>2, <1>3 DEF HistoryInv, Settled, Same, Rotated, Closed, Live, Took
    <3>1. RequestInv(p) /\ pc[p] = "done" /\ Same(p) /\ marked[p] = {} /\ todo[p] = {}
      BY <1>3 DEF Settled, RequestInv, Control, Took
    <3>2. QED
      BY <3>1 DEF RequestInv, RefreshInv, CloseInv, Rotated, Closed, Took, Usable, Same
  <2>6. QED
    BY <1>5, <2>1, <2>2, <2>3, <2>4, <2>5 DEF RequestInv
<1>6. QED
  BY <1>4, <1>5

(* A step of request r that keeps its identity is justified by the four    *)
(* parts of r's invariant that look at its progress.                       *)
OnlyMoves(r) ==
  /\ \A q \in Reqs \ {r} : Same(q)
  /\ UNCHANGED request

LEMMA MoveInv ==
  ASSUME Inv, NEW r \in Reqs, pc[r] \notin {"idle", "done"}, OnlyMoves(r), TablesGrow,
         Control(r)', RefreshInv(r)', CloseInv(r)', PresenceInv(r)'
  PROVE  \A q \in Reqs : RequestInv(q)'
<1>1. result[r] = "none"
  BY DEF Inv, TypeOK, RequestInv, Control, Outcomes
<1>2. Settled
  BY <1>1 DEF Settled, OnlyMoves, Took
<1>3. HistoryInv(r)'
  BY <1>2, HistoryFrame DEF OnlyMoves, request
<1>4. RequestInv(r)'
  BY <1>3 DEF RequestInv
<1>5. ASSUME NEW q \in Reqs \ {r} PROVE RequestInv(q)'
  BY <1>2, <1>5, Frame DEF OnlyMoves
<1>6. QED
  BY <1>4, <1>5

(* The row of the token is dirty, or already dead.                         *)
LEMMA RevokeSelectTokenInv ==
  ASSUME Inv, NEW r \in Reqs, RevokeSelectToken(r)
  PROVE  \A q \in Reqs : RequestInv(q)'
<1> USE DEF Inv, TypeOK
<1>0. RequestInv(r) /\ pc[r] \notin {"idle", "done"}
  BY DEF RevokeSelectToken
<1>1. OnlyMoves(r) /\ TablesGrow
  BY DEF RevokeSelectToken, OnlyMoves, Same, TablesGrow, Goto, tables, request, pending
<1>2. Control(r)'
  BY <1>0 DEF RequestInv, Control, RevokeSelectToken, Goto, Outcomes, request
<1>3. RefreshInv(r)'
  BY <1>0 DEF RequestInv, Control, RefreshInv, RevokeSelectToken, Goto, tables, request, pending, Usable
<1>4. CloseInv(r)'
  BY <1>0 DEF RequestInv, Control, CloseInv, RevokeSelectToken, Goto, tables, request, pending
<1>5. PresenceInv(r)'
  BY <1>0 DEF RequestInv, Control, PresenceInv, RevokeSelectToken, Goto, tables, request, pending
<1>6. QED
  BY <1>0, <1>1, <1>2, <1>3, <1>4, <1>5, MoveInv

(* The users row is locked.                                                *)
LEMMA DeleteUpdateUserInv ==
  ASSUME Inv, NEW r \in Reqs, DeleteUpdateUser(r)
  PROVE  \A q \in Reqs : RequestInv(q)'
<1> USE DEF Inv, TypeOK
<1>0. RequestInv(r) /\ pc[r] \notin {"idle", "done"}
  BY DEF DeleteUpdateUser
<1>1. OnlyMoves(r) /\ TablesGrow
  BY DEF DeleteUpdateUser, OnlyMoves, Same, TablesGrow, Goto, tables, request, pending
<1>2. Control(r)'
  BY <1>0 DEF RequestInv, Control, DeleteUpdateUser, Goto, Outcomes, request
<1>3. RefreshInv(r)'
  BY <1>0 DEF RequestInv, Control, RefreshInv, DeleteUpdateUser, Goto, tables, request, pending
<1>4. CloseInv(r)'
  BY <1>0 DEF RequestInv, Control, CloseInv, DeleteUpdateUser, Goto, tables, request, pending
<1>5. PresenceInv(r)'
  BY <1>0 DEF RequestInv, Control, PresenceInv, DeleteUpdateUser, Goto, tables, request, pending
<1>6. QED
  BY <1>0, <1>1, <1>2, <1>3, <1>4, <1>5, MoveInv

(* Every token usable at the beginning is selected unless revoked since.   *)
LEMMA SelectTokensInv ==
  ASSUME Inv, NEW r \in Reqs, SelectTokens(r)
  PROVE  \A q \in Reqs : RequestInv(q)'
<1> USE DEF Inv, TypeOK
<1>0. RequestInv(r) /\ pc[r] \notin {"idle", "done"}
  BY DEF SelectTokens
<1>1. OnlyMoves(r) /\ TablesGrow
  BY DEF SelectTokens, OnlyMoves, Same, TablesGrow, Goto, tables, request, pending
<1>2. Control(r)'
  BY <1>0 DEF RequestInv, Control, SelectTokens, Goto, Outcomes, request
<1>3. RefreshInv(r)'
  BY <1>0 DEF RequestInv, Control, RefreshInv, SelectTokens, Goto, tables, request, pending
<1>4. CloseInv(r)'
  BY <1>0 DEF RequestInv, Control, CloseInv, SelectTokens, Goto, tables, request, pending, UnrevokedOf
<1>5. PresenceInv(r)'
  BY <1>0 DEF RequestInv, Control, PresenceInv, SelectTokens, Goto, tables, request, pending
<1>6. QED
  BY <1>0, <1>1, <1>2, <1>3, <1>4, <1>5, MoveInv

(* A dirty row becomes a locked one.                                       *)
LEMMA UpdateTokenInv ==
  ASSUME Inv, NEW r \in Reqs, UpdateToken(r)
  PROVE  \A q \in Reqs : RequestInv(q)'
<1> USE DEF Inv, TypeOK
<1>0. RequestInv(r) /\ pc[r] \notin {"idle", "done"}
  BY DEF UpdateToken
<1>1. OnlyMoves(r) /\ TablesGrow
  BY DEF UpdateToken, OnlyMoves, Same, TablesGrow, Goto, tables, request, pending
<1>2. Control(r)'
  BY <1>0 DEF RequestInv, Control, UpdateToken, Goto, Outcomes, request
<1>3. RefreshInv(r)'
  BY <1>0 DEF RequestInv, Control, RefreshInv, UpdateToken, Goto, tables, request, pending
<1>4. CloseInv(r)'
  BY <1>0 DEF RequestInv, Control, CloseInv, UpdateToken, Goto, tables, request, pending
<1>5. PresenceInv(r)'
  BY <1>0 DEF RequestInv, Control, PresenceInv, UpdateToken, Goto, tables, request, pending
<1>6. QED
  BY <1>0, <1>1, <1>2, <1>3, <1>4, <1>5, MoveInv

(* Marks become revocations, the erased user is deleted.                   *)
LEMMA CommitInv ==
  ASSUME Inv, NEW r \in Reqs, Commit(r)
  PROVE  \A q \in Reqs : RequestInv(q)'
<1> USE DEF Inv, TypeOK
<1>0. RequestInv(r) /\ pc[r] \notin {"idle", "done"}
  BY DEF Commit
<1>1. OnlyMoves(r) /\ TablesGrow
  BY DEF Commit, OnlyMoves, Same, TablesGrow, Goto, tables, request, pending, Forget, Reset
<1>2. Control(r)'
  BY <1>0 DEF RequestInv, Control, Commit, Goto, Outcomes, request, Forget, Reset
<1>3. RefreshInv(r)'
  <2>1. RefreshInv(r) /\ Control(r) /\ pc[r] = "commit" /\ presented[r] \in rows \cup {0}
    BY <1>0 DEF RequestInv, Commit
  <2>2. pc'[r] = "done" /\ UNCHANGED <<kind, caller, subject, presented, known, owner, expired>>
        /\ revoked' = revoked \cup marked[r]
    BY DEF Commit, Goto, tables, request, pending, Forget, Reset
  <2> QED BY <2>1, <2>2 DEF RefreshInv
<1>4. CloseInv(r)'
  BY <1>0 DEF RequestInv, Control, CloseInv, Commit, Goto, tables, request, pending, Forget, Reset
<1>5. PresenceInv(r)'
  BY <1>0 DEF RequestInv, Control, PresenceInv, Commit, Goto, tables, request, pending, Forget, Reset
<1>6. QED
  BY <1>0, <1>1, <1>2, <1>3, <1>4, <1>5, MoveInv

(* A key that is drawn changes no owner.                                   *)
LEMMA InsertTokenInv ==
  ASSUME Inv, NEW r \in Reqs, InsertToken(r)
  PROVE  \A q \in Reqs : RequestInv(q)'
<1> USE DEF Inv, TypeOK
<1>0. RequestInv(r) /\ pc[r] \notin {"idle", "done"} /\ subject[r] \in Users
  BY DEF InsertToken, InFlight
<1>1. \A t \in rows : owner'[t] = owner[t]
  BY <1>0, OwnerGrows DEF InsertToken
<1>2. OnlyMoves(r) /\ TablesGrow
  BY <1>1 DEF InsertToken, OnlyMoves, Same, TablesGrow, Goto, request
<1>3. Control(r)'
  BY <1>0 DEF RequestInv, Control, InsertToken, Goto, Outcomes, request
<1>4. RefreshInv(r)'
  <2>1. RefreshInv(r) /\ Control(r) /\ pc[r] = "insert" /\ known[r] \subseteq rows
    BY <1>0 DEF RequestInv, InsertToken
  <2>2. pc'[r] = "commit" /\ UNCHANGED <<kind, caller, subject, presented, known, marked, revoked, expired>>
    BY DEF InsertToken, Goto, request
  <2>3. kind[r] = "refresh" => owner'[presented[r]] = owner[presented[r]]
    BY <1>1, <2>1 DEF RefreshInv
  <2> QED BY <2>1, <2>2, <2>3 DEF RefreshInv
<1>5. CloseInv(r)'
  BY <1>0 DEF RequestInv, Control, CloseInv, InsertToken, Goto, request
<1>6. PresenceInv(r)'
  BY <1>0 DEF RequestInv, Control, PresenceInv, InsertToken, Goto, request
<1>7. QED
  BY <1>0, <1>2, <1>3, <1>4, <1>5, <1>6, MoveInv

(* The user row that was read decides.                                     *)
LEMMA RefreshSelectUserInv ==
  ASSUME Inv, NEW r \in Reqs, RefreshSelectUser(r)
  PROVE  \A q \in Reqs : RequestInv(q)'
<1> USE DEF Inv, TypeOK
<1>0. RequestInv(r) /\ pc[r] \notin {"idle", "done"} /\ ~Took(r)
  BY DEF RefreshSelectUser, RequestInv, Control, Took
<1>1. CASE Fail({r})
  BY <1>0, <1>1, FailInv
<1>2. CASE /\ subject[r] \notin deleted
           /\ Goto(r, "reselect")
           /\ UNCHANGED <<tables, request, pending>>
  <2>1. OnlyMoves(r) /\ TablesGrow
    BY <1>2 DEF OnlyMoves, Same, TablesGrow, Goto, tables, request, pending
  <2>2. Control(r)'
    BY <1>0, <1>2 DEF RequestInv, Control, RefreshSelectUser, Goto, request
  <2>3. RefreshInv(r)'
    BY <1>0, <1>2 DEF RequestInv, Control, RefreshInv, Goto, tables, request, pending
  <2>4. CloseInv(r)'
    BY <1>0, <1>2 DEF RequestInv, Control, CloseInv, Goto, tables, request, pending
  <2>5. PresenceInv(r)'
    BY <1>0, <1>2 DEF RequestInv, Control, PresenceInv, Goto, tables, request, pending
  <2>6. QED
    BY <1>0, <2>1, <2>2, <2>3, <2>4, <2>5, MoveInv
<1>3. QED
  BY <1>1, <1>2 DEF RefreshSelectUser, Available

(* The user row that was read decides.                                     *)
LEMMA DeleteSelectTargetInv ==
  ASSUME Inv, NEW r \in Reqs, DeleteSelectTarget(r)
  PROVE  \A q \in Reqs : RequestInv(q)'
<1> USE DEF Inv, TypeOK
<1>0. RequestInv(r) /\ pc[r] \notin {"idle", "done"} /\ ~Took(r)
  BY DEF DeleteSelectTarget, RequestInv, Control, Took
<1>1. CASE Fail({r})
  BY <1>0, <1>1, FailInv
<1>2. CASE /\ subject[r] \notin deleted
           /\ Goto(r, "lockUser")
           /\ UNCHANGED <<tables, request, pending>>
  <2>1. OnlyMoves(r) /\ TablesGrow
    BY <1>2 DEF OnlyMoves, Same, TablesGrow, Goto, tables, request, pending
  <2>2. Control(r)'
    BY <1>0, <1>2 DEF RequestInv, Control, DeleteSelectTarget, Goto, request
  <2>3. RefreshInv(r)'
    BY <1>0, <1>2 DEF RequestInv, Control, RefreshInv, Goto, tables, request, pending
  <2>4. CloseInv(r)'
    BY <1>0, <1>2 DEF RequestInv, Control, CloseInv, Goto, tables, request, pending
  <2>5. PresenceInv(r)'
    BY <1>0, <1>2 DEF RequestInv, Control, PresenceInv, Goto, tables, request, pending
  <2>6. QED
    BY <1>0, <2>1, <2>2, <2>3, <2>4, <2>5, MoveInv
<1>3. QED
  BY <1>1, <1>2 DEF DeleteSelectTarget, Deletable

LEMMA InitInv == Init => Inv
<1> SUFFICES ASSUME Init PROVE Inv
  OBVIOUS
<1>1. Typed
  BY InitTyped
<1>2. ASSUME NEW r \in Reqs PROVE RequestInv(r)
  BY DEF Init, RequestInv, Control, RefreshInv, CloseInv, PresenceInv, HistoryInv
<1>3. QED
  BY <1>1, <1>2 DEF Inv, Typed

LEMMA InvStep == Inv /\ [Next]_vars => Inv'
<1> SUFFICES ASSUME Inv, [Next]_vars PROVE Inv'
  OBVIOUS
<1>1. Typed'
  BY TypedStep DEF Inv, Typed
<1>2. \A r \in Reqs : pc[r] # "done" => ~Took(r)
  BY DEF Inv, RequestInv, Control, Took
<1>3. \A q \in Reqs : RequestInv(q)'
  <2>1. CASE UNCHANGED vars
    <3>1. TablesGrow /\ Settled /\ \A q \in Reqs : Same(q)
      BY <2>1 DEF vars, tables, request, pending, TablesGrow, Settled, Same
    <3>2. QED
      BY <3>1, Frame
  <2>2. ASSUME NEW r \in Reqs, NEW u \in Users, LoginSelectUser(r, u) \/ LogoutAuthenticate(r, u)
        PROVE  \A q \in Reqs : RequestInv(q)'
    BY <1>2, <2>2, FailInv, BeginInv
       DEF LoginSelectUser, LogoutAuthenticate, Available, Kinds, Labels
  <2>3. ASSUME NEW r \in Reqs, NEW t \in rows, RefreshSelectToken(r, t)
        PROVE  \A q \in Reqs : RequestInv(q)'
    <3>1. owner[t] \in Users
      BY DEF Inv, TypeOK
    <3>2. QED
      BY <1>2, <2>3, <3>1, FailInv, BeginInv DEF RefreshSelectToken, Kinds, Labels
  <2>4. ASSUME NEW r \in Reqs, NEW a \in Users, NEW u \in Users, DeleteAuthenticate(r, a, u)
        PROVE  \A q \in Reqs : RequestInv(q)'
    BY <1>2, <2>4, FailInv, BeginInv DEF DeleteAuthenticate, Available, Kinds, Labels
  <2>5. ASSUME NEW r \in Reqs, Step(r)
        PROVE  \A q \in Reqs : RequestInv(q)'
    BY <2>5, RefreshSelectUserInv, RevokeSelectTokenInv, DeleteSelectTargetInv,
       DeleteUpdateUserInv, SelectTokensInv, UpdateTokenInv, InsertTokenInv, CommitInv DEF Step
  <2>6. ASSUME NEW r \in Reqs, Abort(r)
        PROVE  \A q \in Reqs : RequestInv(q)'
    BY <1>2, <2>6, FailInv DEF Abort, InFlight
  <2>7. CASE Crash
    BY <1>2, <2>7, FailInv DEF Crash, InFlight
  <2>8. ASSUME NEW t \in rows, Expire(t)
        PROVE  \A q \in Reqs : RequestInv(q)'
    <3>1. TablesGrow /\ Settled /\ \A q \in Reqs : Same(q)
      BY <2>8 DEF Expire, request, pending, TablesGrow, Settled, Same
    <3>2. QED
      BY <3>1, Frame
  <2>9. QED
    BY <2>1, <2>2, <2>3, <2>4, <2>5, <2>6, <2>7, <2>8 DEF Next, Receive, Quiet
<1>4. QED
  BY <1>1, <1>3 DEF Inv, Typed

(* The inductive invariant holds for any number of racing requests.        *)
THEOREM Invariance == Spec => []Inv
BY InitInv, InvStep, PTL DEF Spec

-----------------------------------------------------------------------------
(* What follows from it                                                    *)

(* A successful refresh leaves its token dead, though revoke_token may     *)
(* have found nothing to revoke.                                           *)
THEOREM RotationSpends == Spec => []RotationSpendsToken
<1>1. Inv => RotationSpendsToken
  <2> SUFFICES ASSUME Inv, NEW r \in Reqs, Rotated(r) PROVE ~Usable(presented[r])
    BY DEF RotationSpendsToken
  <2>1. pc[r] = "done" /\ marked[r] = {} /\ RefreshInv(r)
    BY DEF Inv, TypeOK, RequestInv, Control, Rotated, Took
  <2>2. QED
    BY <2>1 DEF RefreshInv, Rotated, Usable
<1>2. QED
  BY <1>1, Invariance, PTL

(* A token is traded twice only by refreshes that overlap in time.         *)
THEOREM NoReplay == Spec => []RotationsOverlap
<1>1. Inv => RotationsOverlap
  BY DEF Inv, RequestInv, RefreshInv, HistoryInv, RotationsOverlap, Rotated
<1>2. QED
  BY <1>1, Invariance, PTL

(* A finished logout or deletion has ended the sessions it found.          *)
THEOREM SessionsEnd == Spec => []LogoutEndsSessions
<1>1. Inv => LogoutEndsSessions
  <2> SUFFICES ASSUME Inv, NEW l \in Reqs, NEW r \in Reqs, Closed(l), Rotated(r),
                      subject[l] = subject[r], l \in before[r], presented[r] \in known[l]
               PROVE  FALSE
    BY DEF LogoutEndsSessions
  <2>1. presented[r] \in known[r] /\ owner[presented[r]] = subject[l]
    BY DEF Inv, RequestInv, RefreshInv, Rotated
  <2>2. QED
    BY <2>1 DEF Inv, RequestInv, HistoryInv
<1>2. QED
  BY <1>1, Invariance, PTL

(* Nothing succeeds for a user whose deletion was over before it began.    *)
THEOREM DeletedStayOut == Spec => []DeletedUserInert
<1>1. Inv => DeletedUserInert
  <2> SUFFICES ASSUME Inv, NEW d \in Reqs, NEW r \in Reqs, kind[d] = "delete", d \in before[r],
                      Took(r)
               PROVE  subject[d] \notin {caller[r], subject[r]}
    BY DEF DeletedUserInert
  <2>1. subject[d] \in gone[r]
    BY DEF Inv, RequestInv, HistoryInv
  <2>2. pc[r] = "done"
    BY DEF Inv, RequestInv, Control, Took
  <2>3. subject[r] \notin gone[r]
    BY <2>2 DEF Inv, RequestInv, PresenceInv
  <2>4. caller[r] \notin gone[r]
    <3>1. kind[r] \in {"login", "refresh", "logout", "delete"}
      BY <2>2 DEF Inv, TypeOK, Kinds, RequestInv, Control, Took
    <3>2. QED
      BY <2>3, <3>1 DEF Inv, RequestInv, PresenceInv, RefreshInv
  <2>5. QED
    BY <2>1, <2>3, <2>4
<1>2. QED
  BY <1>1, Invariance, PTL

-----------------------------------------------------------------------------
(* The order of locks                                                      *)

(* Where a request can hold locks; and while it waits for a token it holds *)
(* only tokens with smaller keys, which is why circles cannot close.       *)
LockInv(r) ==
  /\ marked[r] # {} => pc[r] \in {"update", "insert", "commit"}
  /\ erased[r] # {} => kind[r] = "delete" /\ pc[r] \in {"select", "update", "commit"}
  /\ pc[r] = "update" => \A s \in marked[r], t \in todo[r] : s < t

OrderInv == Inv /\ \A r \in Reqs : LockInv(r)

LEMMA OrderInvInit == Init => OrderInv
BY InitInv DEF OrderInv, LockInv, Init

(* A request that does not move keeps its locks.                           *)
LEMMA LockFrame ==
  ASSUME OrderInv, NEW q \in Reqs, pc'[q] = pc[q], kind'[q] = kind[q],
         todo'[q] = todo[q], marked'[q] = marked[q], erased'[q] = erased[q]
  PROVE  LockInv(q)'
BY DEF OrderInv, LockInv

LEMMA LockFail ==
  ASSUME OrderInv, NEW R \in SUBSET Reqs, Fail(R), NEW q \in Reqs
  PROVE  LockInv(q)'
<1>1. CASE q \in R
  BY <1>1 DEF Fail, Forget, Reset, LockInv
<1>2. CASE q \notin R
  BY <1>2, LockFrame DEF Fail, Forget, Reset
<1> QED BY <1>1, <1>2

LEMMA LockBegin ==
  ASSUME OrderInv, NEW r \in Reqs, NEW k, NEW c, NEW s, NEW t, NEW l,
         Begin(r, k, c, s, t, l), NEW q \in Reqs
  PROVE  LockInv(q)'
<1>1. pc[r] = "idle" /\ todo[r] = {} /\ marked[r] = {} /\ erased[r] = {} /\ UNCHANGED pending
  BY DEF OrderInv, Inv, TypeOK, Begin
<1>2. CASE q = r
  BY <1>1, <1>2 DEF LockInv, pending
<1>3. CASE q # r
  BY <1>1, <1>3, LockFrame DEF OrderInv, Inv, TypeOK, Begin, Become, pending
<1> QED BY <1>2, <1>3

(* The next row a flush updates has the smallest key of those left.        *)
LEMMA LockUpdateToken ==
  ASSUME OrderInv, NEW r \in Reqs, UpdateToken(r)
  PROVE  LockInv(r)'
<1> USE DEF OrderInv, Inv, TypeOK
<1>1. PICK t \in todo[r] : /\ NextDirtyRow(r, t)
                          /\ todo' = [todo EXCEPT ![r] = @ \ {t}]
                          /\ marked' = [marked EXCEPT ![r] = @ \cup {t}]
                          /\ Goto(r, IF todo[r] # {t} THEN "update"
                                     ELSE IF kind[r] = "refresh" THEN "insert" ELSE "commit")
  BY DEF UpdateToken
<1>2. pc[r] = "update" /\ LockInv(r) /\ UNCHANGED <<kind, erased>>
  BY DEF UpdateToken, request
<1>3. pc'[r] = IF todo[r] # {t} THEN "update"
               ELSE IF kind[r] = "refresh" THEN "insert" ELSE "commit"
  BY <1>1 DEF Goto
<1>4. todo'[r] = todo[r] \ {t} /\ marked'[r] = marked[r] \cup {t}
  BY <1>1
<1>5. ASSUME NEW s \in marked'[r], NEW u \in todo'[r] PROVE s < u
  <2>1. todo[r] \subseteq rows /\ rows \subseteq 1..Len(owner)
    OBVIOUS
  <2>2. t \in Nat /\ u \in Nat /\ u \in todo[r] /\ u # t
    <3> HIDE DEF OrderInv, Inv, TypeOK
    <3>1. u \in todo[r] /\ u # t
      BY <1>4, <1>5
    <3>2. 1..Len(owner) \subseteq Nat
      OBVIOUS
    <3> QED BY <2>1, <3>1, <3>2
  <2>3. CASE s \in marked[r]
    BY <1>2, <2>2, <2>3 DEF LockInv
  <2>4. CASE s = t
    BY <1>1, <2>2, <2>4 DEF NextDirtyRow
  <2> QED BY <1>4, <1>5, <2>3, <2>4
<1>6. erased'[r] # {} => kind'[r] = "delete" /\ pc'[r] \in {"update", "commit"}
  BY <1>2, <1>3 DEF LockInv
<1> QED BY <1>3, <1>5, <1>6 DEF LockInv

LEMMA LockStep ==
  ASSUME OrderInv, NEW r \in Reqs, Step(r), NEW q \in Reqs
  PROVE  LockInv(q)'
<1> USE DEF OrderInv, Inv, TypeOK, Goto, tables, request, pending
<1>1. LockInv(r) /\ RequestInv(r)
  OBVIOUS
<1>2. CASE RefreshSelectUser(r) \/ DeleteSelectTarget(r)
  <2>1. CASE Fail({r})
    BY <2>1, LockFail
  <2>2. CASE pc[r] \in {"checkUser", "findTarget"} /\ UNCHANGED <<request, pending>>
             /\ pc' = [pc EXCEPT ![r] = IF pc[r] = "checkUser" THEN "reselect" ELSE "lockUser"]
    <3>1. CASE q = r
      BY <1>1, <2>2, <3>1 DEF LockInv
    <3>2. CASE q # r
      BY <2>2, <3>2, LockFrame
    <3> QED BY <3>1, <3>2
  <2> QED BY <1>2, <2>1, <2>2 DEF RefreshSelectUser, DeleteSelectTarget
<1>3. CASE RevokeSelectToken(r) \/ SelectTokens(r)
  <2>1. pc[r] \in {"reselect", "select"} /\ UNCHANGED <<request, marked, erased>>
    BY <1>3 DEF RevokeSelectToken, SelectTokens
  <2>2. CASE q = r
    <3>1. marked'[r] = {}
      BY <1>1, <2>1 DEF LockInv
    <3>2. erased'[r] # {} => kind'[r] = "delete" /\ pc'[r] \in {"update", "commit"}
      BY <1>1, <1>3, <2>1 DEF LockInv, RevokeSelectToken, SelectTokens
    <3> QED BY <2>2, <3>1, <3>2 DEF LockInv
  <2>3. CASE q # r
    BY <1>3, <2>1, <2>3, LockFrame DEF RevokeSelectToken, SelectTokens
  <2> QED BY <2>2, <2>3
<1>4. CASE DeleteUpdateUser(r)
  <2>1. CASE q = r
    BY <1>1, <1>4, <2>1 DEF DeleteUpdateUser, LockInv, RequestInv, Control
  <2>2. CASE q # r
    BY <1>4, <2>2, LockFrame DEF DeleteUpdateUser
  <2> QED BY <2>1, <2>2
<1>5. CASE UpdateToken(r)
  <2>1. CASE q # r
    BY <1>5, <2>1, LockFrame DEF UpdateToken
  <2> QED BY <1>5, <2>1, LockUpdateToken
<1>6. CASE InsertToken(r)
  <2>1. CASE q = r
    BY <1>1, <1>6, <2>1 DEF InsertToken, LockInv
  <2>2. CASE q # r
    BY <1>6, <2>2, LockFrame DEF InsertToken
  <2> QED BY <2>1, <2>2
<1>7. CASE Commit(r)
  <2>1. CASE q = r
    BY <1>7, <2>1 DEF Commit, Forget, Reset, LockInv
  <2>2. CASE q # r
    BY <1>7, <2>2, LockFrame DEF Commit, Forget, Reset
  <2> QED BY <2>1, <2>2
<1> QED BY <1>2, <1>3, <1>4, <1>5, <1>6, <1>7 DEF Step

LEMMA OrderInvStep == OrderInv /\ [Next]_vars => OrderInv'
<1> SUFFICES ASSUME OrderInv, [Next]_vars PROVE OrderInv'
  OBVIOUS
<1>1. Inv'
  BY InvStep DEF OrderInv
<1>2. ASSUME NEW q \in Reqs PROVE LockInv(q)'
  <2>1. ASSUME NEW r \in Reqs, Receive(r) PROVE LockInv(q)'
    BY <2>1, LockFail, LockBegin DEF Receive, LoginSelectUser, LogoutAuthenticate,
       RefreshSelectToken, DeleteAuthenticate
  <2>2. ASSUME NEW r \in Reqs, Step(r) \/ Abort(r) PROVE LockInv(q)'
    BY <2>2, LockStep, LockFail DEF Abort
  <2>3. CASE Crash
    BY <2>3, LockFail DEF Crash, InFlight
  <2>4. ASSUME NEW t \in rows, Expire(t) PROVE LockInv(q)'
    BY <2>4, LockFrame DEF Expire, request, pending
  <2>5. CASE UNCHANGED vars
    BY <2>5, LockFrame DEF vars, request, pending
  <2> QED BY <2>1, <2>2, <2>3, <2>4, <2>5 DEF Next, Quiet
<1> QED BY <1>1, <1>2 DEF OrderInv

(* A set of keys in use has a largest: the smallest of the sets k..n.      *)
LEMMA LargestKey ==
  ASSUME NEW n \in Nat, NEW K \in SUBSET (1..n), K # {}
  PROVE  \E k \in K : \A l \in K : l <= k
<1> DEFINE C == {k..n : k \in K}
           Below == StrictSubsetOrdering(1..n)
<1>1. IsWellFoundedOn(Below, SUBSET (1..n))
  <2>1. IsFiniteSet(1..n)
    BY FS_Interval
  <2> QED BY <2>1, FS_StrictSubsetOrderingWellFounded, FS_FiniteSubsetsOfFinite
<1>2. C # {} /\ C \subseteq SUBSET (1..n)
  <2>1. ASSUME NEW k \in K PROVE k..n \subseteq 1..n
    OBVIOUS
  <2> QED BY <2>1
<1>3. PICK S \in C : \A T \in C : <<T, S>> \notin Below
  <2> HIDE DEF C, Below
  <2> QED BY <1>1, <1>2, WFMin
<1>4. PICK k \in K : S = k..n
  OBVIOUS
<1>5. ASSUME NEW l \in K PROVE l <= k
  <2> SUFFICES ASSUME k < l PROVE FALSE
    OBVIOUS
  <2>1. l..n \in C /\ l..n \subseteq S /\ k \in S /\ k \notin l..n
    BY <1>4
  <2>2. <<l..n, S>> \in Below
    BY <1>2, <2>1 DEF StrictSubsetOrdering
  <2> QED BY <1>3, <2>1, <2>2
<1> QED BY <1>5

(* Who holds the user that a deletion waits for is past all such waits;    *)
(* who holds a token and waits, waits for one with a larger key; and keys  *)
(* do not grow for ever.  So no requests wait for each other, however many *)
(* there are and however many tokens they revoke.                          *)
THEOREM LocksAreOrdered == Spec => []NoDeadlock
<1>1. OrderInv => NoDeadlock
  <2> SUFFICES ASSUME OrderInv, NEW S \in SUBSET InFlight, S # {},
                      \A r \in S : WaitsFor(r) \cap S # {}
               PROVE  FALSE
    BY DEF NoDeadlock
  <2> DEFINE Waits(r, t) == pc[r] = "update" /\ t \in todo[r] /\ NextDirtyRow(r, t)
                           /\ \E q \in S : t \in marked[q]
             K == {t \in rows : \E r \in S : Waits(r, t)}
  <2>1. TypeOK /\ S \subseteq Reqs /\ \A r \in Reqs : LockInv(r)
    BY DEF OrderInv, Inv, InFlight
  <2>2. ASSUME NEW r \in S
        PROVE  \E q \in S : \/ pc[r] = "lockUser" /\ erased[q] # {}
                           \/ \E t \in todo[r] : Waits(r, t)
    BY <2>2 DEF WaitsFor
  <2>3. ASSUME NEW r \in S, pc[r] # "lockUser" PROVE \E t \in K : Waits(r, t)
    <3>1. PICK t \in todo[r] : Waits(r, t)
      BY <2>2, <2>3
    <3>2. t \in rows
      BY <2>1 DEF TypeOK
    <3> QED BY <3>1, <3>2
  <2>4. K # {}
    <3>1. PICK r \in S : TRUE
      OBVIOUS
    <3>2. CASE pc[r] = "lockUser"
      <4>1. PICK q \in S : erased[q] # {}
        BY <2>2, <3>2
      <4>2. pc[q] # "lockUser"
        BY <2>1, <4>1 DEF LockInv
      <4> QED BY <2>3, <4>2
    <3> QED BY <2>3, <3>2
  <2>5. Len(owner) \in Nat /\ K \in SUBSET (1..Len(owner))
    <3>1. owner \in Seq(Users) /\ rows \subseteq 1..Len(owner)
      BY <2>1 DEF TypeOK
    <3>2. K \subseteq rows
      OBVIOUS
    <3> HIDE DEF K
    <3> QED BY <3>1, <3>2
  <2>6. PICK k \in K : \A l \in K : l <= k
    <3> HIDE DEF K
    <3> QED BY <2>4, <2>5, LargestKey
  <2>7. PICK q \in S : k \in marked[q]
    OBVIOUS
  <2>8. pc[q] # "lockUser"
    BY <2>1, <2>7 DEF LockInv
  <2>9. PICK l \in K : Waits(q, l)
    BY <2>3, <2>8
  <2>10. k < l
    BY <2>1, <2>7, <2>9 DEF LockInv
  <2>11. k \in Nat /\ l \in Nat
    BY <2>5
  <2> QED BY <2>6, <2>9, <2>10, <2>11
<1> QED BY <1>1, OrderInvInit, OrderInvStep, PTL DEF Spec

-----------------------------------------------------------------------------
(* What a request has written                                              *)

(* Invariance says what a request has revoked at least; that it takes      *)
(* effect as one step of the ledger needs also that it wrote no more.      *)
WriteInv(r) ==
  r \in InFlight =>
    /\ fresh[r] = {} \/ (pc[r] = "commit" /\ kind[r] \in {"login", "refresh"})
    /\ pc[r] = "commit" /\ kind[r] \in {"login", "refresh"} =>
         \E n \in fresh[r] : fresh[r] = {n} /\ owner[n] = subject[r]
    /\ kind[r] = "login" => todo[r] \cup marked[r] = {}
    /\ kind[r] = "refresh" => todo[r] \cup marked[r] \subseteq {presented[r]}
    /\ kind[r] \in {"logout", "delete"} => \A t \in todo[r] \cup marked[r] : owner[t] = subject[r]
    /\ erased[r] = {} \/ kind[r] = "delete"
    /\ erased[r] \subseteq {subject[r]}
    /\ kind[r] = "delete" /\ pc[r] # "findTarget" => <<caller[r], subject[r]>> \in MayDelete

LedgerInv == Inv /\ \A r \in Reqs : WriteInv(r)

LEMMA LedgerInvInit == Init => LedgerInv
BY InitInv DEF LedgerInv, WriteInv, InFlight, Init

(* The writes of a request that does not move are what they were.          *)
LEMMA WriteFrame ==
  ASSUME LedgerInv, NEW q \in Reqs, WriteInv(q),
         \A t \in 1..Len(owner) : owner'[t] = owner[t],
         pc'[q] = pc[q], kind'[q] = kind[q], caller'[q] = caller[q], subject'[q] = subject[q],
         presented'[q] = presented[q], todo'[q] = todo[q], marked'[q] = marked[q],
         erased'[q] = erased[q], fresh'[q] = fresh[q]
  PROVE  WriteInv(q)'
<1>1. /\ fresh[q] \subseteq 1..Len(owner)
      /\ todo[q] \subseteq 1..Len(owner) /\ marked[q] \subseteq 1..Len(owner)
  BY DEF LedgerInv, Inv, TypeOK
<1> QED BY <1>1 DEF WriteInv, InFlight

LEMMA WriteFail ==
  ASSUME LedgerInv, NEW R \in SUBSET Reqs, Fail(R), NEW q \in Reqs
  PROVE  WriteInv(q)'
<1>1. CASE q \in R
  BY <1>1 DEF Fail, Reset, WriteInv, InFlight
<1>2. CASE q \notin R
  BY <1>2, WriteFrame DEF LedgerInv, Fail, Forget, Reset, tables
<1> QED BY <1>1, <1>2

LEMMA WriteBegin ==
  ASSUME LedgerInv, NEW r \in Reqs, NEW k \in Kinds, NEW c, NEW s, NEW t, NEW l \in Labels,
         Begin(r, k, c, s, t, l), l # "commit", k = "delete" => l = "findTarget",
         NEW q \in Reqs
  PROVE  WriteInv(q)'
<1>1. CASE q = r
  <2>1. pc[r] = "idle" /\ todo[r] = {} /\ marked[r] = {} /\ erased[r] = {} /\ fresh[r] = {}
    BY DEF LedgerInv, Inv, TypeOK, Begin
  <2>2. pc'[r] = l /\ kind'[r] = k /\ UNCHANGED pending
    BY DEF LedgerInv, Inv, TypeOK, Begin, Become
  <2>3. todo'[r] = {} /\ marked'[r] = {} /\ erased'[r] = {} /\ fresh'[r] = {}
    BY <2>1, <2>2 DEF pending
  <2>4. ~(pc'[r] = "commit") /\ (kind'[r] = "delete" => pc'[r] = "findTarget")
    BY <2>2
  <2> QED BY <1>1, <2>3, <2>4 DEF WriteInv
<1>2. CASE q # r
  BY <1>2, WriteFrame DEF LedgerInv, Inv, TypeOK, Begin, Become, pending, tables
<1> QED BY <1>1, <1>2

LEMMA WriteReceive ==
  ASSUME LedgerInv, NEW r \in Reqs, Receive(r), NEW q \in Reqs
  PROVE  WriteInv(q)'
<1>1. CASE Fail({r})
  BY <1>1, WriteFail
<1>2. ASSUME NEW u \in Users, LoginSelectUser(r, u) \/ LogoutAuthenticate(r, u) PROVE WriteInv(q)'
  BY <1>1, <1>2, WriteBegin DEF LoginSelectUser, LogoutAuthenticate, Kinds, Labels
<1>3. ASSUME NEW t \in rows, RefreshSelectToken(r, t) PROVE WriteInv(q)'
  BY <1>1, <1>3, WriteBegin DEF RefreshSelectToken, Kinds, Labels
<1>4. ASSUME NEW a \in Users, NEW u \in Users, DeleteAuthenticate(r, a, u) PROVE WriteInv(q)'
  BY <1>1, <1>4, WriteBegin DEF DeleteAuthenticate, Kinds, Labels
<1> QED BY <1>2, <1>3, <1>4 DEF Receive

LEMMA WriteInsert ==
  ASSUME LedgerInv, NEW r \in Reqs, InsertToken(r), NEW q \in Reqs
  PROVE  WriteInv(q)'
<1> USE DEF LedgerInv, Inv, TypeOK
<1>1. pc[r] = "insert" /\ r \in InFlight /\ RequestInv(r) /\ WriteInv(r) /\ subject[r] \in Users
  BY DEF InsertToken, InFlight
<1>2. owner' = Append(owner, subject[r])
  BY DEF InsertToken
<1>3. owner'[Len(owner) + 1] = subject[r] /\ \A t \in 1..Len(owner) : owner'[t] = owner[t]
  BY <1>1, <1>2, OwnerGrows
<1>4. CASE q = r
  <2>1. Control(r) /\ pc'[r] = "commit" /\ fresh'[r] = {Len(owner) + 1}
    BY <1>1 DEF InsertToken, Goto, RequestInv
  <2>2. UNCHANGED <<kind, caller, subject, presented, todo, marked, erased>>
    BY DEF InsertToken, request
  <2>3. \A t \in todo[r] \cup marked[r] : owner'[t] = owner[t]
    BY <1>3
  <2> QED BY <1>1, <1>3, <1>4, <2>1, <2>2, <2>3 DEF WriteInv, InFlight, Control
<1>5. CASE q # r
  BY <1>3, <1>5, WriteFrame DEF InsertToken, Goto, request
<1> QED BY <1>4, <1>5

LEMMA WriteStep ==
  ASSUME LedgerInv, NEW r \in Reqs, Step(r), NEW q \in Reqs
  PROVE  WriteInv(q)'
<1> USE DEF LedgerInv, Inv, TypeOK, Goto, tables, request, pending
<1>1. WriteInv(r) /\ RequestInv(r)
  OBVIOUS
<1>2. CASE RefreshSelectUser(r)
  <2>1. CASE Fail({r})
    BY <2>1, WriteFail
  <2>2. CASE pc' = [pc EXCEPT ![r] = "reselect"] /\ UNCHANGED <<tables, request, pending>>
    <3>1. CASE q = r
      BY <1>1, <1>2, <2>2, <3>1 DEF RefreshSelectUser, WriteInv, InFlight, RequestInv, Control
    <3>2. CASE q # r
      BY <2>2, <3>2, WriteFrame
    <3> QED BY <3>1, <3>2
  <2> QED BY <1>2, <2>1, <2>2 DEF RefreshSelectUser
<1>3. CASE RevokeSelectToken(r)
  <2>1. CASE q = r
    <3>1. kind[r] = "refresh" /\ r \in InFlight /\ pc[r] = "reselect" /\ marked[r] = marked'[r]
          /\ pc'[r] \in {"update", "insert"} /\ UNCHANGED <<tables, request, marked, erased, fresh>>
      BY <1>1, <1>3 DEF RevokeSelectToken, InFlight, RequestInv, Control
    <3>2. todo'[r] \subseteq {presented[r]}
      BY <1>1, <1>3, <3>1 DEF RevokeSelectToken, WriteInv
    <3> QED BY <1>1, <2>1, <3>1, <3>2 DEF WriteInv
  <2>2. CASE q # r
    BY <1>3, <2>2, WriteFrame DEF RevokeSelectToken
  <2> QED BY <2>1, <2>2
<1>4. CASE DeleteSelectTarget(r)
  <2>1. CASE Fail({r})
    BY <2>1, WriteFail
  <2>2. CASE /\ <<caller[r], subject[r]>> \in MayDelete
             /\ pc' = [pc EXCEPT ![r] = "lockUser"] /\ UNCHANGED <<tables, request, pending>>
    <3>1. CASE q = r
      BY <1>1, <1>4, <2>2, <3>1 DEF DeleteSelectTarget, WriteInv, InFlight, RequestInv, Control
    <3>2. CASE q # r
      BY <2>2, <3>2, WriteFrame
    <3> QED BY <3>1, <3>2
  <2> QED BY <1>4, <2>1, <2>2 DEF DeleteSelectTarget, Deletable
<1>5. CASE DeleteUpdateUser(r)
  <2>1. CASE q = r
    <3>1. kind[r] = "delete" /\ r \in InFlight /\ pc[r] = "lockUser" /\ erased'[r] = {subject[r]}
          /\ pc'[r] = "select" /\ UNCHANGED <<tables, request, todo, marked, fresh>>
      BY <1>1, <1>5 DEF DeleteUpdateUser, InFlight, RequestInv, Control
    <3> QED BY <1>1, <2>1, <3>1 DEF WriteInv
  <2>2. CASE q # r
    BY <1>5, <2>2, WriteFrame DEF DeleteUpdateUser
  <2> QED BY <2>1, <2>2
<1>6. CASE SelectTokens(r)
  <2>1. CASE q = r
    <3>1. /\ kind[r] \in {"logout", "delete"} /\ r \in InFlight /\ pc[r] = "select"
          /\ todo'[r] = UnrevokedOf(subject[r]) /\ UNCHANGED <<tables, request, marked, erased, fresh>>
      BY <1>1, <1>6 DEF SelectTokens, InFlight, RequestInv, Control
    <3>2. \A t \in todo'[r] : owner[t] = subject[r]
      BY <3>1 DEF UnrevokedOf
    <3> QED BY <1>1, <2>1, <3>1, <3>2 DEF WriteInv
  <2>2. CASE q # r
    BY <1>6, <2>2, WriteFrame DEF SelectTokens
  <2> QED BY <2>1, <2>2
<1>7. CASE UpdateToken(r)
  <2>1. CASE q = r
    <3>1. PICK t \in todo[r] : todo' = [todo EXCEPT ![r] = @ \ {t}] /\ marked' = [marked EXCEPT ![r] = @ \cup {t}]
      BY <1>7 DEF UpdateToken
    <3>2. todo'[r] \cup marked'[r] = todo[r] \cup marked[r]
      BY <3>1
    <3>3. r \in InFlight /\ pc[r] = "update" /\ kind[r] \in {"refresh", "logout", "delete"}
          /\ pc'[r] \in {"update", IF kind[r] = "refresh" THEN "insert" ELSE "commit"}
          /\ UNCHANGED <<tables, request, erased, fresh>>
      BY <1>1, <1>7 DEF UpdateToken, InFlight, RequestInv, Control
    <3> QED BY <1>1, <2>1, <3>2, <3>3 DEF WriteInv
  <2>2. CASE q # r
    BY <1>7, <2>2, WriteFrame DEF UpdateToken
  <2> QED BY <2>1, <2>2
<1>8. CASE InsertToken(r)
  BY <1>8, WriteInsert
<1>9. CASE Commit(r)
  <2>1. CASE q = r
    BY <1>9, <2>1 DEF Commit, WriteInv, InFlight
  <2>2. CASE q # r
    BY <1>9, <2>2, WriteFrame DEF Commit, Forget, Reset
  <2> QED BY <2>1, <2>2
<1> QED BY <1>2, <1>3, <1>4, <1>5, <1>6, <1>7, <1>8, <1>9 DEF Step

LEMMA LedgerInvStep == LedgerInv /\ [Next]_vars => LedgerInv'
<1> SUFFICES ASSUME LedgerInv, [Next]_vars PROVE LedgerInv'
  OBVIOUS
<1>1. Inv'
  BY InvStep DEF LedgerInv
<1>2. ASSUME NEW q \in Reqs PROVE WriteInv(q)'
  <2>1. ASSUME NEW r \in Reqs, Receive(r) \/ Step(r) \/ Abort(r) PROVE WriteInv(q)'
    BY <2>1, WriteReceive, WriteStep, WriteFail DEF Abort
  <2>2. CASE Crash
    BY <2>2, WriteFail DEF Crash, InFlight
  <2>3. ASSUME NEW t \in rows, Expire(t) PROVE WriteInv(q)'
    BY <2>3, WriteFrame DEF LedgerInv, Expire, request, pending
  <2>4. CASE UNCHANGED vars
    BY <2>4, WriteFrame DEF LedgerInv, vars, tables, request, pending
  <2> QED BY <2>1, <2>2, <2>3, <2>4 DEF Next, Quiet
<1> QED BY <1>1, <1>2 DEF LedgerInv

-----------------------------------------------------------------------------
(* The refinement                                                          *)

LEMMA InitRefines == Init => Ledger!Init
<1> SUFFICES ASSUME Init PROVE Ledger!Init
  OBVIOUS
<1>1. [t \in rows |-> owner[t]] = InitOwner
  BY SessionAssumption DEF Init
<1>2. Live = DOMAIN InitOwner
  <2>1. DOMAIN InitOwner = 1..Len(InitOwner)
    BY SessionAssumption
  <2> QED BY <2>1 DEF Init, Live, Usable
<1>3. [r \in Reqs |-> Progress(r)] = [r \in Reqs |-> "waiting"]
  BY DEF Init, Progress
<1> QED BY <1>1, <1>2, <1>3 DEF Init, Ledger!Init

(* What the ledger sees of a step that changes none of its tables.         *)
LEMMA Unseen ==
  ASSUME Inv, UNCHANGED <<rows, revoked, expired, deleted>>,
         \A t \in rows : owner'[t] = owner[t]
  PROVE  /\ [t \in rows |-> owner[t]]' = [t \in rows |-> owner[t]]
         /\ Live' = Live
BY DEF Live, Usable

(* Requests that fail are refused.                                         *)
LEMMA FailRefines ==
  ASSUME Inv, NEW R \in SUBSET Reqs, \A r \in R : pc[r] # "done", Fail(R)
  PROVE  Ledger!Next
<1>1. [t \in rows |-> owner[t]]' = [t \in rows |-> owner[t]] /\ Live' = Live /\ deleted' = deleted
  BY Unseen DEF Fail, tables
<1>2. \A r \in R : Progress(r) \in {"waiting", "serving"}
  BY DEF Progress
<1>3. \A r \in Reqs : Progress(r)' = IF r \in R THEN "error" ELSE Progress(r)
  BY DEF Progress, Fail, Reset
<1>4. Ledger!Refuse(R)
  BY <1>1, <1>2, <1>3 DEF Ledger!Refuse, Fail, Reset
<1> QED BY <1>4 DEF Ledger!Next

(* A request that is received begins.                                      *)
LEMMA BeginRefines ==
  ASSUME Inv, NEW r \in Reqs, NEW k, NEW c, NEW s, NEW t,
         NEW l \in Labels \ {"idle", "done"}, Begin(r, k, c, s, t, l)
  PROVE  Ledger!Next
<1>1. [x \in rows |-> owner[x]]' = [x \in rows |-> owner[x]] /\ Live' = Live /\ deleted' = deleted
  BY Unseen DEF Begin, tables
<1>2. Progress(r) = "waiting"
  BY DEF Progress, Begin
<1>3. \A q \in Reqs : Progress(q)' = IF q = r THEN "serving" ELSE Progress(q)
  BY DEF Progress, Begin, Inv, TypeOK
<1>4. Ledger!Begin(r)
  BY <1>1, <1>2, <1>3 DEF Ledger!Begin, Begin, Inv, TypeOK
<1> QED BY <1>4 DEF Ledger!Next

LEMMA ReceiveRefines ==
  ASSUME Inv, NEW r \in Reqs, Receive(r)
  PROVE  Ledger!Next
<1>1. pc[r] = "idle"
  BY DEF Receive, LoginSelectUser, LogoutAuthenticate, RefreshSelectToken, DeleteAuthenticate, Begin
<1> QED BY <1>1, FailRefines, BeginRefines
        DEF Receive, LoginSelectUser, LogoutAuthenticate, RefreshSelectToken, DeleteAuthenticate,
            Labels

(* Statements before the commit are no step of the ledger.                 *)
LEMMA MoveRefines ==
  ASSUME Inv, NEW r \in Reqs, pc[r] \notin {"idle", "done"},
         NEW l \in Labels \ {"idle", "done"}, pc' = [pc EXCEPT ![r] = l],
         UNCHANGED <<rows, revoked, expired, deleted, result, request>>,
         \A t \in rows : owner'[t] = owner[t]
  PROVE  UNCHANGED Ledger!vars
<1>1. [x \in rows |-> owner[x]]' = [x \in rows |-> owner[x]] /\ Live' = Live
  BY Unseen
<1>2. \A q \in Reqs : Progress(q)' = Progress(q)
  BY DEF Progress, Inv, TypeOK
<1> QED BY <1>1, <1>2 DEF Ledger!vars, request

(* The commit is the step of the ledger: all of the request, at once.      *)
LEMMA CommitRefines ==
  ASSUME LedgerInv, NEW r \in Reqs, Commit(r)
  PROVE  Ledger!Next
<1> USE DEF LedgerInv, Inv, TypeOK
<1>1. /\ pc[r] = "commit" /\ r \in InFlight /\ kind[r] \in {"login", "refresh", "logout", "delete"}
      /\ RequestInv(r) /\ WriteInv(r) /\ subject[r] \in Users /\ caller[r] \in Users
  BY DEF Commit, InFlight, RequestInv, Control, Kinds
<1>2. /\ rows' = rows \cup fresh[r] /\ revoked' = revoked \cup marked[r]
      /\ deleted' = deleted \cup erased[r] /\ UNCHANGED <<owner, expired, request>>
  BY DEF Commit
<1>3. /\ Progress(r) = "serving"
      /\ \A q \in Reqs : Progress(q)' = IF q = r THEN "ok" ELSE Progress(q)
  BY DEF Commit, Progress
<1>4. Ledger!Succeed(r)
  BY <1>3, <1>2 DEF Ledger!Succeed, request
<1>5. subject[r] \notin gone[r] /\ gone[r] \subseteq Users
  BY <1>1 DEF RequestInv, PresenceInv
<1>6. Live' = (rows \cup fresh[r]) \ (revoked \cup marked[r] \cup expired)
  BY <1>2 DEF Live, Usable
<1>7. CASE kind[r] \in {"login", "refresh"}
  <2>1. PICK n \in fresh[r] : fresh[r] = {n} /\ owner[n] = subject[r]
    BY <1>1, <1>7 DEF WriteInv
  <2>2. n \notin rows /\ rows' = rows \cup {n} /\ deleted' = deleted
    BY <1>1, <1>2, <1>7, <2>1 DEF WriteInv
  <2> DEFINE held == [x \in rows |-> owner[x]]
             grown == [k \in DOMAIN held \cup {n} |-> IF k = n THEN subject[r] ELSE held[k]]
  <2>3. n \in DOMAIN held' \ DOMAIN held
    BY <2>2
  <2>4. held' = grown
    BY <1>2, <2>1, <2>2
  <2>6. CASE kind[r] = "login"
    <3>1. Live' = Live \cup {n}
      BY <1>1, <1>6, <2>1, <2>2, <2>6 DEF WriteInv, Live, Usable
    <3>2. /\ subject[r] \in Users \ gone[r] /\ n \in DOMAIN held' \ DOMAIN held
          /\ held' = grown /\ Live' = Live \cup {n}
      BY <1>1, <1>5, <2>3, <2>4, <3>1
    <3>3. Ledger!Issue(r)
      BY <1>4, <2>2, <3>2 DEF Ledger!Issue, Ledger!Present, Ledger!NewKeys, Ledger!Hold
    <3> QED BY <3>3 DEF Ledger!Next
  <2>7. CASE kind[r] = "refresh"
    <3>1. /\ presented[r] \in known[r] /\ presented[r] \in rows
          /\ owner[presented[r]] = subject[r]
          /\ presented[r] \in marked[r] \cup revoked \cup expired
      BY <1>1, <2>7 DEF RequestInv, RefreshInv
    <3>2. marked[r] \subseteq {presented[r]}
      BY <1>1, <2>7 DEF WriteInv
    <3>3. Live' = (Live \ {presented[r]}) \cup {n}
      BY <1>6, <2>1, <2>2, <3>1, <3>2 DEF Live, Usable
    <3>4. held[presented[r]] = subject[r]
      BY <3>1
    <3>5. \E t \in known[r] :
            /\ held[t] \in Users \ gone[r]
            /\ held' = [k \in DOMAIN held \cup {n} |-> IF k = n THEN held[t] ELSE held[k]]
            /\ Live' = (Live \ {t}) \cup {n}
      <4>1. held' = [k \in DOMAIN held \cup {n} |->
                       IF k = n THEN held[presented[r]] ELSE held[k]]
        BY <2>4, <3>4
      <4>2. presented[r] \in known[r] /\ held[presented[r]] \in Users \ gone[r]
        BY <1>1, <1>5, <3>1, <3>4
      <4> HIDE DEF held, LedgerInv, Inv, TypeOK
      <4> QED BY <3>3, <4>1, <4>2
    <3>6. Ledger!Rotate(r)
      <4> HIDE DEF LedgerInv, Inv, TypeOK
      <4> QED BY <1>4, <2>2, <2>3, <3>5
              DEF Ledger!Rotate, Ledger!Present, Ledger!NewKeys, Ledger!Hold
    <3> QED BY <3>6 DEF Ledger!Next
  <2> QED BY <1>7, <2>6, <2>7
<1>8. CASE kind[r] \in {"logout", "delete"}
  <2>1. fresh[r] = {} /\ todo[r] = {} /\ \A t \in marked[r] : owner[t] = subject[r]
    BY <1>1, <1>8 DEF WriteInv, RequestInv, CloseInv
  <2>2. rows' = rows /\ [x \in rows |-> owner[x]]' = [x \in rows |-> owner[x]]
    BY <1>2, <2>1
  <2> DEFINE S == {t \in rows : owner[t] = subject[r] /\ t \in revoked \cup marked[r]}
  <2>3. Ledger!Of(subject[r]) = {t \in rows : owner[t] = subject[r]}
    BY DEF Ledger!Of
  <2>4. known[r] \cap Ledger!Of(subject[r]) \subseteq S
    BY <1>1, <1>8, <2>1, <2>3 DEF RequestInv, CloseInv
  <2>5. Live' = Live \ S
    BY <1>6, <2>1 DEF Live, Usable
  <2>6. Ledger!Revoke(r, subject[r])
    BY <2>3, <2>4, <2>5 DEF Ledger!Revoke
  <2>7. CASE kind[r] = "logout"
    <3>1. deleted' = deleted
      BY <1>1, <1>2, <2>7 DEF WriteInv
    <3>2. Ledger!Logout(r)
      BY <1>1, <1>4, <1>5, <2>2, <2>6, <3>1 DEF Ledger!Logout, Ledger!Present
    <3> QED BY <3>2 DEF Ledger!Next
  <2>8. CASE kind[r] = "delete"
    <3>1. deleted' = deleted \cup {subject[r]}
      BY <1>1, <1>2, <2>8 DEF WriteInv, RequestInv, CloseInv
    <3>2. caller[r] \notin gone[r] /\ <<caller[r], subject[r]>> \in MayDelete
      BY <1>1, <2>8 DEF WriteInv, RequestInv, PresenceInv
    <3>3. Ledger!Delete(r)
      BY <1>1, <1>4, <1>5, <2>2, <2>6, <3>1, <3>2 DEF Ledger!Delete, Ledger!Present
    <3> QED BY <3>3 DEF Ledger!Next
  <2> QED BY <1>8, <2>7, <2>8
<1> QED BY <1>1, <1>7, <1>8

LEMMA StepRefines ==
  ASSUME LedgerInv, NEW r \in Reqs, Step(r)
  PROVE  [Ledger!Next]_(Ledger!vars)
<1> USE DEF LedgerInv, Goto, Labels
<1>1. CASE RefreshSelectUser(r)
  BY <1>1, FailRefines, MoveRefines DEF RefreshSelectUser, tables
<1>2. CASE RevokeSelectToken(r)
  BY <1>2, MoveRefines DEF RevokeSelectToken, tables
<1>3. CASE DeleteSelectTarget(r)
  BY <1>3, FailRefines, MoveRefines DEF DeleteSelectTarget, tables
<1>4. CASE DeleteUpdateUser(r)
  BY <1>4, MoveRefines DEF DeleteUpdateUser, tables
<1>5. CASE SelectTokens(r)
  BY <1>5, MoveRefines DEF SelectTokens, tables
<1>6. CASE UpdateToken(r)
  BY <1>6, MoveRefines DEF UpdateToken, tables
<1>7. CASE InsertToken(r)
  <2>1. subject[r] \in Users /\ owner' = Append(owner, subject[r])
    BY <1>7 DEF Inv, TypeOK, InsertToken, InFlight
  <2>2. \A t \in rows : owner'[t] = owner[t]
    BY <2>1, OwnerGrows DEF Inv, TypeOK
  <2> QED BY <1>7, <2>2, MoveRefines DEF InsertToken
<1>8. CASE Commit(r)
  BY <1>8, CommitRefines
<1> QED BY <1>1, <1>2, <1>3, <1>4, <1>5, <1>6, <1>7, <1>8 DEF Step

LEMMA NextRefines == LedgerInv /\ [Next]_vars => [Ledger!Next]_(Ledger!vars)
<1> SUFFICES ASSUME LedgerInv, [Next]_vars PROVE [Ledger!Next]_(Ledger!vars)
  OBVIOUS
<1> USE DEF LedgerInv
<1>1. ASSUME NEW r \in Reqs, Receive(r) \/ Step(r) \/ Abort(r)
      PROVE  [Ledger!Next]_(Ledger!vars)
  BY <1>1, ReceiveRefines, StepRefines, FailRefines DEF Abort, InFlight
<1>2. CASE Crash
  BY <1>2, FailRefines DEF Crash, InFlight
<1>3. ASSUME NEW t \in rows, Expire(t) PROVE [Ledger!Next]_(Ledger!vars)
  <2>1. /\ [x \in rows |-> owner[x]]' = [x \in rows |-> owner[x]] /\ Live' = Live \ {t}
        /\ UNCHANGED <<deleted, known, gone>> /\ \A q \in Reqs : Progress(q)' = Progress(q)
    BY <1>3 DEF Expire, request, Live, Usable, Progress
  <2>2. CASE t \in Live
    BY <2>1, <2>2 DEF Ledger!Next, Ledger!Lapse
  <2>3. CASE t \notin Live
    BY <2>1, <2>3 DEF Ledger!vars
  <2> QED BY <2>2, <2>3
<1>4. CASE UNCHANGED vars
  <2>1. /\ [x \in rows |-> owner[x]]' = [x \in rows |-> owner[x]] /\ Live' = Live
        /\ UNCHANGED <<deleted, known, gone>> /\ \A q \in Reqs : Progress(q)' = Progress(q)
    BY <1>4 DEF vars, tables, request, Live, Usable, Progress
  <2> QED BY <2>1 DEF Ledger!vars
<1> QED BY <1>1, <1>2, <1>3, <1>4 DEF Next, Quiet

(* Statement by statement, with crashes, failures and expiry at any of     *)
(* them, the handlers keep the promise of the ledger: each request takes   *)
(* effect as a whole when it commits, or not at all.                       *)
THEOREM LedgerKept == Spec => ImplementsLedger
<1>1. LedgerInv /\ [Next]_vars => [Ledger!Next]_(Ledger!vars)
  BY NextRefines
<1> QED BY <1>1, InitRefines, LedgerInvInit, LedgerInvStep, PTL
        DEF Spec, ImplementsLedger, Ledger!Spec

=============================================================================
