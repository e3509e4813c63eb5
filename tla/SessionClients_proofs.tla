------------------------ MODULE SessionClients_proofs ------------------------
(* Proofs about SessionClients, for any devices, users and requests.       *)
EXTENDS SessionClients, AuthSessions_proofs, FiniteSetTheorems

-----------------------------------------------------------------------------
(* The inductive invariant                                                 *)

(* The request a device waits for is one it has made for its user, or has  *)
(* failed.                                                                 *)
Fits(c) ==
  asks[c] # NoReq =>
    /\ pc[asks[c]] # "idle"
    /\ kind[asks[c]] # "none" => kind[asks[c]] = wants[c] /\ subject[asks[c]] = UserOf[c]

(* The answer of a login or refresh carries the token it has inserted.     *)
Carries(r) ==
  kind[r] \in {"login", "refresh"} =>
    /\ pc[r] = "commit" => issued[r] \in fresh[r]
    /\ pc[r] = "done" => issued[r] \in rows
    /\ pc[r] \in {"commit", "done"} => owner[issued[r]] = subject[r]

ClientInv ==
  /\ Inv
  /\ ClientsTypeOK
  /\ \A c \in Clients : Fits(c)
  /\ \A r \in Reqs : Carries(r)

LEMMA ClientInit == ClientsInit => ClientInv
<1> SUFFICES ASSUME ClientsInit PROVE ClientInv
  OBVIOUS
<1>1. Inv
  BY InitInv DEF ClientsInit
<1>2. ClientsTypeOK
  BY ClientAssumption, SessionAssumption DEF ClientsInit, Init, ClientsTypeOK, Kinds, Over
<1>3. (\A c \in Clients : Fits(c)) /\ \A r \in Reqs : Carries(r)
  BY DEF ClientsInit, Init, Fits, Carries
<1> QED BY <1>1, <1>2, <1>3 DEF ClientInv

-----------------------------------------------------------------------------
(* What no step of AuthSessions takes back                                 *)

Grows ==
  /\ rows \subseteq rows' /\ Over \subseteq Over'
  /\ Len(owner) \in Nat /\ Len(owner') \in Nat /\ Len(owner) <= Len(owner')
  /\ \A t \in 1..Len(owner) : owner'[t] = owner[t]

(* A request that has begun stays what it is, until it fails.              *)
Keeps(q) ==
  pc[q] # "idle" =>
    /\ pc'[q] # "idle"
    /\ kind'[q] # "none" => kind'[q] = kind[q] /\ subject'[q] = subject[q]

LEMMA FailKeeps ==
  ASSUME Inv, NEW R \in SUBSET Reqs, Fail(R)
  PROVE  Grows /\ \A q \in Reqs : Keeps(q)
BY DEF Inv, TypeOK, Fail, Reset, tables, Grows, Keeps, Over

LEMMA BeginKeeps ==
  ASSUME Inv, NEW r \in Reqs, NEW k, NEW c, NEW s, NEW t, NEW l, Begin(r, k, c, s, t, l)
  PROVE  Grows /\ \A q \in Reqs : Keeps(q)
BY DEF Inv, TypeOK, Begin, Become, tables, Grows, Keeps, Over

LEMMA ReceiveKeeps ==
  ASSUME Inv, NEW r \in Reqs, Receive(r)
  PROVE  Grows /\ \A q \in Reqs : Keeps(q)
BY FailKeeps, BeginKeeps
   DEF Receive, LoginSelectUser, LogoutAuthenticate, RefreshSelectToken, DeleteAuthenticate

LEMMA InsertKeeps ==
  ASSUME Inv, NEW r \in Reqs, InsertToken(r)
  PROVE  Grows /\ \A q \in Reqs : Keeps(q)
<1>1. subject[r] \in Users
  BY DEF Inv, RequestInv, PresenceInv, TypeOK, InsertToken, InFlight
<1>2. Grows
  BY <1>1, OwnerGrows DEF Inv, TypeOK, InsertToken, Goto, Grows, Over
<1> QED BY <1>2 DEF Inv, TypeOK, InsertToken, Goto, request, Keeps

LEMMA StepKeeps ==
  ASSUME Inv, NEW r \in Reqs, Step(r)
  PROVE  Grows /\ \A q \in Reqs : Keeps(q)
<1> USE DEF Inv, TypeOK, Goto, tables, request, Grows, Keeps, Over
<1>1. CASE RefreshSelectUser(r)
  BY <1>1, FailKeeps DEF RefreshSelectUser
<1>2. CASE RevokeSelectToken(r)
  BY <1>2 DEF RevokeSelectToken
<1>3. CASE DeleteSelectTarget(r)
  BY <1>3, FailKeeps DEF DeleteSelectTarget
<1>4. CASE DeleteUpdateUser(r)
  BY <1>4 DEF DeleteUpdateUser
<1>5. CASE SelectTokens(r)
  BY <1>5 DEF SelectTokens
<1>6. CASE UpdateToken(r)
  BY <1>6 DEF UpdateToken
<1>7. CASE InsertToken(r)
  BY <1>7, InsertKeeps
<1>8. CASE Commit(r)
  BY <1>8 DEF Commit
<1> QED BY <1>1, <1>2, <1>3, <1>4, <1>5, <1>6, <1>7, <1>8 DEF Step

-----------------------------------------------------------------------------
(* The steps of the composition                                            *)

(* A device that does nothing keeps its place while the requests advance.  *)
LEMMA Bystanders ==
  ASSUME ClientInv, Inv', Grows, \A q \in Reqs : Keeps(q), UNCHANGED <<holds, asks, wants, abandoned>>,
         issued' \in [Reqs -> 0..Len(owner')], refused' \subseteq Over',
         \A q \in Reqs : Carries(q)'
  PROVE  ClientInv'
<1> USE DEF ClientInv, ClientsTypeOK
<1>1. ASSUME NEW c \in Clients PROVE Fits(c)'
  <2>1. asks[c] # NoReq => asks[c] \in Reqs /\ Keeps(asks[c]) /\ Fits(c)
    OBVIOUS
  <2> QED BY <2>1 DEF Fits, Keeps
<1>2. \A c \in Clients : holds[c] # 0 => holds[c] \in 1..Len(owner)
  BY DEF Inv, TypeOK
<1>3. ClientsTypeOK'
  BY <1>2 DEF Grows
<1> QED BY <1>1, <1>3

(* The token of a request that does not move stays what it was.            *)
LEMMA CarriesFrame ==
  ASSUME ClientInv, Grows, NEW q \in Reqs,
         pc'[q] = pc[q], kind'[q] = kind[q], subject'[q] = subject[q],
         fresh'[q] = fresh[q], issued'[q] = issued[q]
  PROVE  Carries(q)'
<1>1. Carries(q) /\ TypeOK
  BY DEF ClientInv, Inv
<1>2. pc[q] \in {"commit", "done"} /\ kind[q] \in {"login", "refresh"} =>
        issued[q] \in 1..Len(owner)
  BY <1>1 DEF Carries, TypeOK
<1> QED BY <1>1, <1>2 DEF Carries, Grows

LEMMA FailCarries ==
  ASSUME ClientInv, NEW R \in SUBSET Reqs, Fail(R), issued' = issued, NEW q \in Reqs
  PROVE  Carries(q)'
<1>1. CASE q \in R
  BY <1>1 DEF Fail, Reset, Carries
<1>2. CASE q \notin R
  <2>1. Grows
    BY FailKeeps DEF ClientInv
  <2> QED BY <1>2, <2>1, CarriesFrame DEF Fail, Forget, Reset
<1> QED BY <1>1, <1>2

LEMMA FaultInv ==
  ASSUME ClientInv, Inv', Fault
  PROVE  ClientInv'
<1>1. ASSUME NEW R \in SUBSET Reqs, Fail(R), UNCHANGED clients PROVE ClientInv'
  <2>1. \A q \in Reqs : Carries(q)'
    BY <1>1, FailCarries DEF clients
  <2>2. Grows /\ \A q \in Reqs : Keeps(q)
    BY <1>1, FailKeeps DEF ClientInv
  <2> QED BY <1>1, <2>1, <2>2, Bystanders DEF clients, ClientInv, ClientsTypeOK, Grows
<1>2. ASSUME NEW t \in rows, Expire(t), UNCHANGED clients PROVE ClientInv'
  <2>1. Grows /\ \A q \in Reqs : Keeps(q)
    BY <1>2 DEF ClientInv, Inv, TypeOK, Expire, request, Grows, Keeps, Over
  <2>2. \A q \in Reqs : Carries(q)'
    BY <1>2, <2>1, CarriesFrame DEF Expire, request, pending, clients
  <2> QED BY <1>2, <2>1, <2>2, Bystanders DEF clients, ClientInv, ClientsTypeOK, Grows
<1> QED BY <1>1, <1>2 DEF Fault, Abort, Crash, InFlight

(* The statements of a handler: only the INSERT and the COMMIT matter.     *)
LEMMA ServeCarries ==
  ASSUME ClientInv, NEW r \in Reqs, Serve(r), NEW q \in Reqs
  PROVE  Carries(q)'
<1> USE DEF ClientInv, Inv, TypeOK, ClientsTypeOK
<1>0. Grows /\ RequestInv(r) /\ Carries(r)
  BY StepKeeps DEF Serve
<1>1. ASSUME NEW l \in Labels \ {"commit", "done"}, pc' = [pc EXCEPT ![r] = l],
             UNCHANGED <<request, fresh>>, issued' = issued
      PROVE  Carries(q)'
  BY <1>0, <1>1, CarriesFrame DEF request, Carries, Labels
<1>2. ASSUME pc' = [pc EXCEPT ![r] = "commit"], kind[r] \in {"logout", "delete"},
             UNCHANGED <<request, fresh>>, issued' = issued
      PROVE  Carries(q)'
  BY <1>0, <1>2, CarriesFrame DEF request, Carries
<1>3. CASE Fail({r}) /\ issued' = issued
  BY <1>3, FailCarries
<1>4. CASE InsertToken(r)
  <2>1. subject[r] \in Users /\ pc[r] = "insert"
    BY <1>4 DEF RequestInv, PresenceInv, InsertToken, InFlight
  <2>2. owner' = Append(owner, subject[r])
    BY <1>4 DEF InsertToken
  <2>3. issued' = [issued EXCEPT ![r] = Len(owner) + 1] /\ owner'[Len(owner) + 1] = subject[r]
    BY <2>1, <2>2, OwnerGrows DEF Serve
  <2>4. fresh' = [fresh EXCEPT ![r] = {Len(owner) + 1}] /\ UNCHANGED request
        /\ pc' = [pc EXCEPT ![r] = "commit"]
    BY <1>4 DEF InsertToken, Goto
  <2>5. CASE q = r
    BY <2>3, <2>4, <2>5 DEF Carries, request
  <2>6. CASE q # r
    BY <1>0, <2>3, <2>4, <2>6, CarriesFrame DEF request
  <2> QED BY <2>5, <2>6
<1>5. CASE Commit(r)
  <2>1. /\ pc[r] = "commit" /\ pc' = [pc EXCEPT ![r] = "done"] /\ UNCHANGED <<owner, request>>
        /\ rows' = rows \cup fresh[r] /\ issued' = [issued EXCEPT ![r] = @]
        /\ \A p \in Reqs \ {r} : fresh'[p] = fresh[p]
    BY <1>5 DEF Commit, Serve, Forget, Reset
  <2>2. CASE q = r
    BY <1>0, <2>1, <2>2 DEF Carries, request
  <2>3. CASE q # r
    BY <1>0, <2>1, <2>3, CarriesFrame DEF request
  <2> QED BY <2>2, <2>3
<1>6. pc[r] # "insert" => issued' = issued
  BY DEF Serve
<1>7. CASE RefreshSelectUser(r)
  BY <1>1, <1>3, <1>6, <1>7 DEF RefreshSelectUser, Goto, pending, Labels
<1>8. CASE RevokeSelectToken(r)
  BY <1>1, <1>6, <1>8 DEF RevokeSelectToken, Goto, Labels
<1>9. CASE DeleteSelectTarget(r)
  BY <1>1, <1>3, <1>6, <1>9 DEF DeleteSelectTarget, Goto, pending, Labels
<1>10. CASE DeleteUpdateUser(r)
  BY <1>1, <1>6, <1>10 DEF DeleteUpdateUser, Goto, Labels
<1>11. CASE SelectTokens(r)
  BY <1>0, <1>1, <1>2, <1>6, <1>11 DEF SelectTokens, Goto, Labels, RequestInv, Control
<1>12. CASE UpdateToken(r)
  BY <1>0, <1>1, <1>2, <1>6, <1>12 DEF UpdateToken, Goto, Labels, RequestInv, Control
<1> QED BY <1>4, <1>5, <1>7, <1>8, <1>9, <1>10, <1>11, <1>12 DEF Serve, Step

LEMMA ServeInv ==
  ASSUME ClientInv, Inv', NEW r \in Reqs, Serve(r)
  PROVE  ClientInv'
<1>1. Grows /\ \A q \in Reqs : Keeps(q)
  BY StepKeeps DEF Serve, ClientInv
<1>2. \A q \in Reqs : Carries(q)'
  BY ServeCarries
<1>3. pc[r] = "insert" => Len(owner') \in 0..Len(owner')
  BY <1>1 DEF Grows
<1>4. issued' \in [Reqs -> 0..Len(owner')]
  BY <1>1, <1>3 DEF Serve, ClientInv, ClientsTypeOK, Grows
<1>5. result'[r] = "error" => r \in Over'
  BY DEF Inv, RequestInv, Control, Over
<1>6. refused' \subseteq Over'
  BY <1>1, <1>5 DEF Serve, ClientInv, ClientsTypeOK, Grows
<1> QED BY <1>1, <1>2, <1>4, <1>6, Bystanders DEF Serve

(* A device asks with a request nobody has used, for its user.             *)
LEMMA AskInv ==
  ASSUME ClientInv, Inv', NEW c \in Clients, NEW r \in Reqs,
         NEW k \in {"login", "refresh", "logout", "delete"}, NEW t, NEW l \in Labels \ {"idle", "commit", "done"},
         Begin(r, k, UserOf[c], UserOf[c], t, l) \/ (pc[r] = "idle" /\ Fail({r})),
         Ask(c, r, k)
  PROVE  ClientInv'
<1> USE DEF ClientInv, ClientsTypeOK
<1>1. Grows /\ \A q \in Reqs : Keeps(q)
  BY FailKeeps, BeginKeeps
<1>2. pc[r] = "idle" /\ \A d \in Clients : asks[d] # r
  BY ClientAssumption DEF Begin, Fits
<1>3. \A q \in Reqs : Carries(q)'
  <2>1. CASE Fail({r})
    BY <2>1, FailCarries DEF Ask
  <2>2. CASE Begin(r, k, UserOf[c], UserOf[c], t, l)
    <3>1. /\ pc' = [pc EXCEPT ![r] = l] /\ fresh' = fresh /\ issued' = issued
          /\ kind' = [kind EXCEPT ![r] = k] /\ subject' = [subject EXCEPT ![r] = UserOf[c]]
      BY <2>2 DEF Begin, Become, pending, Ask
    <3>2. ASSUME NEW q \in Reqs, q # r PROVE Carries(q)'
      BY <1>1, <3>1, <3>2, CarriesFrame DEF Inv, TypeOK
    <3>3. Carries(r)'
      BY <3>1 DEF Carries, Inv, TypeOK
    <3> QED BY <3>2, <3>3
  <2> QED BY <2>1, <2>2
<1>4. asks' = [asks EXCEPT ![c] = r] /\ wants' = [wants EXCEPT ![c] = k]
  BY DEF Ask
<1>5. pc'[r] # "idle" /\ (kind'[r] # "none" => kind'[r] = k /\ subject'[r] = UserOf[c])
  BY DEF Begin, Become, Fail, Reset, Inv, TypeOK
<1>6. \A d \in Clients : Fits(d)'
  <2>1. ASSUME NEW d \in Clients, d # c PROVE Fits(d)'
    BY <1>1, <1>4, <2>1 DEF Fits, Keeps
  <2> QED BY <1>4, <1>5, <2>1 DEF Fits
<1>7. \A d \in Clients : holds[d] # 0 => holds[d] \in 1..Len(owner)
  BY DEF Inv, TypeOK
<1>8. refused' \subseteq Over'
  BY <1>1 DEF Ask, Grows, Over
<1>9. ClientsTypeOK'
  BY <1>1, <1>2, <1>4, <1>7, <1>8 DEF Ask, Grows, Kinds
<1> QED BY <1>3, <1>6, <1>9

(* A device that asks makes its request a request of AuthSessions.         *)
LEMMA Asking ==
  ASSUME ClientInv, NEW c \in Clients, NEW r \in Reqs,
         AskLogin(c, r) \/ AskRefresh(c, r) \/ AskLogout(c, r) \/ AskDelete(c, r)
  PROVE  Receive(r) /\ (Inv' => ClientInv')
<1> DEFINE Sends(k, t, l) ==
      \/ Begin(r, k, UserOf[c], UserOf[c], t, l)
      \/ pc[r] = "idle" /\ Fail({r})
<1>0. UserOf[c] \in Users
  BY ClientAssumption
<1>1. ASSUME NEW k \in {"login", "refresh", "logout", "delete"}, NEW t,
             NEW l \in {"insert", "checkUser", "select", "findTarget"},
             Sends(k, t, l), Ask(c, r, k), Inv'
      PROVE  ClientInv'
  BY <1>1, AskInv DEF Labels
<1> HIDE DEF Sends
<1>2. CASE AskLogin(c, r)
  <2>1. Receive(r) /\ Sends("login", 0, "insert") /\ Ask(c, r, "login")
    BY <1>0, <1>2 DEF Sends, AskLogin, Receive, LoginSelectUser
  <2> QED BY <1>1, <2>1
<1>3. CASE AskRefresh(c, r)
  <2>1. holds[c] \in rows /\ owner[holds[c]] = UserOf[c]
    BY <1>3 DEF AskRefresh, ClientInv, ClientsTypeOK
  <2>2. Receive(r) /\ Sends("refresh", holds[c], "checkUser") /\ Ask(c, r, "refresh")
    BY <1>3, <2>1 DEF Sends, AskRefresh, Receive, RefreshSelectToken
  <2> QED BY <1>1, <2>2
<1>4. CASE AskLogout(c, r)
  <2>1. Receive(r) /\ Sends("logout", 0, "select") /\ Ask(c, r, "logout")
    BY <1>0, <1>4 DEF Sends, AskLogout, Receive, LogoutAuthenticate
  <2> QED BY <1>1, <2>1
<1>5. CASE AskDelete(c, r)
  <2>1. Receive(r) /\ Sends("delete", 0, "findTarget") /\ Ask(c, r, "delete")
    BY <1>0, <1>5 DEF Sends, AskDelete, Receive, DeleteAuthenticate
  <2> QED BY <1>1, <2>1
<1> QED BY <1>2, <1>3, <1>4, <1>5

(* What an answer brings is in the table, and the device's own.            *)
LEMMA AnswerInv ==
  ASSUME ClientInv, NEW c \in Clients, Answer(c) \/ Abandon(c)
  PROVE  ClientInv'
<1> USE DEF ClientInv, ClientsTypeOK
<1>1. Inv' /\ UNCHANGED vars
  BY InvStep DEF Answer, Abandon
<1>2. ASSUME NEW h \in rows \cup {0}, h # 0 => owner[h] = UserOf[c],
             holds' = [holds EXCEPT ![c] = h], asks' = [asks EXCEPT ![c] = NoReq],
             UNCHANGED <<wants, issued, refused>>, abandoned' \in [Clients -> SUBSET Reqs]
      PROVE  ClientInv'
  BY <1>1, <1>2 DEF vars, tables, request, pending, Fits, Carries, Over
<1>3. CASE Answer(c)
  <2>1. asks[c] \in Reqs /\ Fits(c) /\ Carries(asks[c]) /\ Control(asks[c]) /\ pc[asks[c]] = "done"
    BY <1>3 DEF Answer, Inv, RequestInv
  <2>2. result[asks[c]] = "ok" => kind[asks[c]] = wants[c] /\ subject[asks[c]] = UserOf[c]
    BY <1>3, <2>1 DEF Answer, Fits, Control
  <2>3. /\ After(c, asks[c]) \in rows \cup {0}
        /\ After(c, asks[c]) # 0 => owner[After(c, asks[c])] = UserOf[c]
    BY <2>1, <2>2 DEF After, Carries
  <2> QED BY <1>2, <1>3, <2>3 DEF Answer
<1>4. CASE Abandon(c)
  BY <1>2, <1>4 DEF Abandon
<1> QED BY <1>3, <1>4

LEMMA ClientStep ==
  ASSUME ClientInv, [ClientsNext]_all
  PROVE  [Next]_vars /\ ClientInv'
<1>1. ASSUME NEW c \in Clients, NEW r \in Reqs,
             AskLogin(c, r) \/ AskRefresh(c, r) \/ AskLogout(c, r) \/ AskDelete(c, r)
      PROVE  [Next]_vars /\ ClientInv'
  BY <1>1, Asking, InvStep DEF Next, ClientInv
<1>2. ASSUME NEW r \in Reqs, Serve(r) PROVE [Next]_vars /\ ClientInv'
  <2>1. [Next]_vars
    BY <1>2 DEF Serve, Next
  <2> QED BY <1>2, <2>1, InvStep, ServeInv DEF ClientInv
<1>3. CASE Fault
  <2>1. [Next]_vars
    BY <1>3 DEF Fault, Next
  <2> QED BY <1>3, <2>1, InvStep, FaultInv DEF ClientInv
<1>4. ASSUME NEW c \in Clients, Answer(c) \/ Abandon(c) PROVE [Next]_vars /\ ClientInv'
  BY <1>4, AnswerInv DEF Answer, Abandon
<1>5. CASE AllQuiet \/ UNCHANGED all
  <2>1. UNCHANGED vars /\ UNCHANGED clients
    BY <1>5 DEF AllQuiet, all
  <2>2. Inv'
    BY <2>1, InvStep DEF ClientInv
  <2> QED BY <2>1, <2>2
          DEF ClientInv, ClientsTypeOK, vars, clients, tables, request, pending, Fits, Carries, Over
<1>6. Unsent \subseteq Reqs
  BY DEF Unsent
<1> QED BY <1>1, <1>2, <1>3, <1>4, <1>5, <1>6 DEF ClientsNext

-----------------------------------------------------------------------------
(* Who has which token                                                     *)

(* A request under way is that of a device, which waits for it or does not *)
(* wait any more.                                                          *)
Sent(r) ==
  r \in InFlight =>
    \E c \in Clients : UserOf[c] = subject[r] /\ (asks[c] = r \/ r \in abandoned[c])

(* An answer carries the token that the request alone has inserted, and    *)
(* nothing that is in the table unless it is over and has succeeded.       *)
Drawn(r) ==
  /\ pc[r] \notin {"commit", "done"} => issued[r] = 0
  /\ kind[r] \in {"logout", "delete"} => issued[r] = 0
  /\ fresh[r] \subseteq {issued[r]}
  /\ result[r] # "ok" => issued[r] \notin rows
  /\ issued[r] # 0 => \A q \in Reqs : issued[q] = issued[r] => q = r

(* A token is in the hands of one device, and has been presented only by   *)
(* requests of that device.                                                *)
Owns(c) ==
  holds[c] # 0 =>
    /\ \A d \in Clients : holds[d] = holds[c] => d = c
    /\ \A r \in Reqs : kind[r] = "refresh" /\ presented[r] = holds[c] =>
         asks[c] = r \/ r \in abandoned[c]

(* What a device waits for brings a token that nobody has had; what it     *)
(* holds meanwhile is what the answer will cost it.                        *)
Expects(c) ==
  LET q == asks[c] IN
  q # NoReq =>
    /\ issued[q] # 0 =>
         /\ \A d \in Clients : holds[d] # issued[q]
         /\ \A r \in Reqs : kind[r] = "refresh" => presented[r] # issued[q]
    /\ kind[q] = "login" => holds[c] = 0
    /\ kind[q] = "refresh" => presented[q] = holds[c]
    /\ kind[q] \in {"logout", "delete"} /\ Usable(holds[c]) => holds[c] \in known[q]
    /\ q \in refused /\ wants[c] = "refresh" => ~Usable(holds[c]) \/ UserOf[c] \in deleted

(* A revoked token was traded, or fell to a logout or deletion that was    *)
(* not over when the token was asked for.                                  *)
RevokedBy(t) ==
  t \in revoked =>
    \E r \in Reqs :
      \/ Rotated(r) /\ presented[r] = t
      \/ /\ Closed(r) /\ subject[r] = owner[t]
         /\ \A i \in Reqs : issued[i] = t => r \notin before[i]

(* A token that can be used is with a device of its user, or in an answer  *)
(* to one, heard or not.                                                   *)
Has(c, t) ==
  \/ holds[c] = t
  \/ asks[c] # NoReq /\ issued[asks[c]] = t
  \/ \E r \in abandoned[c] : issued[r] = t

Claimed(t) ==
  Usable(t) /\ owner[t] \notin deleted /\ t \notin Lost =>
    \E c \in Clients : UserOf[c] = owner[t] /\ Has(c, t)

Unheard == UNION {abandoned[c] : c \in Clients}

HandInv ==
  /\ ClientInv
  /\ \A r \in Reqs : WriteInv(r) /\ Sent(r) /\ Drawn(r)
  /\ \A c \in Clients : Owns(c) /\ Expects(c)
  /\ \A t \in rows : RevokedBy(t) /\ Claimed(t)
  /\ IsFiniteSet(Unheard)

LEMMA HandsInit == ClientsInit => HandInv
<1> SUFFICES ASSUME ClientsInit PROVE HandInv
  OBVIOUS
<1>1. ClientInv /\ \A r \in Reqs : WriteInv(r)
  BY ClientInit, LedgerInvInit DEF ClientsInit, LedgerInv
<1>2. Init /\ holds = FirstToken /\ asks = [c \in Clients |-> NoReq] /\ issued = [r \in Reqs |-> 0]
      /\ abandoned = [c \in Clients |-> {}]
  BY DEF ClientsInit
<1>3. \A r \in Reqs : Sent(r) /\ Drawn(r)
  BY <1>2 DEF Sent, Drawn, Init, InFlight
<1>4. \A c \in Clients : Owns(c) /\ Expects(c)
  BY <1>2, ClientAssumption DEF Owns, Expects, Init
<1>5. ASSUME NEW t \in rows PROVE RevokedBy(t) /\ Claimed(t)
  <2>1. t \in Lost \/ \E c \in Clients : holds[c] = t
    BY <1>2, <1>5 DEF Lost, Init
  <2>2. \A c \in Clients : holds[c] = t => t # 0 /\ owner[t] = UserOf[c]
    BY <1>2, <1>5, ClientAssumption, SessionAssumption DEF Init
  <2> QED BY <1>2, <2>1, <2>2 DEF RevokedBy, Claimed, Has, Init
<1>6. IsFiniteSet(Unheard)
  <2>1. Unheard = {}
    BY <1>2 DEF Unheard
  <2> QED BY <2>1, FS_EmptySet
<1> QED BY <1>1, <1>3, <1>4, <1>5, <1>6 DEF HandInv

(* A request that is not seen to move; one that fails.                     *)
Kept(q) ==
  /\ kind'[q] = kind[q] /\ subject'[q] = subject[q] /\ presented'[q] = presented[q]
  /\ known'[q] = known[q] /\ before'[q] = before[q] /\ result'[q] = result[q]
  /\ fresh'[q] = fresh[q]
  /\ q \in InFlight' => q \in InFlight
  /\ pc'[q] \notin {"commit", "done"} => pc[q] \notin {"commit", "done"}

Fails(q) ==
  /\ result[q] # "ok" /\ result'[q] = "error" /\ pc'[q] = "done" /\ kind'[q] = "none"
  /\ before'[q] = {} /\ fresh'[q] = {}

(* A device that is refused the trade of its token has one that is dead.   *)
Justly(c) ==
  asks'[c] # NoReq /\ asks'[c] \in refused' \ refused /\ wants'[c] = "refresh" =>
    ~Usable(holds[c]) \/ UserOf[c] \in deleted

(* Steps that commit and insert nothing leave everybody what they have.    *)
LEMMA Calm ==
  ASSUME HandInv, ClientInv', \A q \in Reqs : WriteInv(q)',
         UNCHANGED <<owner, rows, revoked, deleted, issued, holds, asks, wants, abandoned>>,
         expired \subseteq expired',
         \A q \in Reqs : Kept(q) \/ Fails(q),
         \A c \in Clients : Justly(c)
  PROVE  HandInv'
<1> USE DEF Kept, Fails
<1>1. \A q \in Reqs : Sent(q)'
  BY DEF HandInv, Sent, InFlight
<1>2. \A q \in Reqs : Drawn(q)'
  BY DEF HandInv, Drawn
<1>3. \A c \in Clients : Owns(c)'
  BY DEF HandInv, Owns
<1>4. ASSUME NEW c \in Clients PROVE Expects(c)'
  <2> DEFINE q == asks[c]
  <2> SUFFICES ASSUME q # NoReq PROVE Expects(c)'
    BY DEF Expects
  <2>1. q \in Reqs /\ Expects(c)
    BY DEF HandInv, ClientInv, ClientsTypeOK
  <2>2. Usable(holds[c])' => Usable(holds[c])
    BY DEF Usable
  <2>3. \A r \in Reqs : kind'[r] = "refresh" => kind[r] = "refresh" /\ presented'[r] = presented[r]
    OBVIOUS
  <2>4. q \in refused' /\ wants[c] = "refresh" => ~Usable(holds[c]) \/ UserOf[c] \in deleted
    BY <2>1 DEF Justly, Expects
  <2>5. kind'[q] # "none" => Kept(q)
    BY <2>1
  <2> QED BY <2>1, <2>2, <2>3, <2>4, <2>5 DEF Expects
<1>5. \A t \in rows : RevokedBy(t)'
  <2>1. \A r \in Reqs : Took(r) => Kept(r)
    BY DEF Took
  <2>2. \A i \in Reqs : before'[i] \subseteq before[i]
    OBVIOUS
  <2> QED BY <2>1, <2>2 DEF HandInv, RevokedBy, Rotated, Closed, Took
<1>6. \A t \in rows : Claimed(t)'
  BY DEF HandInv, Claimed, Has, Usable
<1>7. IsFiniteSet(Unheard)'
  BY DEF HandInv, Unheard
<1> QED BY <1>1, <1>2, <1>3, <1>4, <1>5, <1>6, <1>7 DEF HandInv

(* Requests that fail by themselves, or with the process.                  *)
LEMMA FailCalm ==
  ASSUME HandInv, ClientInv', \A q \in Reqs : WriteInv(q)',
         NEW R \in SUBSET Reqs, \A q \in R : result[q] # "ok", Fail(R),
         UNCHANGED <<issued, holds, asks, wants, abandoned>>,
         \A c \in Clients : Justly(c)
  PROVE  HandInv'
<1>1. \A q \in R : Fails(q)
  BY DEF Fail, Forget, Reset, Fails
<1>2. \A q \in Reqs \ R : Kept(q)
  BY DEF Fail, Forget, Reset, Kept, InFlight
<1>3. UNCHANGED <<owner, rows, revoked, deleted>> /\ expired \subseteq expired'
  BY DEF Fail, tables
<1> QED BY <1>1, <1>2, <1>3, Calm

LEMMA InFlightNotOver ==
  ASSUME Inv, NEW q \in InFlight
  PROVE  q \in Reqs /\ result[q] = "none" /\ kind[q] # "none"
BY DEF Inv, TypeOK, RequestInv, Control, InFlight

LEMMA FaultHands ==
  ASSUME HandInv, ClientInv', \A q \in Reqs : WriteInv(q)', Fault
  PROVE  HandInv'
<1>0. Inv /\ \A c \in Clients : refused' = refused => Justly(c)
  BY DEF HandInv, ClientInv, Justly
<1>1. ASSUME NEW r \in Reqs, Abort(r), UNCHANGED clients PROVE HandInv'
  BY <1>0, <1>1, InFlightNotOver, FailCalm DEF Abort, clients
<1>2. ASSUME Crash, UNCHANGED clients PROVE HandInv'
  BY <1>0, <1>2, InFlightNotOver, FailCalm DEF Crash, clients, InFlight
<1>3. ASSUME NEW t \in rows, Expire(t), UNCHANGED clients PROVE HandInv'
  <2>1. \A q \in Reqs : Kept(q)
    BY <1>3 DEF Expire, Kept, request, pending, InFlight
  <2> QED BY <1>0, <1>3, <2>1, Calm DEF Expire, clients
<1> QED BY <1>1, <1>2, <1>3 DEF Fault

(* What is refused when the request cannot begin, or half-way.             *)
LEMMA RefusalsAreJust ==
  ASSUME HandInv, NEW r \in Reqs, Serve(r), NEW c \in Clients
  PROVE  Justly(c)
<1> SUFFICES ASSUME asks[c] = r, r \in refused' \ refused, wants[c] = "refresh"
             PROVE  UserOf[c] \in deleted
  BY DEF Justly, Serve
<1>0. TypeOK /\ Control(r) /\ RequestInv(r) /\ Fits(c) /\ refused \subseteq Over
  BY DEF HandInv, ClientInv, ClientsTypeOK, Inv, RequestInv
<1>1. result'[r] = "error" /\ result[r] # "error" /\ Step(r)
  BY <1>0 DEF Serve, Control, Over, InFlight, TypeOK, Step, RefreshSelectUser, RevokeSelectToken,
     DeleteSelectTarget, DeleteUpdateUser, SelectTokens, UpdateToken, InsertToken, Commit
<1>2. RefreshSelectUser(r) \/ DeleteSelectTarget(r)
  BY <1>0, <1>1 DEF Step, RevokeSelectToken, DeleteUpdateUser, SelectTokens, UpdateToken,
     InsertToken, Commit, Goto, TypeOK
<1>3. kind[r] = "refresh" /\ subject[r] = UserOf[c]
  BY <1>0, <1>2, ClientAssumption DEF Fits, RefreshSelectUser, DeleteSelectTarget, Control
<1>4. RefreshSelectUser(r) /\ ~Available(subject[r])
  BY <1>0, <1>1, <1>2, <1>3 DEF Control, DeleteSelectTarget, RefreshSelectUser, Goto
<1> QED BY <1>3, <1>4, ClientAssumption DEF Available

(* A token is inserted: nobody has had a token of that name.               *)
LEMMA InsertHands ==
  ASSUME HandInv, ClientInv', \A q \in Reqs : WriteInv(q)', NEW r \in Reqs, Serve(r), InsertToken(r)
  PROVE  HandInv'
<1> DEFINE n == Len(owner) + 1
<1>1. /\ TypeOK /\ ClientsTypeOK /\ RequestInv(r) /\ pc[r] = "insert" /\ Drawn(r)
      /\ kind[r] \in {"login", "refresh"} /\ result[r] # "ok" /\ subject[r] \in Users
  BY DEF HandInv, ClientInv, Inv, TypeOK, InsertToken, RequestInv, Control, InFlight, Outcomes
<1>2. owner' = Append(owner, subject[r])
  BY DEF InsertToken
<1>3. Len(owner) \in Nat /\ Len(owner') = n /\ \A t \in 1..Len(owner) : owner'[t] = owner[t]
  BY <1>1, <1>2, OwnerGrows DEF TypeOK
<1>4. /\ issued' = [issued EXCEPT ![r] = n] /\ pc' = [pc EXCEPT ![r] = "commit"]
      /\ fresh' = [fresh EXCEPT ![r] = {n}]
      /\ UNCHANGED <<rows, revoked, expired, deleted, request, result, marked, holds, asks, wants, abandoned>>
  BY <1>1, <1>3 DEF Serve, InsertToken, Goto
<1>5. refused' = refused
  BY <1>1, <1>4 DEF RequestInv, Control, Serve
<1>6. /\ \A q \in Reqs : issued[q] # n
      /\ \A t \in rows : t \in 1..Len(owner) /\ t # n /\ t # 0
      /\ \A c \in Clients : holds[c] # n
      /\ \A q \in Reqs : presented[q] # n
  <2>1. \A t \in rows : t \in 1..Len(owner) /\ t # n /\ t # 0
    BY <1>1, <1>3 DEF TypeOK
  <2>2. \A q \in Reqs : issued[q] \in 0..Len(owner)
    BY <1>1 DEF ClientsTypeOK
  <2>3. \A c \in Clients : holds[c] \in rows \cup {0}
    BY <1>1 DEF ClientsTypeOK
  <2>4. \A q \in Reqs : presented[q] \in rows \cup {0}
    BY <1>1 DEF TypeOK
  <2> QED BY <1>3, <2>1, <2>2, <2>3, <2>4
<1>7. issued[r] = 0
  BY <1>1 DEF Drawn
<1> USE <1>1, <1>3, <1>4 DEF request, TypeOK, ClientsTypeOK
<1>8. \A q \in Reqs : Sent(q)'
  BY DEF HandInv, Sent, InFlight
<1>9. ASSUME NEW q \in Reqs PROVE Drawn(q)'
  <2>1. CASE q = r
    BY <1>6, <2>1 DEF Drawn
  <2>2. CASE q # r
    BY <1>6, <2>2 DEF HandInv, Drawn
  <2> QED BY <2>1, <2>2
<1>10. \A c \in Clients : Owns(c)'
  BY DEF HandInv, Owns
<1>11. ASSUME NEW c \in Clients PROVE Expects(c)'
  <2>1. Expects(c) /\ asks[c] \in Reqs \cup {NoReq} /\ (Usable(holds[c])' <=> Usable(holds[c]))
    BY DEF HandInv, Usable
  <2>2. CASE asks[c] = r
    <3>1. asks'[c] = r /\ issued'[r] = n
      BY <2>2
    <3>2. (\A d \in Clients : holds'[d] # n) /\ \A q \in Reqs : presented'[q] # n
      BY <1>6
    <3> QED BY <1>5, <2>1, <2>2, <3>1, <3>2 DEF Expects
  <2>3. CASE asks[c] # r
    BY <1>5, <2>1, <2>3 DEF Expects
  <2> QED BY <2>2, <2>3
<1>12. ASSUME NEW t \in rows PROVE RevokedBy(t)'
  <2>1. RevokedBy(t) /\ owner'[t] = owner[t]
    BY <1>6 DEF HandInv
  <2>2. \A i \in Reqs : issued'[i] = t => issued[i] = t
    BY <1>6
  <2> QED BY <2>1, <2>2 DEF RevokedBy, Rotated, Closed, Took
<1>13. ASSUME NEW t \in rows PROVE Claimed(t)'
  <2>1. \A c \in Clients : Has(c, t) => Has(c, t)'
    BY <1>6, <1>7 DEF Has
  <2>2. Claimed(t) /\ owner'[t] = owner[t] /\ (Usable(t)' <=> Usable(t))
    BY <1>6 DEF HandInv, Usable
  <2> QED BY <2>1, <2>2 DEF Claimed
<1>14. IsFiniteSet(Unheard)'
  BY DEF HandInv, Unheard
<1> QED BY <1>8, <1>9, <1>10, <1>11, <1>12, <1>13, <1>14 DEF HandInv

(* A request takes effect: whoever is to hear of it is told its token, and *)
(* what it revokes is accounted for by it.                                 *)
LEMMA CommitHands ==
  ASSUME HandInv, ClientInv', \A q \in Reqs : WriteInv(q)', NEW r \in Reqs, Serve(r), Commit(r)
  PROVE  HandInv'
<1>1. /\ Inv /\ TypeOK /\ ClientsTypeOK /\ RequestInv(r) /\ pc[r] = "commit" /\ Drawn(r) /\ WriteInv(r)
      /\ Carries(r) /\ Sent(r) /\ r \in InFlight /\ result[r] = "none"
      /\ kind[r] \in {"login", "refresh", "logout", "delete"}
  BY DEF HandInv, ClientInv, Inv, TypeOK, Commit, RequestInv, Control, InFlight, Kinds
<1>2. /\ pc' = [pc EXCEPT ![r] = "done"] /\ result' = [result EXCEPT ![r] = "ok"]
      /\ rows' = rows \cup fresh[r] /\ revoked' = revoked \cup marked[r] /\ deleted' = deleted \cup erased[r]
      /\ fresh' = [q \in Reqs |-> IF q = r THEN {} ELSE fresh[q]]
      /\ UNCHANGED <<owner, expired, request, holds, asks, wants, abandoned>>
      /\ issued' = issued /\ refused' = refused
  BY <1>1 DEF Commit, Forget, Reset, Serve, TypeOK, ClientsTypeOK
<1>3. /\ fresh[r] \subseteq {issued[r]} /\ fresh[r] \cap (rows \cup {0}) = {}
      /\ marked[r] \subseteq rows /\ 0 \notin rows
  BY <1>1 DEF Drawn, TypeOK
<1> USE <1>2 DEF request
<1>4. \A q \in Reqs : Sent(q)'
  BY <1>1 DEF HandInv, Sent, InFlight, TypeOK
<1>5. ASSUME NEW q \in Reqs PROVE Drawn(q)'
  <2>1. CASE q = r
    BY <1>1, <2>1 DEF Drawn, TypeOK, HandInv
  <2>2. CASE q # r
    <3>1. issued[q] \in fresh[r] => issued[q] = issued[r] /\ issued[r] # 0
      BY <1>3
    <3> QED BY <1>1, <2>2, <3>1 DEF HandInv, Drawn, TypeOK
  <2> QED BY <2>1, <2>2
<1>6. \A c \in Clients : Owns(c)'
  BY DEF HandInv, Owns
<1>7. ASSUME NEW c \in Clients PROVE Expects(c)'
  <2>1. holds[c] \in rows \cup {0} /\ Expects(c)
    BY <1>1 DEF ClientsTypeOK, HandInv
  <2>2. Usable(holds[c])' => Usable(holds[c])
    BY <1>3, <2>1 DEF Usable
  <2> QED BY <2>1, <2>2 DEF Expects
<1>8. ASSUME NEW t \in rows' PROVE RevokedBy(t)'
  <2>1. CASE t \in revoked
    <3>1. t \in rows /\ RevokedBy(t)
      BY <1>1, <2>1 DEF TypeOK, HandInv
    <3>2. \A q \in Reqs : Took(q) => Took(q)'
      BY <1>1 DEF Took, TypeOK
    <3> QED BY <2>1, <3>1, <3>2 DEF RevokedBy, Rotated, Closed
  <2>2. CASE t \in marked[r]
    <3>1. Took(r)' /\ \A i \in Reqs : r \notin before[i]
      BY <1>1 DEF Took, TypeOK, Inv, RequestInv, HistoryInv
    <3>2. \/ kind[r] = "refresh" /\ presented[r] = t
          \/ kind[r] \in {"logout", "delete"} /\ subject[r] = owner[t]
      BY <1>1, <2>2 DEF WriteInv
    <3> QED BY <3>1, <3>2 DEF RevokedBy, Rotated, Closed
  <2> QED BY <2>1, <2>2 DEF RevokedBy
<1>9. ASSUME NEW t \in rows' PROVE Claimed(t)'
  <2>1. CASE t \in rows
    BY <1>3, <2>1 DEF HandInv, Claimed, Has, Usable
  <2>2. CASE t \in fresh[r]
    <3>1. t = issued[r] /\ owner[t] = subject[r]
      BY <1>1, <1>3, <2>2 DEF WriteInv, Carries
    <3>2. PICK c \in Clients : UserOf[c] = subject[r] /\ (asks[c] = r \/ r \in abandoned[c])
      BY <1>1 DEF Sent
    <3>3. Has(c, t)'
      BY <3>1, <3>2, ClientAssumption DEF Has
    <3> QED BY <3>1, <3>2, <3>3 DEF Claimed
  <2> QED BY <2>1, <2>2
<1>10. IsFiniteSet(Unheard)'
  BY DEF HandInv, Unheard
<1> QED BY <1>4, <1>5, <1>6, <1>7, <1>8, <1>9, <1>10 DEF HandInv

LEMMA ServeHands ==
  ASSUME HandInv, ClientInv', \A q \in Reqs : WriteInv(q)', NEW r \in Reqs, Serve(r)
  PROVE  HandInv'
<1>1. CASE InsertToken(r)
  BY <1>1, InsertHands
<1>2. CASE Commit(r)
  BY <1>2, CommitHands
<1>3. CASE ~InsertToken(r) /\ ~Commit(r)
  <2>1. Step(r) /\ TypeOK /\ ClientsTypeOK /\ RequestInv(r) /\ \A c \in Clients : Justly(c)
    BY RefusalsAreJust DEF Serve, HandInv, ClientInv, Inv
  <2>2. pc[r] \notin {"idle", "insert", "commit", "done"}
    BY <1>3, <2>1 DEF Step, RefreshSelectUser, RevokeSelectToken, DeleteSelectTarget,
       DeleteUpdateUser, SelectTokens, UpdateToken
  <2>3. UNCHANGED <<issued, holds, asks, wants, abandoned>>
    BY <2>1, <2>2 DEF Serve, ClientsTypeOK
  <2>4. r \in InFlight /\ result[r] # "ok"
    BY <2>1, <2>2 DEF InFlight, RequestInv, Control
  <2>5. CASE Fail({r})
    BY <2>1, <2>3, <2>4, <2>5, FailCalm
  <2>6. CASE ~Fail({r})
    <3>1. /\ UNCHANGED <<tables, request, fresh, result>>
          /\ \E l \in Labels : pc' = [pc EXCEPT ![r] = l]
      BY <1>3, <2>1, <2>6 DEF Step, RefreshSelectUser, RevokeSelectToken, DeleteSelectTarget,
         DeleteUpdateUser, SelectTokens, UpdateToken, Goto, pending, Labels
    <3>2. \A q \in Reqs : Kept(q)
      BY <2>1, <2>2, <2>4, <3>1 DEF Kept, request, InFlight, TypeOK
    <3> QED BY <2>1, <2>3, <3>1, <3>2, Calm DEF tables
  <2> QED BY <2>5, <2>6
<1> QED BY <1>1, <1>2, <1>3

(* A device asks: nobody has heard of the request before.                  *)
LEMMA AskHands ==
  ASSUME HandInv, ClientInv', \A q \in Reqs : WriteInv(q)', NEW c \in Clients, NEW r \in Reqs,
         NEW k \in {"login", "refresh", "logout", "delete"}, NEW t,
         NEW l \in {"insert", "checkUser", "select", "findTarget"},
         \/ Begin(r, k, UserOf[c], UserOf[c], t, l)
         \/ pc[r] = "idle" /\ Fail({r}) /\ (k = "refresh" => ~Usable(holds[c])),
         k = "login" => holds[c] = 0, k = "refresh" => t = holds[c], Ask(c, r, k)
  PROVE  HandInv'
<1>1. /\ TypeOK /\ ClientsTypeOK /\ Control(r) /\ Drawn(r) /\ pc[r] = "idle" /\ asks[c] = NoReq
      /\ \A d \in Clients : Owns(d) /\ Expects(d) /\ Fits(d)
  BY DEF HandInv, ClientInv, Inv, RequestInv, Begin, Ask
<1>2. result[r] = "none" /\ issued[r] = 0 /\ r \notin refused /\ fresh[r] = {} /\ 0 \notin rows
  BY <1>1 DEF Control, Drawn, TypeOK, ClientsTypeOK, Over, Outcomes
<1>3. NoReq \notin Reqs /\ \A d \in Clients : asks[d] # r
  BY <1>1, ClientAssumption DEF Fits
<1>4. /\ asks' = [asks EXCEPT ![c] = r] /\ wants' = [wants EXCEPT ![c] = k]
      /\ UNCHANGED <<holds, issued, abandoned>>
      /\ \A q \in Reqs \ {r} : q \in refused' <=> q \in refused
      /\ r \in refused' => pc'[r] = "done"
  BY <1>1, <1>2 DEF Ask, ClientsTypeOK
<1>5. UNCHANGED tables /\ fresh'[r] = {} /\ result'[r] # "ok" /\ pc'[r] # "commit"
  BY <1>1, <1>2 DEF Begin, Fail, Forget, Reset, tables, pending, TypeOK
<1>6. ASSUME NEW q \in Reqs, q # r
      PROVE  /\ pc'[q] = pc[q] /\ kind'[q] = kind[q] /\ subject'[q] = subject[q]
             /\ presented'[q] = presented[q] /\ known'[q] = known[q] /\ before'[q] = before[q]
             /\ result'[q] = result[q] /\ fresh'[q] = fresh[q]
  BY <1>1, <1>6 DEF Begin, Become, Fail, Forget, Reset, pending, TypeOK
<1>7. \/ kind'[r] = "none" /\ pc'[r] = "done" /\ (k = "refresh" => ~Usable(holds[c]))
      \/ /\ kind'[r] = k /\ pc'[r] = l /\ subject'[r] = UserOf[c] /\ presented'[r] = t
         /\ known'[r] = Live
  BY <1>1 DEF Begin, Become, Fail, Reset, TypeOK
<1>8. asks'[c] = r /\ wants'[c] = k /\ \A d \in Clients \ {c} : asks'[d] = asks[d] /\ wants'[d] = wants[d]
  BY <1>1, <1>4 DEF ClientsTypeOK
<1>9. ASSUME NEW q \in Reqs PROVE Sent(q)'
  <2>1. CASE q = r
    BY <1>7, <1>8, <2>1 DEF Sent, InFlight
  <2>2. CASE q # r
    <3>1. q \in InFlight' => q \in InFlight
      BY <1>6, <2>2 DEF InFlight
    <3>2. Sent(q) /\ asks[c] # q
      BY <1>1, <1>3 DEF HandInv
    <3> QED BY <1>4, <1>6, <1>8, <2>2, <3>1, <3>2 DEF Sent
  <2> QED BY <2>1, <2>2
<1>10. ASSUME NEW q \in Reqs PROVE Drawn(q)'
  <2>1. CASE q = r
    BY <1>2, <1>4, <1>5, <2>1 DEF Drawn, tables
  <2>2. CASE q # r
    BY <1>4, <1>5, <1>6, <2>2 DEF HandInv, Drawn, tables
  <2> QED BY <2>1, <2>2
<1>11. ASSUME NEW d \in Clients PROVE Owns(d)'
  <2> SUFFICES ASSUME holds[d] # 0, NEW q \in Reqs, kind'[q] = "refresh", presented'[q] = holds[d]
               PROVE  asks'[d] = q \/ q \in abandoned[d]
    BY <1>1, <1>4 DEF Owns
  <2>1. CASE q = r
    BY <1>1, <1>7, <1>8, <2>1 DEF Owns
  <2>2. CASE q # r
    BY <1>1, <1>3, <1>6, <1>8, <2>2 DEF Owns
  <2> QED BY <2>1, <2>2
<1>12. ASSUME NEW d \in Clients PROVE Expects(d)'
  <2>0. \A i \in rows \cup {0} : Usable(i)' <=> Usable(i)
    BY <1>5 DEF tables, Usable
  <2>1. CASE d = c
    <3>1. holds[c] \in rows \cup {0} /\ (Usable(holds[c]) => holds[c] \in Live)
      BY <1>1 DEF Live, Usable, ClientsTypeOK
    <3> QED BY <1>2, <1>4, <1>7, <1>8, <2>0, <2>1, <3>1 DEF Expects
  <2>2. CASE d # c
    <3> DEFINE q == asks[d]
    <3> SUFFICES ASSUME q # NoReq PROVE Expects(d)'
      BY <1>8, <2>2 DEF Expects
    <3>1. q \in Reqs /\ q # r /\ Expects(d) /\ holds[d] \in rows \cup {0}
      BY <1>1, <1>3 DEF ClientsTypeOK
    <3>2. issued[q] # 0 => \A p \in Reqs : kind'[p] = "refresh" => presented'[p] # issued[q]
      <4>1. issued[q] # 0 => holds[c] # issued[q] /\ \A p \in Reqs : kind[p] = "refresh" => presented[p] # issued[q]
        BY <3>1 DEF Expects
      <4> QED BY <1>6, <1>7, <4>1
    <3>3. UNCHANGED deleted
      BY <1>5 DEF tables
    <3> QED BY <1>4, <1>6, <1>8, <2>0, <2>2, <3>1, <3>2, <3>3 DEF Expects
  <2> QED BY <2>1, <2>2
<1>13. ASSUME NEW i \in rows' PROVE RevokedBy(i)' /\ Claimed(i)'
  <2>1. i \in rows /\ RevokedBy(i) /\ Claimed(i) /\ i # 0 /\ UNCHANGED <<revoked, owner, deleted>>
        /\ (Usable(i)' <=> Usable(i))
    BY <1>2, <1>5 DEF tables, HandInv, Usable
  <2>2. RevokedBy(i)'
    <3>1. \A q \in Reqs : result[q] = "ok" => q # r
      BY <1>2
    <3>2. \A p \in Reqs : issued'[p] = i => p # r /\ issued[p] = i
      BY <1>2, <1>4, <2>1
    <3> QED BY <1>6, <2>1, <3>1, <3>2 DEF RevokedBy, Rotated, Closed, Took
  <2>3. \A d \in Clients : Has(d, i) => Has(d, i)'
    BY <1>1, <1>4, <1>8 DEF Has
  <2> QED BY <2>1, <2>2, <2>3 DEF Claimed
<1>14. IsFiniteSet(Unheard)'
  BY <1>4 DEF HandInv, Unheard
<1> QED BY <1>9, <1>10, <1>11, <1>12, <1>13, <1>14 DEF HandInv

(* A device hears: what it lets go of is dead.                             *)
LEMMA AnswerHands ==
  ASSUME HandInv, ClientInv', \A q \in Reqs : WriteInv(q)', NEW c \in Clients, Answer(c)
  PROVE  HandInv'
<1> DEFINE q == asks[c]
           h == After(c, q)
<1>1. /\ TypeOK /\ ClientsTypeOK /\ Fits(c) /\ Owns(c) /\ Expects(c)
      /\ q \in Reqs /\ q # NoReq /\ pc[q] = "done"
      /\ RequestInv(q) /\ Carries(q) /\ Drawn(q)
  BY DEF HandInv, ClientInv, Inv, ClientsTypeOK, Answer
<1>2. /\ holds' = [holds EXCEPT ![c] = h] /\ asks' = [asks EXCEPT ![c] = NoReq]
      /\ UNCHANGED <<wants, issued, refused, abandoned>>
      /\ UNCHANGED <<owner, rows, revoked, expired, deleted, pc, result, kind, caller, subject,
                     presented, known, gone, before, todo, marked, erased, fresh>>
  BY DEF Answer, vars, tables, request, pending
<1>3. /\ holds'[c] = h /\ asks'[c] = NoReq
      /\ \A d \in Clients \ {c} : holds'[d] = holds[d] /\ asks'[d] = asks[d] /\ asks[d] # q
  BY <1>1, <1>2 DEF ClientsTypeOK
<1>4. 0 \notin rows /\ todo[q] = {} /\ marked[q] = {}
  BY <1>1 DEF TypeOK
<1> DEFINE Gains == /\ kind[q] \in {"login", "refresh"} /\ h = issued[q]
                    /\ h \in rows /\ result[q] = "ok"
           Gives == kind[q] \in {"logout", "delete"} /\ h = 0 /\ result[q] = "ok"
           Loses == /\ kind[q] = "none" /\ h = 0 /\ result[q] = "error"
                    /\ ~Usable(holds[c]) \/ UserOf[c] \in deleted
           Stays == kind[q] = "none" /\ h = holds[c] /\ result[q] = "error"
<1>5. kind[q] # "none" => subject[q] = UserOf[c]
  BY <1>1 DEF Fits
<1>6. Gains \/ Gives \/ Loses \/ Stays
  <2>1. CASE result[q] = "ok"
    <3>1. kind[q] = wants[c] /\ kind[q] \in {"login", "refresh", "logout", "delete"}
      BY <1>1, <2>1 DEF Fits, RequestInv, Control, TypeOK, Kinds
    <3> QED BY <1>1, <2>1, <3>1 DEF After, Carries
  <2>2. CASE result[q] # "ok"
    <3>1. result[q] = "error" /\ kind[q] = "none"
      BY <1>1, <2>2 DEF RequestInv, Control, TypeOK, Outcomes
    <3> QED BY <1>1, <3>1 DEF After, Expects
  <2> QED BY <2>1, <2>2
<1> HIDE DEF h
(* What is given up, and what is gained.                                   *)
<1>7. Usable(holds[c]) /\ UserOf[c] \notin deleted => Stays \/ holds[c] = 0
  <2> SUFFICES ASSUME Usable(holds[c]), UserOf[c] \notin deleted, holds[c] # 0, ~Stays PROVE FALSE
    OBVIOUS
  <2>1. holds[c] \in rows /\ owner[holds[c]] = UserOf[c]
    BY <1>1 DEF ClientsTypeOK
  <2>2. CASE kind[q] = "refresh"
    BY <1>1, <1>4, <2>2 DEF RequestInv, RefreshInv, Expects, Usable
  <2>3. CASE kind[q] \in {"logout", "delete"}
    <3>1. holds[c] \in known[q] /\ subject[q] = UserOf[c]
      BY <1>1, <1>5, <2>3 DEF Expects
    <3> QED BY <1>1, <1>4, <2>1, <2>3, <3>1 DEF RequestInv, CloseInv, Usable
  <2>4. CASE kind[q] = "login"
    BY <1>1, <2>4 DEF Expects
  <2> QED BY <1>6, <2>2, <2>3, <2>4
<1>8. issued[q] \in rows => h = issued[q]
  BY <1>1, <1>4, <1>6 DEF Drawn
<1>9. /\ \A d \in Clients \ {c} : h # 0 => holds[d] # h
      /\ \A r \in Reqs \ {q} : issued[r] # 0 /\ h = issued[r] => h = holds[c]
  BY <1>1, <1>4, <1>6 DEF Expects, Owns, Drawn
<1>10. \A r \in Reqs : Sent(r)'
  <2>1. q \notin InFlight
    BY <1>1 DEF InFlight
  <2>2. \A r \in Reqs : Sent(r) /\ (r \in InFlight' <=> r \in InFlight)
    BY <1>2 DEF HandInv, InFlight
  <2> QED BY <1>2, <1>3, <2>1, <2>2 DEF Sent
<1>11. \A r \in Reqs : Drawn(r)'
  BY <1>2 DEF HandInv, Drawn
<1>12. ASSUME NEW d \in Clients PROVE Owns(d)'
  <2>0. Owns(d)
    BY DEF HandInv
  <2>1. CASE d # c
    BY <1>2, <1>3, <1>9, <2>0, <2>1 DEF Owns
  <2>2. CASE d = c /\ Stays
    BY <1>1, <1>2, <1>3, <1>9, <2>0, <2>2 DEF Owns
  <2>3. CASE d = c /\ Gains
    BY <1>1, <1>2, <1>3, <1>4, <1>9, <2>3 DEF Owns, Expects
  <2>4. CASE d = c /\ h = 0
    BY <1>3, <2>4 DEF Owns
  <2> QED BY <1>6, <2>1, <2>2, <2>3, <2>4
<1>13. ASSUME NEW d \in Clients PROVE Expects(d)'
  <2>1. CASE d = c
    BY <1>3, <2>1 DEF Expects
  <2>2. CASE d # c
    <3> DEFINE p == asks[d]
    <3> SUFFICES ASSUME p # NoReq PROVE Expects(d)'
      BY <1>3, <2>2 DEF Expects
    <3>1. p \in Reqs \ {q} /\ Expects(d) /\ asks'[d] = p /\ holds'[d] = holds[d]
      BY <1>1, <1>3, <2>2 DEF HandInv, ClientsTypeOK
    <3>2. issued[p] # 0 => \A e \in Clients : holds[e] # issued[p]
      BY <3>1 DEF Expects
    <3>3. issued[p] # 0 => \A e \in Clients : holds'[e] # issued[p]
      BY <1>3, <1>9, <3>1, <3>2
    <3>4. Usable(holds[d])' <=> Usable(holds[d])
      BY <1>2, <3>1 DEF Usable
    <3> QED BY <1>2, <3>1, <3>3, <3>4 DEF Expects
  <2> QED BY <2>1, <2>2
<1>14. ASSUME NEW t \in rows PROVE RevokedBy(t)' /\ Claimed(t)'
  <2>1. RevokedBy(t)'
    BY <1>2 DEF HandInv, RevokedBy, Rotated, Closed, Took
  <2>2. SUFFICES ASSUME Usable(t), owner[t] \notin deleted, t \notin Lost
                 PROVE  \E d \in Clients : UserOf[d] = owner[t] /\ Has(d, t)'
    BY <1>2, <2>1 DEF Claimed, Usable
  <2>3. PICK d \in Clients : UserOf[d] = owner[t] /\ Has(d, t)
    BY <2>2 DEF HandInv, Claimed
  <2>4. CASE d # c
    BY <1>2, <1>3, <2>3, <2>4 DEF Has
  <2>5. CASE d = c
    BY <1>2, <1>3, <1>4, <1>7, <1>8, <2>2, <2>3, <2>5 DEF Has
  <2> QED BY <2>3, <2>4, <2>5
<1>15. IsFiniteSet(Unheard)'
  BY <1>2 DEF HandInv, Unheard
<1> QED BY <1>2, <1>10, <1>11, <1>12, <1>13, <1>14, <1>15 DEF HandInv

(* A device that gives up waiting has one more answer it did not hear.     *)
LEMMA AbandonHands ==
  ASSUME HandInv, ClientInv', \A q \in Reqs : WriteInv(q)', NEW c \in Clients, Abandon(c)
  PROVE  HandInv'
<1> DEFINE q == asks[c]
<1>1. ClientsTypeOK /\ q \in Reqs /\ q # NoReq
  BY DEF HandInv, ClientInv, ClientsTypeOK, Abandon
<1>2. /\ abandoned' = [abandoned EXCEPT ![c] = @ \cup {q}] /\ asks' = [asks EXCEPT ![c] = NoReq]
      /\ UNCHANGED <<holds, wants, issued, refused>>
      /\ UNCHANGED <<owner, rows, revoked, expired, deleted, pc, result, kind, caller, subject,
                     presented, known, gone, before, todo, marked, erased, fresh>>
  BY DEF Abandon, vars, tables, request, pending
<1>3. /\ abandoned'[c] = abandoned[c] \cup {q} /\ asks'[c] = NoReq
      /\ \A d \in Clients \ {c} : abandoned'[d] = abandoned[d] /\ asks'[d] = asks[d]
  BY <1>1, <1>2 DEF ClientsTypeOK
<1>4. \A r \in Reqs : Sent(r)' /\ Drawn(r)'
  BY <1>2, <1>3 DEF HandInv, Sent, Drawn, InFlight
<1>5. \A d \in Clients : Owns(d)'
  BY <1>2, <1>3 DEF HandInv, Owns
<1>6. ASSUME NEW d \in Clients PROVE Expects(d)'
  <2>1. CASE d = c
    BY <1>3, <2>1 DEF Expects
  <2>2. CASE d # c
    BY <1>2, <1>3, <2>2 DEF HandInv, Expects, Usable
  <2> QED BY <2>1, <2>2
<1>7. \A t \in rows : RevokedBy(t)'
  BY <1>2 DEF HandInv, RevokedBy, Rotated, Closed, Took
<1>8. ASSUME NEW t \in rows PROVE Claimed(t)'
  <2>1. \A d \in Clients : Has(d, t) => Has(d, t)'
    BY <1>2, <1>3 DEF Has
  <2> QED BY <1>2, <2>1 DEF HandInv, Claimed, Usable
<1>9. IsFiniteSet(Unheard)'
  <2>1. Unheard' = Unheard \cup {q}
    BY <1>1, <1>3 DEF Unheard
  <2> QED BY <2>1, FS_AddElement DEF HandInv
<1> QED BY <1>2, <1>4, <1>5, <1>6, <1>7, <1>8, <1>9 DEF HandInv

LEMMA HandStep == HandInv /\ [ClientsNext]_all => HandInv'
<1> SUFFICES ASSUME HandInv, [ClientsNext]_all PROVE HandInv'
  OBVIOUS
<1>1. [Next]_vars /\ ClientInv'
  BY ClientStep DEF HandInv
<1>2. \A q \in Reqs : WriteInv(q)'
  BY <1>1, LedgerInvStep DEF HandInv, ClientInv, LedgerInv
<1>3. ASSUME NEW c \in Clients, NEW r \in Reqs,
             AskLogin(c, r) \/ AskRefresh(c, r) \/ AskLogout(c, r) \/ AskDelete(c, r)
      PROVE  HandInv'
  <2>0. holds[c] # 0 => owner[holds[c]] = UserOf[c]
    BY DEF HandInv, ClientInv, ClientsTypeOK
  <2>1. CASE AskLogin(c, r)
    BY <1>1, <1>2, <2>1, AskHands DEF AskLogin, LoginSelectUser
  <2>2. CASE AskRefresh(c, r)
    BY <1>1, <1>2, <2>0, <2>2, AskHands DEF AskRefresh, RefreshSelectToken
  <2>3. CASE AskLogout(c, r)
    BY <1>1, <1>2, <2>3, AskHands DEF AskLogout, LogoutAuthenticate
  <2>4. CASE AskDelete(c, r)
    BY <1>1, <1>2, <2>4, AskHands DEF AskDelete, DeleteAuthenticate
  <2> QED BY <1>3, <2>1, <2>2, <2>3, <2>4
<1>4. CASE \E r \in Reqs : Serve(r)
  BY <1>1, <1>2, <1>4, ServeHands
<1>5. CASE Fault
  BY <1>1, <1>2, <1>5, FaultHands
<1>6. CASE \E c \in Clients : Answer(c) \/ Abandon(c)
  BY <1>1, <1>2, <1>6, AnswerHands, AbandonHands
<1>7. CASE AllQuiet \/ UNCHANGED all
  <2>1. UNCHANGED <<vars, clients>>
    BY <1>7 DEF AllQuiet, all
  <2>2. /\ UNCHANGED <<owner, rows, revoked, deleted, issued, holds, asks, wants, abandoned, refused>>
        /\ expired \subseteq expired'
        /\ \A q \in Reqs : Kept(q)
    BY <2>1 DEF vars, clients, tables, request, pending, Kept, InFlight
  <2>3. \A c \in Clients : Justly(c)
    BY <2>2 DEF Justly
  <2> QED BY <1>1, <1>2, <2>2, <2>3, Calm
<1>8. Unsent \subseteq Reqs
  BY DEF Unsent
<1> QED BY <1>3, <1>4, <1>5, <1>6, <1>7, <1>8 DEF ClientsNext

LEMMA HandsBoundOrphans == HandInv => OrphansBounded
<1> SUFFICES ASSUME HandInv, NEW u \in Users \ deleted
             PROVE  Cardinality(Orphans(u)) <=
                      Cardinality(UNION {abandoned[c] : c \in {d \in Clients : UserOf[d] = u}})
  BY DEF OrphansBounded
<1> DEFINE A == UNION {abandoned[c] : c \in {d \in Clients : UserOf[d] = u}}
           T == {issued[r] : r \in A}
<1>1. Orphans(u) \subseteq T
  <2> SUFFICES ASSUME NEW t \in Orphans(u) PROVE t \in T
    OBVIOUS
  <2>1. t \in rows /\ Usable(t) /\ t \notin Lost /\ owner[t] = u /\ t \notin Accounted(u)
    BY DEF Orphans, Live
  <2>2. PICK c \in Clients : UserOf[c] = u /\ Has(c, t)
    BY <2>1 DEF HandInv, Claimed
  <2>3. \E r \in abandoned[c] : issued[r] = t
    BY <2>1, <2>2 DEF Has, Accounted
  <2> QED BY <2>2, <2>3
<1>2. IsFiniteSet(A)
  BY FS_Subset DEF HandInv, Unheard
<1>3. [r \in A |-> issued[r]] \in Surjection(A, T)
  BY DEF Surjection
<1>4. IsFiniteSet(T) /\ Cardinality(T) <= Cardinality(A)
  BY <1>2, <1>3, FS_Surjection
<1>5. Cardinality(Orphans(u)) <= Cardinality(T) /\ Cardinality(Orphans(u)) \in Nat
      /\ Cardinality(T) \in Nat /\ Cardinality(A) \in Nat
  BY <1>1, <1>2, <1>4, FS_Subset, FS_CardinalityType
<1> QED BY <1>4, <1>5

LEMMA HandsKeepTokens == HandInv => HeldTokensWork
<1> SUFFICES ASSUME HandInv, NEW c \in Clients,
                    asks[c] = NoReq, holds[c] # 0, ~Usable(holds[c]), holds[c] \notin expired
             PROVE  \/ \E l \in Reqs :
                         /\ Closed(l) /\ subject[l] = UserOf[c]
                         /\ \A i \in Reqs : issued[i] = holds[c] => l \notin before[i]
                    \/ \E r \in abandoned[c] : Rotated(r) /\ presented[r] = holds[c]
  BY DEF HeldTokensWork
<1>1. holds[c] \in rows /\ owner[holds[c]] = UserOf[c] /\ Owns(c)
  BY DEF HandInv, ClientInv, ClientsTypeOK
<1>2. RevokedBy(holds[c]) /\ holds[c] \in revoked
  BY <1>1 DEF HandInv, Usable
<1>3. ASSUME NEW r \in Reqs, Rotated(r), presented[r] = holds[c] PROVE r \in abandoned[c]
  BY <1>1, <1>3, ClientAssumption DEF Owns, Rotated
<1> QED BY <1>1, <1>2, <1>3 DEF RevokedBy

-----------------------------------------------------------------------------
(* Theorems                                                                *)

(* With its clients the system is still AuthSessions: what they hold, lose *)
(* and retry leads to no behaviour its theorems are not about.             *)
THEOREM ClientsAreAllowed == ClientsSpec => Spec
<1>1. ClientsInit => Init
  BY DEF ClientsInit
<1>2. ClientInv /\ [ClientsNext]_all => [Next]_vars /\ ClientInv'
  BY ClientStep
<1> QED BY <1>1, <1>2, ClientInit, PTL DEF ClientsSpec, Spec

(* Any device holds only tokens that are in the table and its user's, and  *)
(* shares no request with another, whatever is retried or abandoned.       *)
THEOREM ClientsTypeCorrect == ClientsSpec => []ClientsTypeOK
<1>1. ClientInv /\ [ClientsNext]_all => ClientInv'
  BY ClientStep
<1>2. ClientInv => ClientsTypeOK
  BY DEF ClientInv
<1> QED BY <1>1, <1>2, ClientInit, PTL DEF ClientsSpec

(* For any number of devices, users and requests: after every history of   *)
(* retries, lost answers, failures and crashes, the usable tokens of a     *)
(* user that nobody holds are no more than the answers that the user's     *)
(* devices did not wait for.                                               *)
THEOREM OrphansAreBounded == ClientsSpec => []OrphansBounded
<1>1. HandInv /\ [ClientsNext]_all => HandInv'
  BY HandStep
<1> QED BY <1>1, HandsInit, HandsBoundOrphans, PTL DEF ClientsSpec

(* For any number of devices, users and requests: a device at rest can use *)
(* the token it holds, unless the clock, the account, a logout that was    *)
(* not over when the token was asked for, or a refresh the device did not  *)
(* wait for has spent it.                                                  *)
THEOREM HeldTokensAreGood == ClientsSpec => []HeldTokensWork
<1>1. HandInv /\ [ClientsNext]_all => HandInv'
  BY HandStep
<1> QED BY <1>1, HandsInit, HandsKeepTokens, PTL DEF ClientsSpec

=============================================================================
