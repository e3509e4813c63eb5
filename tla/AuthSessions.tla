---------------------------- MODULE AuthSessions ----------------------------
(***************************************************************************)
(* Login, refresh, logout and soft deletion, as they interleave.           *)
(*                                                                         *)
(* Every HTTP request owns one AsyncSession, hence one PostgreSQL          *)
(* transaction in READ COMMITTED (utils/db.py, get_db).  The handlers are  *)
(* coroutines of one event loop and give it up at every await, so another  *)
(* request can run between any two SQL statements.  A SELECT sees what is  *)
(* committed when it runs; an UPDATE locks its row until the transaction   *)
(* ends, and waits for a row another transaction has locked; what a        *)
(* transaction wrote becomes visible at COMMIT and vanishes on rollback.   *)
(*                                                                         *)
(* One action is one SQL statement with the Python code up to the next     *)
(* await.  A SELECT whose result decides nothing here (the role names put  *)
(* into the JWT, the re-read after INSERT) has no action of its own.       *)
(***************************************************************************)
EXTENDS Integers, Sequences, FiniteSets

CONSTANTS
  Users,      (* users.id of the accounts                                  *)
  Reqs,       (* the HTTP requests, each served once                       *)
  MayDelete,  (* <<actor, target>> pairs _ensure_can_delete_user lets pass *)
  InitOwner,  (* owners of the refresh tokens issued before the run        *)
  MayExpire,  (* keys of the tokens whose expires_at the run can reach      *)
  NoUser      (* stands for the user of a request that is not being served *)

ASSUME SessionAssumption ==
  /\ MayDelete \subseteq Users \X Users
  /\ InitOwner \in Seq(Users)
  /\ MayExpire \subseteq Nat
  /\ NoUser \notin Users

Kinds    == {"none", "login", "refresh", "logout", "delete"}
Labels   == {"idle", "checkUser", "reselect", "findTarget", "lockUser",
             "select", "update", "insert", "commit", "done"}
Outcomes == {"none", "ok", "error"}

VARIABLES
  (* Tables.  A refresh token is its primary key; owner grows with the     *)
  (* sequence that draws the keys, also for rows that are rolled back.     *)
  owner,      (* owner[t] is refresh_tokens.user_id of key t               *)
  rows,       (* keys of the committed refresh_tokens rows                 *)
  revoked,    (* committed rows with is_revoked                            *)
  expired,    (* committed rows with expires_at in the past                *)
  deleted,    (* committed users with deleted_at set, is_active unset      *)
  (* Requests: where the handler is and its local variables.               *)
  pc, kind,
  caller,     (* the authenticated user; the account for login and refresh *)
  subject,    (* the user whose tokens the request works on                *)
  presented,  (* refresh: the key of the row of the presented token        *)
  result,     (* "ok": committed, "error": answered 4xx or 5xx, or dropped *)
  (* Uncommitted work of the request's transaction.                        *)
  todo,       (* token rows selected for revocation and not updated yet    *)
  marked,     (* token rows updated with is_revoked, thus locked           *)
  erased,     (* users rows updated as deleted, thus locked                *)
  fresh,      (* token rows inserted                                       *)
  (* History, read by no action.                                           *)
  known,      (* usable tokens when the request began                      *)
  gone,       (* deleted users when the request began                      *)
  before      (* requests already committed when the request began         *)

tables  == <<owner, rows, revoked, expired, deleted>>
request == <<kind, caller, subject, presented, known, gone, before>>
pending == <<todo, marked, erased, fresh>>
vars    == <<tables, pc, result, request, pending>>

-----------------------------------------------------------------------------
(* What the queries return.  A definition marked "variant" is a plausible  *)
(* mistake in the one that follows it: the properties are checked to       *)
(* notice it, and nothing uses it otherwise.                               *)

(* variant: the filter on is_revoked is forgotten                          *)
UsableIgnoringRevocation(t) == t \in rows \ expired
(* get_by_token: the row exists, is not revoked and has not expired.       *)
Usable(t) == t \in (rows \ revoked) \ expired

Live == {t \in rows : Usable(t)}

(* variant: deleted_at and is_active are not looked at                     *)
AvailableAlways(u) == u \in Users

(* The check that login, refresh and get_current_user make of the user     *)
(* row they just read.                                                     *)
Available(u) == u \in Users \ deleted

(* variant: only the latest session is ended                               *)
NewestUnrevokedOf(u) ==
  {t \in rows \ revoked : owner[t] = u /\ \A s \in rows : owner[s] = u => s <= t}

(* The SELECT of revoke_all_user_tokens.                                   *)
UnrevokedOf(u) == {t \in rows \ revoked : owner[t] = u}

(* variant: rows are updated in any order                                  *)
AnyDirtyRow(r, t) == t \in todo[r]

(* A flush updates the dirty rows of a table in primary key order.         *)
NextDirtyRow(r, t) == t \in todo[r] /\ \A s \in todo[r] : t <= s

TokenRowFree(r, t) == \A q \in Reqs \ {r} : t \notin marked[q]
UserRowFree(r, u)  == \A q \in Reqs \ {r} : u \notin erased[q]

InFlight == {r \in Reqs : pc[r] \notin {"idle", "done"}}
Over     == {r \in Reqs : pc[r] = "done"}

(* The transaction of r took effect, whether or not the client hears.      *)
Took(r) == result[r] = "ok"

-----------------------------------------------------------------------------
(* The common parts of the actions.                                        *)

(* Request r becomes a k of caller c for subject s with token t.           *)
Become(r, k, c, s, t) ==
  /\ kind'      = [kind EXCEPT ![r] = k]
  /\ caller'    = [caller EXCEPT ![r] = c]
  /\ subject'   = [subject EXCEPT ![r] = s]
  /\ presented' = [presented EXCEPT ![r] = t]

Begin(r, k, c, s, t, label) ==
  /\ pc[r] = "idle"
  /\ pc' = [pc EXCEPT ![r] = label]
  /\ Become(r, k, c, s, t)
  /\ known'  = [known EXCEPT ![r] = Live]
  /\ gone'   = [gone EXCEPT ![r] = deleted]
  /\ before' = [before EXCEPT ![r] = {q \in Reqs : Took(q)}]
  /\ UNCHANGED <<tables, result, pending>>

Goto(r, label) ==
  /\ pc' = [pc EXCEPT ![r] = label]
  /\ UNCHANGED result

Reset(f, R, value) == [r \in Reqs |-> IF r \in R THEN value ELSE f[r]]

(* variant: row locks survive the transaction                              *)
ForgetKeepingMarks(R) ==
  /\ todo'   = Reset(todo, R, {})
  /\ erased' = Reset(erased, R, {})
  /\ fresh'  = Reset(fresh, R, {})
  /\ UNCHANGED marked

(* The transactions of the requests in R end; their locks are released.    *)
Forget(R) ==
  /\ todo'   = Reset(todo, R, {})
  /\ marked' = Reset(marked, R, {})
  /\ erased' = Reset(erased, R, {})
  /\ fresh'  = Reset(fresh, R, {})

(* The requests in R end with an error.  get_db closes their sessions:     *)
(* the transactions are rolled back, the locks released, the handlers'     *)
(* local variables are gone.                                               *)
Fail(R) ==
  /\ pc'        = Reset(pc, R, "done")
  /\ result'    = Reset(result, R, "error")
  /\ kind'      = Reset(kind, R, "none")
  /\ caller'    = Reset(caller, R, NoUser)
  /\ subject'   = Reset(subject, R, NoUser)
  /\ presented' = Reset(presented, R, 0)
  /\ known'     = Reset(known, R, {})
  /\ gone'      = Reset(gone, R, {})
  /\ before'    = Reset(before, R, {})
  /\ Forget(R)
  /\ UNCHANGED tables

-----------------------------------------------------------------------------
(* AuthService.login                                                       *)

(* get_by_email, the availability check and verify_password.  Bad          *)
(* credentials are refused whatever the state of the account.              *)
LoginSelectUser(r, u) ==
  /\ pc[r] = "idle"
  /\ \/ Available(u) /\ Begin(r, "login", u, u, 0, "insert")
     \/ Fail({r})

-----------------------------------------------------------------------------
(* AuthService.refresh                                                     *)

(* get_by_token.  A string that is in no row is refused likewise.          *)
RefreshSelectToken(r, t) ==
  /\ pc[r] = "idle"
  /\ \/ Usable(t) /\ Begin(r, "refresh", owner[t], owner[t], t, "checkUser")
     \/ ~Usable(t) /\ Fail({r})

(* get_by_id(stored_token.user_id)                                         *)
RefreshSelectUser(r) ==
  /\ pc[r] = "checkUser"
  /\ \/ /\ Available(subject[r])
        /\ Goto(r, "reselect")
        /\ UNCHANGED <<tables, request, pending>>
     \/ ~Available(subject[r]) /\ Fail({r})

(* variant: the presented token is not revoked                             *)
RevokeNothing(r) ==
  /\ pc[r] = "reselect"
  /\ Goto(r, "insert")
  /\ UNCHANGED <<tables, request, pending>>

(* revoke_token queries the token again, and silently does nothing when    *)
(* the row is no longer usable: the refresh goes on and issues a token.    *)
RevokeSelectToken(r) ==
  /\ pc[r] = "reselect"
  /\ \/ /\ Usable(presented[r])
        /\ todo' = [todo EXCEPT ![r] = {presented[r]}]
        /\ Goto(r, "update")
     \/ /\ ~Usable(presented[r])
        /\ Goto(r, "insert")
        /\ UNCHANGED todo
  /\ UNCHANGED <<tables, request, marked, erased, fresh>>

-----------------------------------------------------------------------------
(* AuthService.logout                                                      *)

(* get_current_user: the JWT is decoded, the user is read again.  A bad    *)
(* or expired JWT is refused whatever the state of the account.            *)
LogoutAuthenticate(r, u) ==
  /\ pc[r] = "idle"
  /\ \/ Available(u) /\ Begin(r, "logout", u, u, 0, "select")
     \/ Fail({r})

-----------------------------------------------------------------------------
(* UserService.soft_delete_user                                            *)

DeleteAuthenticate(r, a, u) ==
  /\ pc[r] = "idle"
  /\ \/ Available(a) /\ Begin(r, "delete", a, u, 0, "findTarget")
     \/ Fail({r})

(* _get_target_or_404 and _ensure_can_delete_user                          *)
Deletable(a, u) == u \notin deleted /\ <<a, u>> \in MayDelete

DeleteSelectTarget(r) ==
  /\ pc[r] = "findTarget"
  /\ \/ /\ Deletable(caller[r], subject[r])
        /\ Goto(r, "lockUser")
        /\ UNCHANGED <<tables, request, pending>>
     \/ ~Deletable(caller[r], subject[r]) /\ Fail({r})

(* The two attributes set on the target reach the database as an UPDATE    *)
(* when the next query autoflushes the session.                            *)
DeleteUpdateUser(r) ==
  /\ pc[r] = "lockUser"
  /\ UserRowFree(r, subject[r])
  /\ erased' = [erased EXCEPT ![r] = {subject[r]}]
  /\ Goto(r, "select")
  /\ UNCHANGED <<tables, request, todo, marked, fresh>>

-----------------------------------------------------------------------------
(* RefreshTokenRepository: the writes                                      *)

(* revoke_all_user_tokens: the SELECT                                      *)
SelectTokens(r) ==
  /\ pc[r] = "select"
  /\ todo' = [todo EXCEPT ![r] = UnrevokedOf(subject[r])]
  /\ Goto(r, IF todo'[r] = {} THEN "commit" ELSE "update")
  /\ UNCHANGED <<tables, request, marked, erased, fresh>>

(* variant: revocation commits by itself                                   *)
UpdateTokenAtOnce(r) ==
  /\ pc[r] = "update"
  /\ \E t \in todo[r] :
       /\ NextDirtyRow(r, t)
       /\ TokenRowFree(r, t)
       /\ todo' = [todo EXCEPT ![r] = @ \ {t}]
       /\ revoked' = revoked \cup {t}
       /\ Goto(r, IF todo[r] # {t} THEN "update"
                  ELSE IF kind[r] = "refresh" THEN "insert" ELSE "commit")
  /\ UNCHANGED <<owner, rows, expired, deleted, request, marked, erased, fresh>>

(* The flush of revoke_token and of revoke_all_user_tokens, row by row.    *)
UpdateToken(r) ==
  /\ pc[r] = "update"
  /\ \E t \in todo[r] :
       /\ NextDirtyRow(r, t)
       /\ TokenRowFree(r, t)
       /\ todo' = [todo EXCEPT ![r] = @ \ {t}]
       /\ marked' = [marked EXCEPT ![r] = @ \cup {t}]
       /\ Goto(r, IF todo[r] # {t} THEN "update"
                  ELSE IF kind[r] = "refresh" THEN "insert" ELSE "commit")
  /\ UNCHANGED <<tables, request, erased, fresh>>

(* create_token: the flush draws the next key of the sequence.             *)
InsertToken(r) ==
  /\ pc[r] = "insert"
  /\ owner' = Append(owner, subject[r])
  /\ fresh' = [fresh EXCEPT ![r] = {Len(owner) + 1}]
  /\ Goto(r, "commit")
  /\ UNCHANGED <<rows, revoked, expired, deleted, request, todo, marked, erased>>

(* variant: the answer is given without a commit                           *)
AnswerOnly(r) ==
  /\ pc[r] = "commit"
  /\ pc' = [pc EXCEPT ![r] = "done"]
  /\ result' = [result EXCEPT ![r] = "ok"]
  /\ Forget({r})
  /\ UNCHANGED <<tables, request>>

(* UserRepository.commit, and the answer.                                  *)
Commit(r) ==
  /\ pc[r] = "commit"
  /\ rows'    = rows \cup fresh[r]
  /\ revoked' = revoked \cup marked[r]
  /\ deleted' = deleted \cup erased[r]
  /\ pc'      = [pc EXCEPT ![r] = "done"]
  /\ result'  = [result EXCEPT ![r] = "ok"]
  /\ Forget({r})
  /\ UNCHANGED <<owner, expired, request>>

-----------------------------------------------------------------------------
(* The environment                                                         *)

(* An exception, a cancelled request or a failing statement.               *)
Abort(r) == r \in InFlight /\ Fail({r})

(* The process dies with every request it is serving.                      *)
Crash == InFlight # {} /\ Fail(InFlight)

(* The clock passes expires_at of a token.                                 *)
Expire(t) ==
  /\ t \in (rows \ expired) \cap MayExpire
  /\ expired' = expired \cup {t}
  /\ UNCHANGED <<owner, rows, revoked, deleted, pc, result, request, pending>>

-----------------------------------------------------------------------------

Init ==
  /\ owner = InitOwner
  /\ rows = 1..Len(InitOwner)
  /\ revoked = {}
  /\ expired = {}
  /\ deleted = {}
  /\ pc = [r \in Reqs |-> "idle"]
  /\ result = [r \in Reqs |-> "none"]
  /\ kind = [r \in Reqs |-> "none"]
  /\ caller = [r \in Reqs |-> NoUser] /\ subject = caller
  /\ presented = [r \in Reqs |-> 0]
  /\ todo = [r \in Reqs |-> {}] /\ marked = todo /\ erased = todo /\ fresh = todo
  /\ known = todo /\ gone = todo /\ before = todo

Receive(r) ==
  \/ \E u \in Users : LoginSelectUser(r, u) \/ LogoutAuthenticate(r, u)
  \/ \E t \in rows : RefreshSelectToken(r, t)
  \/ \E a, u \in Users : DeleteAuthenticate(r, a, u)

Step(r) ==
  \/ RefreshSelectUser(r)
  \/ RevokeSelectToken(r)
  \/ DeleteSelectTarget(r)
  \/ DeleteUpdateUser(r)
  \/ SelectTokens(r)
  \/ UpdateToken(r)
  \/ InsertToken(r)
  \/ Commit(r)

(* Every request is answered: the bound on requests is used up.            *)
Quiet == Over = Reqs /\ UNCHANGED vars

Next ==
  \/ \E r \in Reqs : Receive(r) \/ Step(r) \/ Abort(r)
  \/ \E t \in rows : Expire(t)
  \/ Crash
  \/ Quiet

Spec == Init /\ [][Next]_vars

-----------------------------------------------------------------------------
(* Properties                                                              *)

(* Every variable has its type; only committed rows are revoked, expired,  *)
(* selected or locked, and an answered request holds no lock and has no    *)
(* uncommitted row left.                                                   *)
TypeOK ==
  /\ owner \in Seq(Users)
  /\ rows \subseteq 1..Len(owner)
  /\ revoked \subseteq rows /\ expired \subseteq rows
  /\ deleted \subseteq Users
  /\ pc \in [Reqs -> Labels]
  /\ kind \in [Reqs -> Kinds]
  /\ caller \in [Reqs -> Users \cup {NoUser}]
  /\ subject \in [Reqs -> Users \cup {NoUser}]
  /\ presented \in [Reqs -> rows \cup {0}]
  /\ result \in [Reqs -> Outcomes]
  /\ todo \in [Reqs -> SUBSET rows] /\ marked \in [Reqs -> SUBSET rows]
  /\ erased \in [Reqs -> SUBSET Users]
  /\ fresh \in [Reqs -> SUBSET ((1..Len(owner)) \ rows)]
  /\ known \in [Reqs -> SUBSET rows]
  /\ gone \in [Reqs -> SUBSET Users]
  /\ before \in [Reqs -> SUBSET Reqs]
  /\ \A r \in Reqs : pc[r] \in {"idle", "done"} =>
       todo[r] = {} /\ marked[r] = {} /\ erased[r] = {} /\ fresh[r] = {}
  /\ \A r \in InFlight : caller[r] \in Users /\ subject[r] \in Users

Rotated(r) == kind[r] = "refresh" /\ Took(r)
Closed(r)  == kind[r] \in {"logout", "delete"} /\ Took(r)

(* When a refresh has succeeded, the token it was given is dead, also when *)
(* revoke_token found nothing to revoke because another request or the     *)
(* clock was faster.                                                       *)
RotationSpendsToken == \A r \in Reqs : Rotated(r) => ~Usable(presented[r])

(* Two successful refreshes of one token overlapped in time: a token can   *)
(* be traded twice only by requests racing each other, never by a replay   *)
(* that arrives after the first trade was answered.                        *)
RotationsOverlap ==
  \A r1, r2 \in Reqs :
    Rotated(r1) /\ Rotated(r2) /\ presented[r1] = presented[r2] => r1 \notin before[r2]

(* A logout or a soft deletion that is over ends the sessions it found: no *)
(* refresh that begins later gets anything for a token that was usable     *)
(* when the logout began.                                                  *)
LogoutEndsSessions ==
  \A l, r \in Reqs :
    Closed(l) /\ Rotated(r) /\ subject[l] = subject[r] /\ l \in before[r]
      => presented[r] \notin known[l]

(* After the deletion of a user is over nothing that begins later succeeds *)
(* for that user or in that user's name, whatever tokens are left.         *)
DeletedUserInert ==
  \A d, r \in Reqs :
    kind[d] = "delete" /\ Took(d) /\ d \in before[r] /\ Took(r)
      => subject[d] \notin {caller[r], subject[r]}

(* The requests whose transaction has locked the row that r is to update.  *)
WaitsFor(r) ==
  {q \in Reqs \ {r} :
     \/ pc[r] = "lockUser" /\ subject[r] \in erased[q]
     \/ pc[r] = "update" /\ \E t \in todo[r] : NextDirtyRow(r, t) /\ t \in marked[q]}

(* No requests wait for each other: in every set of them somebody waits    *)
(* for none of the set, although a deletion locks the user and then the    *)
(* tokens, and those who revoke several tokens hold some while they wait.  *)
NoDeadlock ==
  \A S \in SUBSET InFlight : S # {} => \E r \in S : WaitsFor(r) \cap S = {}

(* The requests implement the ledger: each takes effect as a whole when it *)
(* commits, on the strength of what it could read since it began, and      *)
(* leaves no trace otherwise.                                              *)
Progress(r) ==
  IF pc[r] = "idle" THEN "waiting" ELSE IF pc[r] = "done" THEN result[r] ELSE "serving"

Ledger == INSTANCE SessionLedger WITH
  holder <- [t \in rows |-> owner[t]],
  live   <- Live,
  served <- [r \in Reqs |-> Progress(r)]

ImplementsLedger == Ledger!Spec

(* Why the invariants hold: the inductive invariant, request by request.   *)

(* Two transactions never insert the same key.                             *)
FreshRowsDistinct ==
  \A q, r \in Reqs : q # r => fresh[q] \cap fresh[r] = {}

(* Where a request of each kind can be.                                    *)
Control(r) ==
  /\ pc[r] = "done" <=> result[r] # "none"
  /\ pc[r] = "idle" \/ result[r] = "error" <=> kind[r] = "none"
  /\ pc[r] \in {"checkUser", "reselect"} => kind[r] = "refresh"
  /\ pc[r] \in {"findTarget", "lockUser"} => kind[r] = "delete"
  /\ pc[r] = "select" => kind[r] \in {"logout", "delete"}
  /\ pc[r] = "update" => kind[r] \in {"refresh", "logout", "delete"}
  /\ pc[r] = "insert" => kind[r] \in {"login", "refresh"}

(* A refresh was given a token usable when it began, and cannot get past   *)
(* the revocation while that token stays usable.                           *)
RefreshInv(r) ==
  kind[r] = "refresh" =>
    /\ presented[r] \in known[r]
    /\ caller[r] = subject[r]
    /\ subject[r] = owner[presented[r]]
    /\ pc[r] = "update" => todo[r] = {presented[r]}
    /\ pc[r] \in {"insert", "commit", "done"} =>
         presented[r] \in marked[r] \cup revoked \cup expired

(* A logout or deletion past its SELECT accounts for every token that was  *)
(* usable when it began, and a deletion holds its users row.               *)
CloseInv(r) ==
  kind[r] \in {"logout", "delete"} =>
    /\ kind[r] = "logout" => caller[r] = subject[r]
    /\ pc[r] \in {"update", "commit", "done"} =>
         \A t \in known[r] :
           owner[t] = subject[r] => t \in todo[r] \cup marked[r] \cup revoked
    /\ pc[r] = "commit" => todo[r] = {}
    /\ kind[r] = "delete" /\ pc[r] \in {"select", "update", "commit"} =>
         subject[r] \in erased[r]
    /\ kind[r] = "delete" /\ pc[r] = "done" => subject[r] \in deleted

(* Whoever a request is served for was there when it began.                *)
PresenceInv(r) ==
  /\ gone[r] \subseteq deleted
  /\ kind[r] \in {"login", "logout", "delete"} => caller[r] \notin gone[r]
  /\ kind[r] = "login" => caller[r] = subject[r]
  /\ pc[r] \notin {"idle", "checkUser", "findTarget"} => subject[r] \notin gone[r]

(* What a request saw when it began bears the marks of all that was over.  *)
HistoryInv(r) ==
  \A q \in before[r] :
    /\ Took(q)
    /\ Rotated(q) => presented[q] \notin known[r]
    /\ Closed(q) => \A t \in known[q] : owner[t] = subject[q] => t \notin known[r]
    /\ kind[q] = "delete" => subject[q] \in gone[r]

RequestInv(r) ==
  Control(r) /\ RefreshInv(r) /\ CloseInv(r) /\ PresenceInv(r) /\ HistoryInv(r)

Inv == TypeOK /\ FreshRowsDistinct /\ \A r \in Reqs : RequestInv(r)

(* What the documentation says and the interleavings break.                *)

(* "One token, one change of pair" (repositories/refresh_tokens.py).       *)
OneRotationPerToken ==
  \A r1, r2 \in Reqs :
    Rotated(r1) /\ Rotated(r2) /\ presented[r1] = presented[r2] => r1 = r2

(* "After logout the session cannot be prolonged" (services/auth.py), and  *)
(* a deletion "revokes all refresh tokens" (services/users.py): a user who *)
(* has logged out or was deleted, and has not logged in, has no token that *)
(* can be used.                                                            *)
ClosingRevokesAll ==
  \A l \in Reqs :
    Closed(l) /\ ~(\E r \in Reqs : kind[r] = "login" /\ subject[r] = subject[l])
      => \A t \in Live : owner[t] # subject[l]

=============================================================================
