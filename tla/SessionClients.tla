--------------------------- MODULE SessionClients ---------------------------
(***************************************************************************)
(* The clients of AuthSessions.  A client is one device of a user: it has  *)
(* one request under way at a time, keeps the refresh token of its last    *)
(* answer, and gives it up when it is refused.  A client that hears        *)
(* nothing gives up waiting and goes on with what it has, so a retry may   *)
(* run beside the request it repeats, or come after its commit.            *)
(***************************************************************************)
EXTENDS AuthSessions

CONSTANTS
  Clients,     (* the devices                                              *)
  UserOf,      (* whose they are                                           *)
  FirstToken,  (* the token each holds at the beginning, 0 for none        *)
  Patient,     (* clients that always wait for the answer                  *)
  NoReq        (* what a client waits for that waits for nothing           *)

ASSUME ClientAssumption ==
  /\ UserOf \in [Clients -> Users]
  /\ FirstToken \in [Clients -> 0..Len(InitOwner)]
  /\ \A c \in Clients : FirstToken[c] # 0 => InitOwner[FirstToken[c]] = UserOf[c]
  /\ \A c, d \in Clients : FirstToken[c] = FirstToken[d] => c = d \/ FirstToken[c] = 0
  /\ Patient \subseteq Clients
  /\ NoReq \notin Reqs

VARIABLES
  holds,      (* the refresh token the client would present, 0 for none    *)
  asks,       (* the request it waits for                                  *)
  wants,      (* what that request is                                      *)
  issued,     (* by request: the token its answer carries, 0 for none      *)
  refused,    (* requests answered 4xx, by a decision of the code          *)
  abandoned   (* by client: requests it has stopped waiting for            *)

clients == <<holds, asks, wants, issued, refused, abandoned>>
all     == <<vars, clients>>

-----------------------------------------------------------------------------
(* Requests                                                                *)

(* The client sends r.  The first statement may refuse it at once.         *)
Ask(c, r, what) ==
  /\ asks[c] = NoReq
  /\ asks' = [asks EXCEPT ![c] = r]
  /\ wants' = [wants EXCEPT ![c] = what]
  /\ refused' = IF pc'[r] = "done" THEN refused \cup {r} ELSE refused
  /\ UNCHANGED <<holds, issued, abandoned>>

AskLogin(c, r) ==
  /\ holds[c] = 0
  /\ LoginSelectUser(r, UserOf[c])
  /\ Ask(c, r, "login")

AskRefresh(c, r) ==
  /\ holds[c] # 0
  /\ RefreshSelectToken(r, holds[c])
  /\ Ask(c, r, "refresh")

AskLogout(c, r) ==
  /\ holds[c] # 0
  /\ LogoutAuthenticate(r, UserOf[c])
  /\ Ask(c, r, "logout")

AskDelete(c, r) ==
  /\ holds[c] # 0
  /\ DeleteAuthenticate(r, UserOf[c], UserOf[c])
  /\ Ask(c, r, "delete")

(* A statement of the handler; the answer is made of what it inserts.      *)
Serve(r) ==
  /\ Step(r)
  /\ issued' = [issued EXCEPT ![r] = IF pc[r] = "insert" THEN Len(owner') ELSE @]
  /\ refused' = IF result'[r] = "error" THEN refused \cup {r} ELSE refused
  /\ UNCHANGED <<holds, asks, wants, abandoned>>

(* A 500, a crash, the clock: nothing the client can tell apart.           *)
Fault ==
  /\ (\E r \in Reqs : Abort(r)) \/ Crash \/ (\E t \in rows : Expire(t))
  /\ UNCHANGED clients

-----------------------------------------------------------------------------
(* Answers                                                                 *)

(* What the client holds after the answer to r.  A 5xx costs nothing.      *)
After(c, r) ==
  CASE result[r] = "ok" /\ wants[c] \in {"login", "refresh"} -> issued[r]
    [] result[r] = "ok" /\ wants[c] \in {"logout", "delete"} -> 0
    [] result[r] = "error" /\ wants[c] = "refresh" /\ r \in refused -> 0
    [] OTHER -> holds[c]

Answer(c) ==
  /\ asks[c] # NoReq
  /\ pc[asks[c]] = "done"
  /\ holds' = [holds EXCEPT ![c] = After(c, asks[c])]
  /\ asks' = [asks EXCEPT ![c] = NoReq]
  /\ UNCHANGED <<vars, wants, issued, refused, abandoned>>

(* The client times out, or the connection breaks, before the answer       *)
(* arrives.  The handler is not told.                                      *)
Abandon(c) ==
  /\ c \notin Patient
  /\ asks[c] # NoReq
  /\ abandoned' = [abandoned EXCEPT ![c] = @ \cup {asks[c]}]
  /\ asks' = [asks EXCEPT ![c] = NoReq]
  /\ UNCHANGED <<vars, holds, wants, issued, refused>>

-----------------------------------------------------------------------------

ClientsInit ==
  /\ Init
  /\ holds = FirstToken
  /\ asks = [c \in Clients |-> NoReq]
  /\ wants = [c \in Clients |-> "none"]
  /\ issued = [r \in Reqs |-> 0]
  /\ refused = {}
  /\ abandoned = [c \in Clients |-> {}]

(* Every request is answered or abandoned: the bound on them is used up.   *)
AllQuiet ==
  /\ Over = Reqs /\ \A c \in Clients : asks[c] = NoReq
  /\ UNCHANGED all

(* A request that was not sent; they differ in nothing but their names.    *)
Unsent == LET idle == {r \in Reqs : pc[r] = "idle"}
          IN IF idle = {} THEN {} ELSE {CHOOSE r \in idle : TRUE}

ClientsNext ==
  \/ \E c \in Clients, r \in Unsent :
       AskLogin(c, r) \/ AskRefresh(c, r) \/ AskLogout(c, r) \/ AskDelete(c, r)
  \/ \E r \in Reqs : Serve(r)
  \/ Fault
  \/ \E c \in Clients : Answer(c) \/ Abandon(c)
  \/ AllQuiet

ClientsSpec == ClientsInit /\ [][ClientsNext]_all

(* The event loop resumes a coroutine whose statement has returned, and    *)
(* the database runs a statement that waits for no lock.  Nothing makes    *)
(* clients send requests, wait or give up, the clock expire tokens or      *)
(* requests fail.                                                          *)
FairClientsSpec == ClientsSpec /\ \A r \in Reqs : WF_all(Serve(r))

-----------------------------------------------------------------------------
(* Properties                                                              *)

(* Every variable has its type; a token in an answer or in the hands of a  *)
(* client is in the table and of its user, and no request has two clients. *)
ClientsTypeOK ==
  /\ holds \in [Clients -> rows \cup {0}]
  /\ asks \in [Clients -> Reqs \cup {NoReq}]
  /\ wants \in [Clients -> Kinds]
  /\ issued \in [Reqs -> 0..Len(owner)]
  /\ refused \subseteq Over
  /\ abandoned \in [Clients -> SUBSET Reqs]
  /\ \A c \in Clients : holds[c] # 0 => owner[holds[c]] = UserOf[c]
  /\ \A c, d \in Clients : asks[c] = asks[d] => c = d \/ asks[c] = NoReq

(* The tokens of a user that a device holds or is about to be given.       *)
Accounted(u) ==
  UNION {{holds[c]} \cup (IF asks[c] = NoReq THEN {} ELSE {issued[asks[c]]}) :
         c \in {d \in Clients : UserOf[d] = u}}

(* Tokens that no device held at the beginning.                            *)
Lost == (1..Len(InitOwner)) \ {FirstToken[c] : c \in Clients}

Orphans(u) == {t \in Live \ Lost : owner[t] = u} \ Accounted(u)

(* Each answer a user's devices did not wait for leaves at most one usable *)
(* token that nobody holds, whatever is retried and however the retries    *)
(* overlap; a user whose devices are patient has none but those lost       *)
(* before, so that what they hold is all there is to revoke.               *)
OrphansBounded ==
  \A u \in Users \ deleted :
    Cardinality(Orphans(u)) <=
      Cardinality(UNION {abandoned[c] : c \in {d \in Clients : UserOf[d] = u}})

(* A request that a device has sent is eventually answered, whatever its   *)
(* retries and the other devices lock at the same time: no requests block  *)
(* each other for ever on the rows they have locked.                       *)
EveryRequestAnswered == \A r \in Reqs : r \in InFlight ~> r \in Over

(* A device that waits for nothing and holds a token can use it, unless    *)
(* the token has expired, the account is gone, somebody closed the user's  *)
(* sessions and was not over when the token was asked for, or the device   *)
(* did not wait for the refresh that spent it.  A refresh that fails, at   *)
(* whatever statement, costs nothing.                                      *)
HeldTokensWork ==
  \A c \in Clients :
    asks[c] = NoReq /\ holds[c] # 0 /\ ~Usable(holds[c]) =>
      \/ holds[c] \in expired
      \/ UserOf[c] \in deleted
      \/ \E l \in Reqs :
           /\ Closed(l) /\ subject[l] = UserOf[c]
           /\ \A i \in Reqs : issued[i] = holds[c] => l \notin before[i]
      \/ \E r \in abandoned[c] : Rotated(r) /\ presented[r] = holds[c]

=============================================================================
