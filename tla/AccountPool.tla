----------------------------- MODULE AccountPool -----------------------------
(***************************************************************************)
(* The requests of Accounts, with what they need to get on: a connection   *)
(* from the pool of the engine, which is smaller than the number of        *)
(* requests, and the locks of PostgreSQL, which ends a deadlock by failing *)
(* one of the statements in it.                                            *)
(*                                                                         *)
(* A session takes a connection for the first statement of a transaction   *)
(* and returns it when the transaction ends; register_user and update_user *)
(* read again after their commits and take one a second time.              *)
(***************************************************************************)
EXTENDS Accounts

CONSTANTS
  Asks,      (* the jobs each request may be sent for                      *)
  PoolSize   (* pool_size and max_overflow of the engine                   *)

ASSUME PoolAssumption ==
  Asks \in [Reqs -> SUBSET Jobs] /\ PoolSize \in Nat \ {0}

VARIABLES
  asked,   (* what each request asks for, NoJob before it is received      *)
  conns    (* the number of connections each request holds                 *)

poolVars == <<vars, asked, conns>>

-----------------------------------------------------------------------------

(* variant: the lookup of the email has a session of its own               *)
SessionsByRepository(r) == IF pc[r] = "check" THEN 2 ELSE 1

(* get_db is resolved once for a request: its dependencies share a session.*)
Sessions(r) == 1

Received(r) == asked[r] # NoJob /\ pc[r] # "done"

(* The next statement of r needs a connection that r does not hold.        *)
Waiting(r) == Received(r) /\ conns[r] < Sessions(r)

(* The connections the pool has given away: the i-th of request q.         *)
CheckedOut == {c \in Reqs \X (1..PoolSize) : c[2] <= conns[c[1]]}

(* The client sends the request.                                           *)
Arrive(r, j) ==
  /\ asked[r] = NoJob
  /\ asked' = [asked EXCEPT ![r] = j]
  /\ UNCHANGED <<vars, conns>>

Connect(r) ==
  /\ Waiting(r)
  /\ Cardinality(CheckedOut) < PoolSize
  /\ conns' = [conns EXCEPT ![r] = @ + 1]
  /\ UNCHANGED <<vars, asked>>

(* variant: what an error interrupts keeps its connection                  *)
ReturnOnSuccess(r) ==
  conns' = [conns EXCEPT ![r] =
    IF pc'[r] = "reread" \/ result'[r] \notin {"none", "aborted"} THEN 0 ELSE @]

(* The transaction is over, by COMMIT or because get_db closes the session.*)
Return(r) ==
  conns' = [conns EXCEPT ![r] = IF pc'[r] \in {"reread", "done"} THEN 0 ELSE @]

(* A statement of r, on a connection.                                      *)
Execute(r) ==
  /\ Received(r) /\ ~Waiting(r)
  /\ RegisterCheck(r, asked[r]) \/ SelectTarget(r, asked[r]) \/ Step(r)
  /\ Return(r)
  /\ UNCHANGED asked

(* An error answered while r waits for a connection (pool_timeout), for a  *)
(* lock, or for anything else.                                             *)
Interrupt(r) ==
  /\ Received(r)
  /\ Abort(r)
  /\ Return(r)
  /\ UNCHANGED asked

-----------------------------------------------------------------------------
(* Locks                                                                   *)

(* The transactions whose end the statement of r waits for.                *)
WaitsFor(r) ==
  {q \in Reqs \ {r} :
     \/ /\ pc[r] = "lock"
        /\ Changed(r) # [NoWrite EXCEPT !.row = job[r].user]
        /\ write[q].row = job[r].user
     \/ /\ pc[r] = "index"
        /\ \/ pc[q] = "commit" /\ write[q].mail = write[r].mail
           \/ write[q].row \in users /\ mail[write[q].row] = write[r].mail}

Closed(S) == S # {} /\ \A r \in S : WaitsFor(r) \cap S # {}

(* The cycles of the graph of waits.                                       *)
Cycles == {S \in SUBSET InFlight : Closed(S) /\ \A T \in SUBSET S : Closed(T) => T = S}

(* PostgreSQL fails the statement of one of the transactions in a cycle.   *)
FailVictim == \E r \in UNION Cycles : Interrupt(r)

-----------------------------------------------------------------------------

PoolInit ==
  /\ Init
  /\ asked = [r \in Reqs |-> NoJob]
  /\ conns = [r \in Reqs |-> 0]

PoolQuiet == (\A r \in Reqs : pc[r] = "done") /\ UNCHANGED poolVars

PoolNext ==
  \/ \E r \in Reqs : \/ \E j \in Asks[r] : Arrive(r, j)
                     \/ Connect(r) \/ Execute(r) \/ Interrupt(r)
  \/ FailVictim
  \/ PoolQuiet

PoolSpec == PoolInit /\ [][PoolNext]_poolVars

(* A statement that waits for nothing returns and its coroutine goes on; a *)
(* free connection is handed out; deadlock_timeout passes.  Nobody has to  *)
(* send a request, and no wait has to be ended by the timeout of the pool. *)
FairPoolSpec ==
  /\ PoolSpec
  /\ \A r \in Reqs : WF_poolVars(Connect(r)) /\ WF_poolVars(Execute(r))
  /\ WF_poolVars(FailVictim)

-----------------------------------------------------------------------------
(* Properties                                                              *)

(* Every variable has its type, connections are held by requests that are  *)
(* being served, and whoever holds a row lock holds a connection too.      *)
PoolTypeOK ==
  /\ asked \in [Reqs -> Jobs \cup {NoJob}]
  /\ conns \in [Reqs -> 0..PoolSize]
  /\ Cardinality(CheckedOut) <= PoolSize
  /\ \A r \in Reqs :
       /\ conns[r] > 0 => Received(r)
       /\ write[r] # NoWrite => conns[r] > 0

(* The requests that can run a statement now.                              *)
CanGo == {r \in Reqs : Received(r) /\ ~Waiting(r) /\ WaitsFor(r) = {}}

(* Requests come to a standstill only where updates (users.py,             *)
(* update_user) move accounts to emails that each other's accounts have:   *)
(* never over connections, over rows, or with a registration among them.   *)
OnlySwapsDeadlock ==
  /\ \A S \in Cycles : \A r \in S :
       /\ job[r].kind = "update" /\ pc[r] = "index"
       /\ \E q \in S \ {r} : mail[write[q].row] = write[r].mail
  /\ (\E r \in Reqs : conns[r] > 0) => CanGo # {} \/ Cycles # {}

(* A request that is received is answered, whatever the others wait for,   *)
(* be it a row, an email, or one of the connections.                       *)
EveryRequestAnswered ==
  \A r \in Reqs : asked[r] # NoJob ~> pc[r] = "done"

=============================================================================
