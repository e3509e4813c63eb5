------------------------- MODULE AccountPool_proofs -------------------------
(* Proofs about AccountPool, for any requests, jobs and size of the pool.  *)
EXTENDS AccountPool, Accounts_proofs, FiniteSetTheorems, WellFoundedInduction

-----------------------------------------------------------------------------
(* The requests are those of Accounts                                      *)

AskedTyped == asked \in [Reqs -> Jobs \cup {NoJob}]

LEMMA AskedStep == AskedTyped /\ [PoolNext]_poolVars => AskedTyped'
<1> SUFFICES ASSUME AskedTyped, [PoolNext]_poolVars PROVE AskedTyped'
  OBVIOUS
<1>1. ASSUME NEW r \in Reqs, NEW j \in Asks[r], Arrive(r, j) PROVE AskedTyped'
  BY <1>1, PoolAssumption DEF AskedTyped, Arrive
<1>2. CASE UNCHANGED asked
  BY <1>2 DEF AskedTyped
<1>3. UNION Cycles \subseteq Reqs
  BY DEF Cycles, InFlight
<1> QED BY <1>1, <1>2, <1>3 DEF PoolNext, Connect, Execute, Interrupt, FailVictim, PoolQuiet, poolVars

(* A statement of r, or its failure, is one of Accounts.                   *)
LEMMA PoolActs ==
  ASSUME AskedTyped, NEW r \in Reqs, Execute(r) \/ Interrupt(r)
  PROVE  Acts(r)
<1>1. asked[r] \in Jobs
  BY DEF AskedTyped, Execute, Interrupt, Received
<1> QED BY <1>1 DEF Execute, Interrupt, Acts

LEMMA PoolIsAccounts == AskedTyped /\ [PoolNext]_poolVars => [Next]_vars
<1> SUFFICES ASSUME AskedTyped, [PoolNext]_poolVars PROVE Next \/ UNCHANGED vars
  OBVIOUS
<1>1. ASSUME NEW r \in Reqs, Execute(r) \/ Interrupt(r) PROVE Next
  BY <1>1, PoolActs DEF Next, Acts
<1>2. UNION Cycles \subseteq Reqs
  BY DEF Cycles, InFlight
<1>3. CASE FailVictim
  BY <1>1, <1>2, <1>3 DEF FailVictim
<1> QED BY <1>1, <1>3 DEF PoolNext, Arrive, Connect, PoolQuiet, poolVars

(* What waits for connections and locks is still Accounts: all that is     *)
(* proved of it holds however small the pool is, and whatever PostgreSQL   *)
(* fails to end a deadlock.                                                *)
THEOREM AccountsUndisturbed == PoolSpec => Spec
<1>1. PoolInit => Init /\ AskedTyped
  BY DEF PoolInit, AskedTyped
<1> QED BY <1>1, AskedStep, PoolIsAccounts, PTL DEF PoolSpec, Spec

-----------------------------------------------------------------------------
(* Connections                                                             *)

(* The type invariant, and that the pool can be counted.                   *)
PoolInv == Inv /\ PoolTypeOK /\ IsFiniteSet(CheckedOut)

LEMMA PoolInvInit == PoolInit => PoolInv
<1> SUFFICES ASSUME PoolInit PROVE PoolInv
  OBVIOUS
<1>1. Inv /\ write = [r \in Reqs |-> NoWrite]
  BY InitInv DEF PoolInit, Init
<1>2. CheckedOut = {}
  BY DEF PoolInit, CheckedOut
<1>3. IsFiniteSet(CheckedOut) /\ Cardinality(CheckedOut) = 0
  BY <1>2, FS_EmptySet
<1>4. PoolTypeOK
  BY <1>1, <1>3, PoolAssumption DEF PoolInit, PoolTypeOK
<1> QED BY <1>1, <1>3, <1>4 DEF PoolInv

(* Connections come back at the end of a transaction, not earlier.         *)
LEMMA ActPool ==
  ASSUME PoolInv, AskedTyped, Inv', NEW r \in Reqs, Execute(r) \/ Interrupt(r)
  PROVE  PoolInv'
<1>1. /\ TypeOK /\ PoolTypeOK /\ IsFiniteSet(CheckedOut) /\ Received(r)
      /\ Return(r) /\ asked' = asked
  BY DEF PoolInv, Inv, Execute, Interrupt
<1>2. \A q \in Reqs \ {r} : pc'[q] = pc[q] /\ write'[q] = write[q]
  BY <1>1, PoolActs, ActsAreLocal DEF Still
<1>3. conns' = [conns EXCEPT ![r] = IF pc'[r] \in {"reread", "done"} THEN 0 ELSE @]
  BY <1>1 DEF Return
<1>4. conns' \in [Reqs -> 0..PoolSize] /\ \A q \in Reqs : conns'[q] <= conns[q]
  BY <1>1, <1>3, PoolAssumption DEF PoolTypeOK
<1>5. CheckedOut' \subseteq CheckedOut
  <2>1. ASSUME NEW c \in CheckedOut' PROVE c \in CheckedOut
    <3>1. c \in Reqs \X (1..PoolSize) /\ c[1] \in Reqs /\ c[2] <= conns'[c[1]] /\ c[2] \in Nat
      BY <2>1 DEF CheckedOut
    <3>2. conns'[c[1]] <= conns[c[1]] /\ conns'[c[1]] \in Nat /\ conns[c[1]] \in Nat
      BY <1>1, <1>4, <3>1 DEF PoolTypeOK
    <3> QED BY <3>1, <3>2 DEF CheckedOut
  <2> QED BY <2>1
<1>6. IsFiniteSet(CheckedOut') /\ Cardinality(CheckedOut') <= PoolSize
  BY <1>1, <1>5, FS_Subset, FS_CardinalityType, PoolAssumption DEF PoolTypeOK
<1>7. ASSUME NEW q \in Reqs, conns'[q] > 0 PROVE Received(q)'
  BY <1>1, <1>2, <1>3, <1>7 DEF PoolTypeOK, Received
<1>8. ASSUME NEW q \in Reqs, write'[q] # NoWrite PROVE conns'[q] > 0
  <2>1. CASE q = r
    <3>1. pc'[r] \in {"index", "commit"}
      BY <1>8, <2>1 DEF Inv, RequestInv, WriteInv
    <3>2. Execute(r)
      BY <1>1, <3>1 DEF Interrupt, Abort, Answer, TypeOK
    <3>3. conns[r] \in Nat /\ conns[r] > 0
      BY <1>1, <3>2 DEF Execute, Waiting, Sessions, PoolTypeOK
    <3> QED BY <1>1, <1>3, <2>1, <3>1, <3>3 DEF PoolTypeOK
  <2>2. CASE q # r
    BY <1>1, <1>2, <1>3, <1>8, <2>2 DEF PoolTypeOK
  <2> QED BY <2>1, <2>2
<1>9. PoolTypeOK'
  BY <1>1, <1>4, <1>6, <1>7, <1>8 DEF PoolTypeOK
<1> QED BY <1>6, <1>9 DEF PoolInv

LEMMA ConnectPool ==
  ASSUME PoolInv, Inv', NEW r \in Reqs, Connect(r)
  PROVE  PoolInv'
<1>1. PoolTypeOK /\ IsFiniteSet(CheckedOut) /\ Received(r) /\ UNCHANGED <<vars, asked>>
      /\ Cardinality(CheckedOut) < PoolSize
  BY DEF PoolInv, Connect, Waiting
<1>2. conns[r] = 0 /\ conns' = [conns EXCEPT ![r] = 1]
  <2>1. conns[r] \in 0..PoolSize /\ conns[r] < 1
    BY <1>1 DEF PoolTypeOK, Connect, Waiting, Sessions
  <2>2. conns[r] = 0
    BY <2>1, PoolAssumption
  <2> QED BY <2>2 DEF Connect
<1>3. conns' \in [Reqs -> 0..PoolSize]
  BY <1>1, <1>2, PoolAssumption DEF PoolTypeOK
<1>4. CheckedOut' = CheckedOut \cup {<<r, 1>>} /\ <<r, 1>> \notin CheckedOut
  <2>1. \A q \in Reqs : conns'[q] = IF q = r THEN 1 ELSE conns[q]
    BY <1>1, <1>2 DEF PoolTypeOK
  <2>2. 1 \in 1..PoolSize
    BY PoolAssumption
  <2>3. \A q \in Reqs, i \in 1..PoolSize : i <= conns'[q] <=> i <= conns[q] \/ (q = r /\ i = 1)
    BY <1>1, <1>2, <2>1, PoolAssumption DEF PoolTypeOK
  <2>4. <<r, 1>> \in Reqs \X (1..PoolSize) /\ ~(1 <= conns[r])
    BY <1>2, <2>2
  <2>5. ASSUME NEW c \in Reqs \X (1..PoolSize)
        PROVE  c \in CheckedOut' <=> c \in CheckedOut \/ c = <<r, 1>>
    <3>1. c = <<c[1], c[2]>> /\ c[1] \in Reqs /\ c[2] \in 1..PoolSize
      OBVIOUS
    <3>2. c = <<r, 1>> <=> c[1] = r /\ c[2] = 1
      BY <3>1
    <3> QED BY <2>3, <3>1, <3>2 DEF CheckedOut
  <2>6. CheckedOut' \subseteq Reqs \X (1..PoolSize) /\ CheckedOut \subseteq Reqs \X (1..PoolSize)
    BY DEF CheckedOut
  <2>7. <<r, 1>> \notin CheckedOut
    BY <2>4 DEF CheckedOut
  <2> QED BY <2>4, <2>5, <2>6, <2>7
<1>5. IsFiniteSet(CheckedOut') /\ Cardinality(CheckedOut') <= PoolSize
  <2>1. Cardinality(CheckedOut) \in Nat
    BY <1>1, FS_CardinalityType
  <2>2. IsFiniteSet(CheckedOut') /\ Cardinality(CheckedOut') = Cardinality(CheckedOut) + 1
    BY <1>1, <1>4, FS_AddElement
  <2> QED BY <1>1, <2>1, <2>2, PoolAssumption
<1>6. \A q \in Reqs : (conns'[q] > 0 => Received(q)') /\ (write'[q] # NoWrite => conns'[q] > 0)
  BY <1>1, <1>2 DEF PoolTypeOK, Received, vars
<1>7. PoolTypeOK'
  BY <1>1, <1>3, <1>5, <1>6 DEF PoolTypeOK
<1> QED BY <1>5, <1>7 DEF PoolInv

LEMMA PoolInvStep == PoolInv /\ [PoolNext]_poolVars => PoolInv'
<1> SUFFICES ASSUME PoolInv, [PoolNext]_poolVars PROVE PoolInv'
  OBVIOUS
<1>1. AskedTyped /\ AskedTyped'
  BY AskedStep DEF PoolInv, PoolTypeOK, AskedTyped
<1>2. Inv'
  BY <1>1, PoolIsAccounts, NextInv DEF PoolInv
<1>3. ASSUME NEW r \in Reqs, NEW j \in Asks[r], Arrive(r, j) PROVE PoolInv'
  <2>1. UNCHANGED <<vars, conns>> /\ asked' = [asked EXCEPT ![r] = j] /\ j # NoJob
    BY <1>3, PoolAssumption, JobsTyped DEF Arrive
  <2>2. CheckedOut' = CheckedOut
    BY <2>1 DEF CheckedOut
  <2>3. \A q \in Reqs : Received(q) => Received(q)'
    BY <1>1, <2>1 DEF Received, AskedTyped, vars
  <2>4. PoolTypeOK'
    BY <1>1, <2>1, <2>2, <2>3 DEF PoolInv, PoolTypeOK, AskedTyped, vars
  <2> QED BY <1>2, <2>2, <2>4 DEF PoolInv
<1>4. ASSUME NEW r \in Reqs, Execute(r) \/ Interrupt(r) PROVE PoolInv'
  BY <1>1, <1>2, <1>4, ActPool
<1>5. UNION Cycles \subseteq Reqs
  BY DEF Cycles, InFlight
<1>6. CASE FailVictim
  BY <1>4, <1>5, <1>6 DEF FailVictim
<1>7. CASE PoolQuiet \/ UNCHANGED poolVars
  <2>1. UNCHANGED <<vars, asked, conns>>
    BY <1>7 DEF PoolQuiet, poolVars
  <2>2. CheckedOut' = CheckedOut
    BY <2>1 DEF CheckedOut
  <2> QED BY <1>2, <2>1, <2>2 DEF PoolInv, PoolTypeOK, Received, vars
<1> QED BY <1>2, <1>3, <1>4, <1>6, <1>7, ConnectPool DEF PoolNext

(* For a pool of any size and any number of requests: no more connections  *)
(* are out than the pool has, each with a request that is being served,    *)
(* and no row is locked by one that has none.                              *)
THEOREM PoolTypeCorrect == PoolSpec => []PoolTypeOK
<1>1. PoolInv => PoolTypeOK
  BY DEF PoolInv
<1> QED BY <1>1, PoolInvInit, PoolInvStep, PTL DEF PoolSpec

-----------------------------------------------------------------------------
(* Deadlocks                                                               *)

Waited(r) == \E q \in Reqs : r \in WaitsFor(q)

(* What is waited for is a row that has been written, or an email that has *)
(* entered the index; both are in the writes of a transaction.             *)
LEMMA WaitedHasWritten ==
  ASSUME Inv, NEW r \in Reqs, Waited(r)
  PROVE  /\ write[r] # NoWrite
         /\ pc[r] # "commit" => write[r].row \in users
<1>1. PICK q \in Reqs : r \in WaitsFor(q)
  BY DEF Waited
<1>2. /\ ControlInv(q) /\ WriteInv(q) /\ TypeOK
  BY DEF Inv, RequestInv
<1>3. 0 \notin users
  BY <1>2, Columns
<1>4. CASE pc[q] = "lock"
  <2>1. write[r].row = job[q].user
    BY <1>1, <1>4 DEF WaitsFor
  <2>2. job[q].user \in users
    BY <1>2, <1>4 DEF ControlInv
  <2> QED BY <1>3, <2>1, <2>2 DEF NoWrite
<1>5. CASE pc[q] = "index"
  <2>1. write[q].mail \in Emails
    BY <1>2, <1>5 DEF WriteInv
  <2>2. CASE pc[r] = "commit" /\ write[r].mail = write[q].mail
    BY <2>1, <2>2, AccountsAssumption DEF NoWrite
  <2>3. CASE write[r].row \in users
    BY <1>3, <2>3 DEF NoWrite
  <2> QED BY <1>1, <1>5, <2>2, <2>3 DEF WaitsFor
<1> QED BY <1>1, <1>4, <1>5 DEF WaitsFor

(* A request that waits and is waited for is an update that has locked its *)
(* row and is to enter the index.                                          *)
LEMMA OnlyUpdatesDoBoth ==
  ASSUME Inv, NEW r \in Reqs, Waited(r), WaitsFor(r) # {}
  PROVE  job[r].kind = "update" /\ pc[r] = "index"
<1>1. pc[r] \in {"lock", "index"}
  BY DEF WaitsFor
<1>2. write[r] # NoWrite /\ write[r].row \in users
  BY <1>1, WaitedHasWritten
<1>3. ControlInv(r) /\ WriteInv(r) /\ TypeOK
  BY DEF Inv, RequestInv
<1>4. pc[r] = "index"
  BY <1>1, <1>2, <1>3 DEF WriteInv
<1>5. job[r] \in AllJobs
  BY <1>3, <1>4 DEF ControlInv, TypeOK
<1>6. job[r].kind \in {"register", "update", "delete"}
  BY <1>5 DEF AllJobs, Kinds
<1>7. job[r].kind # "delete" /\ job[r].kind # "register"
  BY <1>2, <1>3, <1>4 DEF ControlInv, WriteInv
<1> QED BY <1>4, <1>6, <1>7

(* In a cycle everyone is waited for: the others would be a smaller one.   *)
LEMMA CyclesAreWaited ==
  ASSUME NEW S \in Cycles, NEW r \in S
  PROVE  \E q \in S : r \in WaitsFor(q)
<1> SUFFICES ASSUME \A q \in S : r \notin WaitsFor(q) PROVE FALSE
  OBVIOUS
<1>1. Closed(S) /\ \A T \in SUBSET S : Closed(T) => T = S
  BY DEF Cycles
<1>2. PICK q \in WaitsFor(r) : q \in S
  BY <1>1 DEF Closed
<1>3. q \in S \ {r}
  BY <1>2 DEF WaitsFor
<1>4. \A p \in S \ {r} : WaitsFor(p) \cap (S \ {r}) # {}
  BY <1>1 DEF Closed
<1>5. Closed(S \ {r})
  BY <1>3, <1>4 DEF Closed
<1> QED BY <1>1, <1>5

LEMMA CyclesAreSwaps ==
  ASSUME Inv, NEW S \in Cycles, NEW r \in S
  PROVE  /\ job[r].kind = "update" /\ pc[r] = "index"
         /\ \E q \in S \ {r} : mail[write[q].row] = write[r].mail
<1>1. S \subseteq Reqs
  BY DEF Cycles, InFlight
<1>2. \A q \in S : Waited(q) /\ WaitsFor(q) # {}
  <2> TAKE q \in S
  <2>1. Waited(q)
    BY <1>1, CyclesAreWaited DEF Waited
  <2>2. WaitsFor(q) # {}
    BY DEF Cycles, Closed
  <2> QED BY <2>1, <2>2
<1>3. \A q \in S : job[q].kind = "update" /\ pc[q] = "index"
  BY <1>1, <1>2, OnlyUpdatesDoBoth
<1>4. PICK q \in S : q \in WaitsFor(r)
  BY DEF Cycles, Closed
<1>5. q # r /\ mail[write[q].row] = write[r].mail
  BY <1>1, <1>3, <1>4 DEF WaitsFor
<1> QED BY <1>3, <1>4, <1>5

(* Who waits for nothing within a finite set waits outside it: a finite    *)
(* set with no way out has a cycle in it.                                  *)
LEMMA ClosedHasCycle ==
  ASSUME NEW W \in SUBSET InFlight, IsFiniteSet(W), Closed(W)
  PROVE  Cycles # {}
<1> DEFINE C == {T \in SUBSET W : Closed(T)}
           Below == StrictSubsetOrdering(W)
<1>1. IsWellFoundedOn(Below, SUBSET W)
  BY FS_StrictSubsetOrderingWellFounded, FS_FiniteSubsetsOfFinite
<1>2. C # {} /\ C \subseteq SUBSET W
  OBVIOUS
<1>3. PICK S \in C : \A T \in C : <<T, S>> \notin Below
  <2> HIDE DEF C, Below
  <2> QED BY <1>1, <1>2, WFMin
<1>4. S \in SUBSET InFlight /\ Closed(S)
  OBVIOUS
<1>5. ASSUME NEW T \in SUBSET S, Closed(T) PROVE T = S
  BY <1>3, <1>5 DEF StrictSubsetOrdering
<1> QED BY <1>4, <1>5 DEF Cycles

(* The requests with a connection are no more than the connections.        *)
LEMMA ConnectedFinite ==
  ASSUME PoolInv
  PROVE  IsFiniteSet({r \in Reqs : conns[r] > 0})
<1> DEFINE W == {r \in Reqs : conns[r] > 0}
           f == [c \in CheckedOut |-> c[1]]
<1>1. ASSUME NEW r \in W PROVE <<r, 1>> \in CheckedOut
  BY <1>1, PoolAssumption DEF PoolInv, PoolTypeOK, CheckedOut
<1>2. ASSUME NEW c \in CheckedOut PROVE f[c] \in W
  <2>1. c[1] \in Reqs /\ c[2] \in 1..PoolSize /\ c[2] <= conns[c[1]]
    BY <1>2 DEF CheckedOut
  <2> QED BY <2>1, PoolAssumption DEF PoolInv, PoolTypeOK
<1>3. f \in [CheckedOut -> W] /\ \A r \in W : \E c \in CheckedOut : f[c] = r
  BY <1>1, <1>2
<1>4. f \in Surjection(CheckedOut, W)
  <2> HIDE DEF f, W
  <2> QED BY <1>3 DEF Surjection
<1> QED BY <1>4, FS_Surjection DEF PoolInv

(* Who has a connection runs a statement or waits for another who has one. *)
LEMMA NoOneWaitsForConnections ==
  ASSUME PoolInv, NEW r \in Reqs, conns[r] > 0
  PROVE  CanGo # {} \/ Cycles # {}
<1> DEFINE W == {q \in Reqs : conns[q] > 0}
<1> SUFFICES ASSUME CanGo = {} PROVE Cycles # {}
  OBVIOUS
<1>1. Inv /\ PoolTypeOK
  BY DEF PoolInv
<1>2. ASSUME NEW q \in W PROVE WaitsFor(q) \cap W # {} /\ q \in InFlight
  <2>1. q \in Reqs /\ conns[q] > 0 /\ conns[q] \in Nat /\ Received(q)
    BY <1>1, <1>2 DEF PoolTypeOK
  <2>2. ~Waiting(q)
    BY <2>1 DEF Waiting, Sessions
  <2>3. WaitsFor(q) # {}
    BY <2>1, <2>2 DEF CanGo
  <2>4. PICK p \in Reqs : p \in WaitsFor(q)
    BY <2>3 DEF WaitsFor
  <2>5. write[p] # NoWrite
    BY <1>1, <2>1, <2>4, WaitedHasWritten DEF Waited
  <2>6. p \in W
    BY <1>1, <2>5 DEF PoolTypeOK
  <2>7. q \in InFlight
    BY <2>1, <2>3 DEF WaitsFor, InFlight
  <2> QED BY <2>4, <2>6, <2>7
<1>3. Closed(W) /\ W \in SUBSET InFlight
  BY <1>2 DEF Closed
<1>4. IsFiniteSet(W)
  BY ConnectedFinite
<1> QED BY <1>3, <1>4, ClosedHasCycle

(* However many requests there are, whatever they ask for and however      *)
(* small the pool is, only updates whose new emails are those of the       *)
(* accounts that the others update can deadlock; a request with a          *)
(* connection never keeps everyone waiting for connections.                *)
THEOREM DeadlocksAreSwaps == PoolSpec => []OnlySwapsDeadlock
<1>1. PoolInv => OnlySwapsDeadlock
  BY CyclesAreSwaps, NoOneWaitsForConnections DEF OnlySwapsDeadlock, PoolInv
<1> QED BY <1>1, PoolInvInit, PoolInvStep, PTL DEF PoolSpec

=============================================================================
