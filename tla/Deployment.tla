----------------------------- MODULE Deployment -----------------------------
(***************************************************************************)
(* From a push to a pod in service: the pipeline of each commit, the       *)
(* replacement of the pod, `alembic upgrade head && uvicorn`, the check of *)
(* the database before the first request, the probes, and outages of the   *)
(* database at any moment.                                                 *)
(*                                                                         *)
(* A pod is named by the commit whose image it runs: deploy.yml puts the   *)
(* commit's SHA into the manifest, and there is one replica.  A container  *)
(* that ends is started again by the kubelet.                              *)
(***************************************************************************)
EXTENDS Naturals

CONSTANTS
  Commits,     (* numbered in the order they are pushed to the branch      *)
  Head,        (* the newest alembic revision each commit contains         *)
  SeedRev,     (* the revision that seeds the access rules                 *)
  Seeded,      (* the rules it seeds                                       *)
  Threshold,   (* failureThreshold of both probes                          *)
  MaxFaults    (* bound on outages, crashes and kills                      *)

ASSUME DeploymentAssumption ==
  /\ Commits \subseteq Nat \ {0}
  /\ \A v \in Commits : Head[v] \in Nat \ {0}
  /\ \A v, w \in Commits : v <= w => Head[v] <= Head[w]
  /\ SeedRev \in Nat \ {0}
  /\ Threshold \in Nat \ {0}
  /\ MaxFaults \in Nat

Stages == {"none", "gate", "apply", "verify", "done", "failed"}
Phases == {"none", "migrating", "checking", "serving", "stopping"}

VARIABLES
  pipe,       (* the stage of each commit's pipeline                       *)
  desired,    (* the commit in the manifest of the cluster, 0 for none     *)
  phase,      (* of each commit's pod                                      *)
  ready,      (* pods that receive requests                                *)
  unready,    (* readiness probes in a row that failed, by pod             *)
  unalive,    (* liveness probes in a row that failed, by pod              *)
  db,         (* the database: "up", "refusing" or "hanging"               *)
  revision,   (* alembic_version                                           *)
  rules,      (* the seeded rules that are in access_rules                 *)
  faults,     (* outages, crashes and kills so far                         *)
  (* History, read by no action.                                           *)
  applied,    (* commits that were in the manifest                         *)
  overlapped, (* whether two pipelines ran at a time                       *)
  dropped     (* seeded rules that an administrator has deleted            *)

cluster == <<desired, phase, ready, unready, unalive>>
data    == <<revision, rules, dropped>>
ci      == <<pipe, applied, overlapped>>
vars    == <<cluster, data, ci, db, faults>>

-----------------------------------------------------------------------------
(* The pipeline (deploy.yml)                                               *)

Running == {v \in Commits : pipe[v] \in {"gate", "apply", "verify"}}

(* Tests, build and push of the image.  No concurrency group holds a       *)
(* pipeline back while another runs.                                       *)
Push(v) ==
  /\ pipe[v] = "none"
  /\ \A w \in Commits : w < v => pipe[w] # "none"
  /\ pipe' = [pipe EXCEPT ![v] = "gate"]
  /\ overlapped' = (overlapped \/ Running # {})
  /\ UNCHANGED <<cluster, data, applied, db, faults>>

(* check-active-provider.sh: on failure `exit 0` ends the step, not the    *)
(* job, so that the answer makes no difference.                            *)
CheckProvider(v) ==
  /\ pipe[v] = "gate"
  /\ pipe' = [pipe EXCEPT ![v] = "apply"]
  /\ UNCHANGED <<cluster, data, applied, overlapped, db, faults>>

(* variant: the tag stays :latest, which changes nothing in the manifest   *)
TagUnpinned(v) == IF desired = 0 THEN v ELSE desired

(* The tag that the job writes into the manifest.                          *)
Tag(v) == v

(* apply-manifests.sh; the API may fail three times.                       *)
Apply(v) ==
  /\ pipe[v] = "apply"
  /\ \/ /\ pipe' = [pipe EXCEPT ![v] = "verify"]
        /\ desired' = Tag(v)
        /\ applied' = applied \cup {v}
     \/ /\ pipe' = [pipe EXCEPT ![v] = "failed"]
        /\ UNCHANGED <<desired, applied>>
  /\ UNCHANGED <<phase, ready, unready, unalive, data, overlapped, db, faults>>

(* rollout status: the pod of the manifest is ready, or time is up.        *)
Verify(v) ==
  /\ pipe[v] = "verify"
  /\ \/ desired \in ready /\ pipe' = [pipe EXCEPT ![v] = "done"]
     \/ pipe' = [pipe EXCEPT ![v] = "failed"]
  /\ UNCHANGED <<cluster, data, applied, overlapped, db, faults>>

-----------------------------------------------------------------------------
(* The pod                                                                 *)

(* variant: a pod stays in the service until it is probed again            *)
BecomeStillReady(v, p) ==
  /\ phase' = [phase EXCEPT ![v] = p]
  /\ unready' = [unready EXCEPT ![v] = 0]
  /\ unalive' = [unalive EXCEPT ![v] = 0]
  /\ UNCHANGED ready

(* The container enters phase p; it is ready only when a probe says so.    *)
Become(v, p) ==
  /\ phase' = [phase EXCEPT ![v] = p]
  /\ unready' = [unready EXCEPT ![v] = 0]
  /\ unalive' = [unalive EXCEPT ![v] = 0]
  /\ ready' = ready \ {v}

(* A pod that the manifest does not name any more is told to stop; one     *)
(* that serves finishes the requests it has.                               *)
StopOld(v) ==
  /\ v # desired
  /\ phase[v] \in {"migrating", "checking", "serving"}
  /\ Become(v, IF phase[v] = "serving" THEN "stopping" ELSE "none")
  /\ UNCHANGED <<desired, data, ci, db, faults>>

(* shutdown_handler closes the pool, the process ends.                     *)
Stopped(v) ==
  /\ phase[v] = "stopping"
  /\ Become(v, "none")
  /\ UNCHANGED <<desired, data, ci, db, faults>>

(* variant: RollingUpdate, the new pod starts beside the old one           *)
MayStartBeside(v) == phase[v] = "none"

(* strategy Recreate: the old pod is gone first.                           *)
MayStart(v) == \A w \in Commits : phase[w] = "none"

StartContainer(v) ==
  /\ v = desired /\ MayStart(v)
  /\ Become(v, "migrating")
  /\ UNCHANGED <<desired, data, ci, db, faults>>

(* variant: the seed runs at every start                                   *)
SeedsAlways(v) == revision <= Head[v] /\ SeedRev <= Head[v]

(* alembic runs the revisions the database does not have.                  *)
Seeds(v) == revision < SeedRev /\ SeedRev <= Head[v]

(* alembic upgrade head, in one transaction.  It ends with an error when   *)
(* the database is at a revision the image does not know.                  *)
Migrate(v) ==
  /\ phase[v] = "migrating" /\ db = "up"
  /\ \/ /\ revision <= Head[v]
        /\ revision' = Head[v]
        /\ rules' = IF Seeds(v) THEN rules \cup Seeded ELSE rules
        /\ Become(v, "checking")
     \/ /\ revision > Head[v]
        /\ Become(v, "none")
        /\ UNCHANGED <<revision, rules>>
  /\ UNCHANGED <<desired, dropped, ci, db, faults>>

(* startup_handler: check_connection, then requests are accepted.          *)
CheckConnection(v) ==
  /\ phase[v] = "checking" /\ db = "up"
  /\ Become(v, "serving")
  /\ UNCHANGED <<desired, data, ci, db, faults>>

(* Neither alembic nor check_connection survives a refused connection.     *)
FailToStart(v) ==
  /\ phase[v] \in {"migrating", "checking"} /\ db = "refusing"
  /\ Become(v, "none")
  /\ UNCHANGED <<desired, data, ci, db, faults>>

-----------------------------------------------------------------------------
(* The probes (k3s/fastapi-deployment.yaml, api/v1/health.py)              *)

(* variant: /ready does not look at the database                           *)
ReadySucceedsBlindly == TRUE

(* variant: broken connections stay in the pool                            *)
ReadySucceedsTillOutage == faults = 0

(* /ready answers 200 whatever the SELECT does, if it comes to an end.     *)
ReadySucceeds == db # "hanging"

ProbeReady(v) ==
  /\ phase[v] = "serving"
  /\ LET n == IF ReadySucceeds THEN 0 ELSE unready[v] + 1
     IN /\ unready' = [unready EXCEPT ![v] = IF n >= Threshold THEN Threshold ELSE n]
        /\ ready' = IF n = 0 THEN ready \cup {v}
                    ELSE IF n >= Threshold THEN ready \ {v} ELSE ready
  /\ UNCHANGED <<desired, phase, unalive, data, ci, db, faults>>

(* /health answers as soon as uvicorn listens.                             *)
HealthSucceeds(v) == phase[v] = "serving"

ProbeAlive(v) ==
  /\ phase[v] \in {"migrating", "checking", "serving"}
  /\ LET n == IF HealthSucceeds(v) THEN 0 ELSE unalive[v] + 1
     IN \/ /\ n < Threshold
           /\ unalive' = [unalive EXCEPT ![v] = n]
           /\ UNCHANGED <<phase, ready, unready, faults>>
        \/ /\ n = Threshold /\ faults < MaxFaults
           /\ Become(v, "none")
           /\ faults' = faults + 1
  /\ UNCHANGED <<desired, data, ci, db>>

-----------------------------------------------------------------------------
(* The environment                                                         *)

(* An unhandled signal, the memory limit, a reboot of the node, or so much *)
(* bcrypt in the event loop that /health is not answered in time.          *)
Die(v) ==
  /\ phase[v] # "none" /\ faults < MaxFaults
  /\ Become(v, "none")
  /\ faults' = faults + 1
  /\ UNCHANGED <<desired, data, ci, db>>

DatabaseFails(how) ==
  /\ db = "up" /\ faults < MaxFaults
  /\ db' = how
  /\ faults' = faults + 1
  /\ UNCHANGED <<cluster, data, ci>>

DatabaseReturns ==
  /\ db # "up"
  /\ db' = "up"
  /\ UNCHANGED <<cluster, data, ci, faults>>

(* DELETE and POST of /api/v1/access/rules                                 *)
AdminDeletes(v, rule) ==
  /\ phase[v] = "serving" /\ db = "up" /\ rule \in rules
  /\ rules' = rules \ {rule}
  /\ dropped' = dropped \cup {rule}
  /\ UNCHANGED <<revision, cluster, ci, db, faults>>

AdminCreates(v, rule) ==
  /\ phase[v] = "serving" /\ db = "up" /\ rule \in dropped
  /\ rules' = rules \cup {rule}
  /\ dropped' = dropped \ {rule}
  /\ UNCHANGED <<revision, cluster, ci, db, faults>>

-----------------------------------------------------------------------------

Init ==
  /\ pipe = [v \in Commits |-> "none"]
  /\ desired = 0
  /\ phase = [v \in Commits |-> "none"]
  /\ ready = {}
  /\ unready = [v \in Commits |-> 0] /\ unalive = unready
  /\ db = "up" /\ revision = 0 /\ rules = {} /\ faults = 0
  /\ applied = {} /\ overlapped = FALSE /\ dropped = {}

Pipeline(v) == Push(v) \/ CheckProvider(v) \/ Apply(v) \/ Verify(v)

(* What the cluster and the process do by themselves.                      *)
Pod(v) ==
  \/ StopOld(v) \/ Stopped(v) \/ StartContainer(v)
  \/ Migrate(v) \/ CheckConnection(v) \/ FailToStart(v)

(* No pipeline has deployed anything.                                      *)
NothingDeployed ==
  /\ desired = 0 /\ \A v \in Commits : pipe[v] = "failed"
  /\ UNCHANGED vars

Next ==
  \/ \E v \in Commits : Pipeline(v) \/ Pod(v) \/ ProbeReady(v) \/ ProbeAlive(v) \/ Die(v)
  \/ \E how \in {"refusing", "hanging"} : DatabaseFails(how)
  \/ DatabaseReturns
  \/ \E v \in Commits, rule \in Seeded : AdminDeletes(v, rule) \/ AdminCreates(v, rule)
  \/ NothingDeployed

Spec == Init /\ [][Next]_vars

(* The cluster replaces and starts pods, a process whose statement can     *)
(* return goes on, and the kubelet probes; nobody has to push, and nothing *)
(* makes a database come back.                                             *)
FairSpec == Spec /\ \A v \in Commits : WF_vars(Pod(v)) /\ WF_vars(ProbeReady(v))

-----------------------------------------------------------------------------
(* Properties                                                              *)

(* Every variable has its type; only a serving pod is ready, and the       *)
(* manifest names a commit that was applied.                               *)
TypeOK ==
  /\ pipe \in [Commits -> Stages]
  /\ phase \in [Commits -> Phases]
  /\ ready \subseteq {v \in Commits : phase[v] = "serving"}
  /\ unready \in [Commits -> 0..Threshold] /\ unalive \in [Commits -> 0..Threshold]
  /\ db \in {"up", "refusing", "hanging"}
  /\ revision \in {0} \cup {Head[v] : v \in Commits}
  /\ rules \subseteq Seeded /\ dropped \subseteq Seeded
  /\ faults \in 0..MaxFaults
  /\ desired \in applied \cup {0} /\ applied \subseteq Commits
  /\ overlapped \in BOOLEAN

(* A process answers requests only on the schema its code was written for: *)
(* not while a newer pod migrates, nor after a return to an older commit.  *)
ServesItsSchema ==
  \A v \in Commits : phase[v] \in {"serving", "stopping"} => revision = Head[v]

(* A rule that an administrator has deleted is not seeded again, however   *)
(* often containers start and pipelines run.                               *)
DeletedRulesStayDeleted == dropped \cap rules = {}

(* Old code comes back, or a pod is locked out of the database by a        *)
(* revision it does not know, only where pipelines ran side by side.       *)
BehindOnlyByOverlap ==
  ~overlapped => /\ \A v \in applied : v <= desired
                 /\ desired # 0 => revision <= Head[desired]

LockedOut == desired # 0 /\ revision > Head[desired]

(* Once the database is there to stay and the pipelines are through, the   *)
(* pod of the manifest is in service and stays there, unless its code does *)
(* not know the schema.                                                    *)
BackInService ==
  <>[](db = "up") => <>[](desired = 0 \/ desired \in ready \/ LockedOut)

(* A database that leaves its clients hanging for good takes the pod out   *)
(* of the service, whichever pod it meets, and at whatever moment: the     *)
(* probe gives up on a SELECT that does not return, and no pod that starts *)
(* then gets as far as to be ready.                                        *)
OutOfServiceWhileHanging ==
  <>[](db = "hanging") => <>[](ready = {})

=============================================================================
