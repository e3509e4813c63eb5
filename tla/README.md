# em-auth: models, model checking and proofs

em-auth is an authentication and authorisation service: FastAPI handlers over
PostgreSQL, with JWT access tokens, refresh tokens that are rotated, users with
system roles, and access rules for arbitrary resources. This directory holds
TLA+ models of the parts of it that interact through the database, TLC runs
that check them on small instances, and TLAPS proofs of theorems about them for
instances of every size.

Paths below are relative to `fastapi/src/` unless they name another directory.

## 1. The system

| component | state | operations | shares state with |
|---|---|---|---|
| sessions (`services/auth.py`, `repositories/refresh_tokens.py`, `models/refresh_tokens.py`, `utils/auth.py`, `api/v1/auth.py`) | `refresh_tokens`: owner, `is_revoked`, `expires_at` | login, refresh (rotation), logout (revoke all) | `users` |
| soft deletion (`services/users.py: soft_delete_user`) | `users.is_active`, `users.deleted_at`; revokes the user's tokens | delete oneself, delete another | `refresh_tokens`, `user_roles` |
| roles and the access matrix (`services/users.py`, `repositories/users.py`) | `user_roles`, `roles` (fixed) | assign_role, remove_role; who may see, change, delete and promote whom | read by every authenticated request |
| accounts (`services/users.py`) | `users`: email (unique), profile columns | register, update (PATCH), read, list | `users.deleted_at` |
| access rules (`services/access.py`, `repositories/access_admin.py`, `repositories/access_control.py`, `utils/permissions.py`) | `access_rules` (role, resource, permission, `is_allowed`), no unique constraint on the triple | create, update, delete a rule; `has_permission` | `user_roles` |
| transactions (`utils/db.py`, `middleware/exception_handler.py`) | one `AsyncSession` for each request | commit by the service, rollback when `get_db` closes the session | everything |
| clients (external; the other end of `api/v1/auth.py`) | the refresh token each device holds, the request it waits for | login, refresh, logout, delete the account; stop waiting, retry | through requests only |
| connections (`utils/db.py`, the engine's pool) | connections held by sessions | checked out for the first statement of a transaction, returned at its end | every request |
| readiness and start-up (`api/v1/health.py`, `utils/startup.py`, `main.py`) | whether the process serves, is ready, is alive | check of the database at start-up, `/health`, `/ready`, shutdown | the database, the kubelet |
| migrations and seed (`migrations/`) | `alembic_version`, the seeded rows of `access_rules` | `alembic upgrade head` at each start of a container | `access_rules` |
| CI and deployment (`.github/workflows/deploy.yml`, `ci/`, `k3s/`) | the manifest in the cluster, one pod, its probes | test, build, apply, verify; replace, restart, kill | the image, the schema |
| configuration, logging (`utils/config.py`, `utils/logger.py`, `middleware/http_logging.py`), password hashing and JWT (`utils/security.py`), schemas and mappers | fixed before the service starts, or none | | |


**How they interact.** There is no shared memory: handlers meet in the
database only. Every request has a session of its own, that is a transaction in
READ COMMITTED, which begins with its first statement and ends with the commit
in the service, or with a rollback when the dependency `get_db` closes the
session after an error. Handlers are coroutines of one event loop and give it
up at every `await`, so between any two statements of a request any other
request can run, commit or fail. One process serves everything
(`k3s/fastapi-deployment.yaml`: one replica, strategy `Recreate`); it is started
by `alembic upgrade head && uvicorn`, replaced by pipelines that nothing keeps
from running side by side, and watched by two probes.

**What is hard about it.** No handler reads with a lock or asks for a stricter
isolation level; several check something, await, and write on the strength of
the check. A second UPDATE of a row waits for the first transaction; a SELECT
never waits. A flush writes the rows of a table in the order of their keys, an
ORM object writes only the columns that were assigned a value other than the
one read, an UPDATE that meets no row raises an exception while a DELETE does
not, and after the commit some handlers read again and may answer an error for
a change that took effect. Clients stop waiting and retry; connections and the
unique index of emails can be waited for; the database goes away at any moment
of a start-up or a migration. `PROJECT.json` lists these places as hazards, each
at its line, with the properties that cover it.

**What makes each component correct.**

- sessions: a refresh token is good for one trade; a logout or deletion ends
  the sessions it found; nothing is prolonged for a deleted user; revocation
  and issue happen together or not at all; no set of requests blocks itself;
- roles: every change was allowed by the rules on the strength of something
  that was true while the request ran; the rules are those of the access matrix
  of the repository's README; only a superadmin makes a superadmin, and the
  last one does not go by accident; the answers fit the table;
- accounts: an email has one account; no update is lost to one of another
  column; a deletion is not undone by an update; the answers fit the table;
- access rules: one rule for a triple; a revocation takes the permission away;
  the answers fit the table; a resource is shown on a role and a rule that stood
  at the same time, and rules are made by administrators who are there;
- clients: a lost answer costs little, and a token in hand works;
- connections: requests that wait do not keep those from going on that they
  wait for;
- deployment: a process serves the schema it was written for; what was deleted is
  not seeded again; a pod that cannot reach its database leaves the service (as
  far as `/ready` tells it), and comes back by itself afterwards.

## 2. The modules

| module | what it is |
|---|---|
| `SessionLedger` | abstract: login, refresh, logout, deletion as one step each |
| `AuthSessions` | login, refresh, logout and soft deletion, statement by statement |
| `SessionClients` | `AuthSessions` with the devices at the other end: lost answers and retries |
| `RoleRules` | the decisions of `UserService` as predicates, and the README's matrix as a table |
| `RoleAdmin` | assigning and removing roles, deleting, changing and showing users, statement by statement |
| `AccessRules` | creating, changing and deleting access rules, statement by statement |
| `Permissions` | composes `RoleAdmin` and `AccessRules`, behind `require_admin_user`, with requests behind `require_permission` |
| `AccountBook` | abstract: registration, PATCH and deletion with their whole effect in one step |
| `Accounts` | registration, PATCH and deletion, statement by statement: emails and columns |
| `AccountPool` | `Accounts` on a pool of connections, with PostgreSQL's waits and deadlocks |
| `Deployment` | pipelines, the pod, migration and seed, start-up, probes, outages |
| `AuthSessions_proofs`, `SessionClients_proofs`, `RoleAdmin_proofs`, `AccessRules_proofs`, `Permissions_proofs`, `Accounts_proofs`, `AccountPool_proofs`, `Deployment_proofs` | the theorems |
| `MCAuthSessions`, `MCSessionClients`, `MCRoleAdmin`, `MCAccessRules`, `MCPermissions`, `MCAccounts`, `MCAccountPool`, `MCDeployment` | the instances TLC checks |

`SessionClients` EXTENDS `AuthSessions` and conjoins what the client knows to
each of its actions; `AccountPool` does the same to `Accounts`; `Permissions`
EXTENDS `RoleAdmin` and takes `AccessRules` as an instance, so that both work on
tables that each other's requests do not touch and read together.

The four modules of handlers (`AuthSessions`, `RoleAdmin`, `AccessRules`,
`Accounts`) are built in the same way. The tables are variables
that hold what is *committed* (`rows`, `revoked`, `deleted`, `granted`, `rule`,
`mail`...); what a transaction has written and not committed is kept by request
(`marked`, `erased`, `fresh`; `locked`; `written`; `write`) and is also its set
of row locks. `pc[r]` says which statement of the handler comes next. One action
is one SQL statement together with the Python code up to the next `await`:
it reads the committed tables, decides (an early return is a disjunct that
answers and ends the transaction), and moves on. `Commit` makes the writes
visible, releases the locks and, where the handler returns, answers. `Abort`
may end any request at any statement: an exception, a failing statement, a
dropped connection; in `Accounts` also before the first one, because there may
be no connection to run it on. Statements whose result decides nothing in a model (the
role names put into a JWT, the refresh of an inserted row) have no action.

Correspondence, module by module (`PROJECT.json` has the lines):

- **AuthSessions.** `LoginSelectUser` is `AuthService.login` up to its INSERT;
  `RefreshSelectToken`, `RefreshSelectUser`, `RevokeSelectToken`, `UpdateToken`,
  `InsertToken`, `Commit` are `AuthService.refresh`, which reads the presented
  token *twice* (once itself, once in `revoke_token`); `LogoutAuthenticate`,
  `SelectTokens`, `UpdateToken` (once for each row, in key order), `Commit` are
  logout; `DeleteAuthenticate`, `DeleteSelectTarget`, `DeleteUpdateUser` (the
  autoflush that locks the user's row), then the same as logout, are
  `soft_delete_user`. A token is the primary key of its row; `owner` grows with
  the sequence, also for rows that are rolled back. `Expire` is the clock passing
  `expires_at`; `Crash` is the death of the process with all that is in flight.
- **RoleRules.** `CanView`, `CanUpdate`, `CanDelete`, `CanManage` are
  `_can_view_user`, `_ensure_can_update_user`, `_ensure_can_delete_user`,
  `_ensure_can_manage_roles`, in terms of the two sets of roles. `Row`,
  `Column`, `Sees`, `Updates`, `Deletes` are the access matrix of the
  repository's README (src/README.md:50-55).
- **RoleAdmin.** `AuthSelectUser`, `AuthSelectRoles` are `get_current_user` and
  `require_admin_user`; `held[r]` is `RequestUser.roles`, read once;
  `SelectTarget`, `SelectTargetRoles`, `LookupRow`, `Flush`, `Commit`, `Reread`
  are `assign_role` and `remove_role` with the repository methods they call; the
  ways through `Flush` and `Commit` without `LookupRow` are `update_user` and
  `soft_delete_user` (without their effect on emails and tokens), and `Show` is
  `get_user`. An update may find nothing to write, so that `AfterPermit` lets it
  go to the commit at once.
- **AccessRules.** `FindRule`, `Insert`, `Commit`, `List` are `create_rule`;
  `GetRule`, `Flush`, `Commit`, `List` are `update_rule`, and without `List`
  `delete_rule`. `Grants` is `has_permission` for a single role.
- **Permissions.** `RoleStep` and `RuleStep` are the steps of the parts;
  `RuleSelectUser`, `RuleSelectRoles` are the authentication of the requests about
  rules; `ReadSelectUser`, `ReadSelectRoles`, `RequirePermission` are
  `get_current_user`, `require_permission` and the answer of a mock endpoint.
  `MayPass` is the single SELECT that joins the roles of that moment to the rules.
- **SessionClients.** `AskLogin`, `AskRefresh`, `AskLogout`, `AskDelete` send a
  request, of which the first statement is executed at once; `Serve` and `Fault`
  are the steps of `AuthSessions`; `Answer` delivers what the handler returned,
  and `After` is what the device makes of it; `Abandon` is a timeout of the
  client or of nginx, of which the handler is not told. A request that was not
  sent yet has nothing but a name, so `Unsent` offers one of them only.
- **Accounts.** `RegisterCheck`, `Insert`, `EnterIndex`, `Commit`, `Reread` are
  `register_user`; `SelectTarget`, `CheckEmail`, `LockRow`, `EnterIndex`,
  `Commit`, `Reread` are `update_user`; `SelectTarget`, `LockRow`, `Commit` are
  `soft_delete_user`. Both of the former build their answer from a read after the
  commit, in a new transaction, which may fail: then the account is there, or
  changed, and the answer an error. `Changed` is which columns the ORM writes. `LockRow` and `EnterIndex` are two steps because an UPDATE holds its
  row while it waits for the unique index.
- **AccountPool.** `Connect` checks a connection out for the first statement of a
  transaction, for `Reread` a second time in a request; `Return` is the end of the transaction, `Execute` a step of
  `Accounts` that needs the connection. `WaitsFor` says whose end a statement waits
  for, `Cycles` are the deadlocks, `FailVictim` is PostgreSQL ending one.
- **Deployment.** A pod is named by its commit. `Push`, `CheckProvider`, `Apply`,
  `Verify` are the steps of `deploy.yml`; `StopOld`, `Stopped`, `MayStart`,
  `StartContainer` are what the cluster makes of the manifest; `Migrate` with
  `Seeds`, `CheckConnection`, `FailToStart` are `alembic upgrade head` and
  `startup_handler`; `ProbeReady` and `ProbeAlive` ask `/ready` and `/health`.
  `db` is "up", "refusing" or "hanging", because a statement that fails and one
  that never returns are different answers to a probe.

The variables marked *history* are read by no action: `known`, `gone`, `before`
(what was usable, who was deleted and which requests had committed when a
request began), `seen` (which facts the committed tables have satisfied since
a request began) and `final` (which held just before its commit), `effect` and
`took` (which transactions changed something or committed). `seen` is how
"the answer fits the table" is said (`noted` and `vouched` do the same in
`Permissions`; `applied` and `dropped` tell the past in `Deployment`): READ
COMMITTED does not promise that what a request relied on is still true when it
commits, but it must have been true at some time between its first statement and
its answer.

A definition marked `variant` is a plausible mistake in the definition after
it. It is used by nothing; each property is known to fail when the definition
is replaced by its variant.

## 3. The runs

| run | instance | shows |
|---|---|---|
| `sessions_safety` | 3 requests, 2 users, 2 tokens of one of them, one of which may expire | types, `RotationSpendsToken`, `RotationsOverlap`, `LogoutEndsSessions`, `DeletedUserInert`, `NoDeadlock`, and that `AuthSessions` implements `SessionLedger` |
| `clients_safety` | 3 requests, 1 user with 2 devices and a token on each, one device impatient | types, `OrphansBounded`, `HeldTokensWork`, and `EveryRequestAnswered` |
| `roles_safety` | 3 requests; a superadmin, an admin, a user; 19 things to ask for | types, `ChangesJustified`, `AnswersTruthful`, `MatrixHolds`, `SuperadminsComeFromSuperadmins`, `SuperadminRemains` |
| `access_rules_safety` | 3 requests; 2 triples and one that does not exist, 1 rule at first | types, `AnswersTruthful`, `DuplicatesOverlap`, `RevocationBites` and the inductive invariant |
| `permissions_safety` | 1 reader, 2 requests about rules, 1 about roles or users; 3 users, 2 rules for one resource | types of the composition, `AccessJustified`, `RulesByAdmins` |
| `accounts_safety` | 3 requests; 2 accounts, 3 emails, 2 names | types, `EmailsUnique`, `AnswersTruthful`, `LoneWriterWins`, `DeletedForGood`, and that `Accounts` implements `AccountBook` |
| `pool_safety` | 4 requests, 3 connections, 2 accounts, 4 emails | types, `OnlySwapsDeadlock`, and `EveryRequestAnswered` |
| `deployment_safety` | 3 commits, 2 revisions, 1 seeded rule, 3 failed probes, 3 faults | types, `ServesItsSchema`, `DeletedRulesStayDeleted`, `BehindOnlyByOverlap`, `BackInService`, and `OutOfServiceWhileHanging` |
| `sessions_rotation_race`, `sessions_closing_race`, `roles_promotion_race`, `access_rules_doubled` | 2 requests | the four findings of section 5 |

**Bounds.** Each request of the constant `Reqs` is served once; in the modules
of handlers that is the only bound on behaviours, and `Quiet` stutters when it
is used up (so a deadlock of the models would be found). Two requests are
enough for every race of a pair; the third lets a change be made and undone
between two statements of another request, lets two racing requests be followed
by one that begins after them (`RotationsOverlap`, `LogoutEndsSessions` and
`DeletedUserInert` are about such a third one), and makes chains such as a
promotion, a demotion and a removal possible: `SuperadminRemains` is about a
superadmin that makes a second one, and two requests that remove each other.

- *Sessions.* A user with two tokens is what it takes for a logout to lock more
  than one row and for two closing requests to meet in the middle; a second
  user deletes the first one, and only the tokens of one user ever interact. One
  token that expires at any time, beside one that does not, gives every order of
  expiry and the reads of that token.
- *Clients.* Two devices of one user, of which one gives up waiting at any
  moment: its retry runs beside the request it repeats or after it, and the third
  request is the other device's logout, deletion or refresh. No token expires in
  this run (`MayExpire` is empty), to leave room for liveness; expiry is in
  `sessions_safety`.
- *Accounts and pool.* Emails are one that each account has and one that is
  free, so that an address can be taken, given up and taken over; the names are
  the old one and a new one. The pool is smaller than the number of requests,
  and four requests are what a deadlock over emails takes: two move the accounts
  to new addresses, and two, which looked those up before, exchange them. One of
  the four may be a registration instead; deletions are in `accounts_safety`.
- *Roles, rules, permissions.* `MCJobs` lists what can be asked for; a role that
  is in no table, a rule that does not exist yet, an email of null and attempts
  at the role superadmin are among it.
- *Deployment.* Three commits of which the second brings a revision: an older
  commit with an older schema can be applied last, and so can an older commit
  with the same one. `Threshold` is the failureThreshold of the manifest.
  `MaxFaults` bounds outages, crashes and kills together; three let the database
  fail, come back and fail again around a crash.

Sets of requests are symmetric except where liveness is checked.

**Fairness.** Weak fairness, of steps that nothing but the machine decides on:

- `FairClientsSpec`: of `Serve(r)` for each request. The event loop resumes a
  coroutine whose statement has returned, and PostgreSQL executes a statement that
  waits for no lock. Weak fairness is enough because no lock is released and taken
  again by others for ever: a request locks each row once. Nothing is assumed of
  clients, of the clock, of failures, nor that a failure ever resolves a wait.
- `FairPoolSpec`: of `Execute(r)`, of `Connect(r)` (a free connection is handed
  out) and of `FailVictim` (`deadlock_timeout` passes and PostgreSQL ends a
  deadlock). The timeout of the pool is an error that may come and need not.
- `FairSpec` of `Deployment`: of what cluster and process do by themselves,
  `Pod(v)`, and of the readiness probe. Nobody has to push, pipelines may stay
  where they are, and nothing makes a database return; `BackInService` is about
  behaviours in which it has returned for good, `OutOfServiceWhileHanging` about
  those in which it hangs for good: it is the kubelet that goes on probing, and
  that takes a pod out after `Threshold` failures in a row, that gives it.

These runs have no symmetry.

## 4. The proofs

All theorems hold for any sets of users, roles, rules, emails, devices, commits
and requests; the assumptions are those named in the modules
(`SessionAssumption`, `ClientAssumption`, `RoleAdminAssumption`,
`AccessRulesAssumption`, `PermissionsAssumption`, `RulesAssumption`,
`AccountsAssumption`, `PoolAssumption`, `DeploymentAssumption`). TLC evaluates
them in every run. Most of them say what kind of value a constant is. Those that
say more are about where the system starts or what it is given:

- the accounts there at first have different emails, and the rules there at first
  are different triples (the seed inserts them so);
- each device has a token of its own user at first, and no two have the same;
- `Head` grows with the commits: a later commit contains every revision an
  earlier one does. A pushed revert that takes a revision file out of the tree is
  thereby outside `Deployment`, its run and its theorems. `BehindOnlyByOverlap`
  would not hold of it: the manifest would name a commit that does not know the
  schema though no pipelines overlapped.

The proofs use TLAPS with Z3, Zenon and LS4.

**AuthSessions.** The invariant `Inv` is `TypeOK`, `FreshRowsDistinct` (two
transactions never insert the same key) and, for each request, `RequestInv`:

- `Control`: which kinds of request can be at which statement;
- `RefreshInv`: a refresh was given a token usable when it began, and from its
  INSERT on that token is revoked, expired, or revoked by the transaction itself;
- `CloseInv`: a logout or deletion past its SELECT accounts for every token
  that was usable when it began, and a deletion holds the user's row;
- `PresenceInv`: whoever a request is served for was there when it began;
- `HistoryInv`: what a request saw when it began bears the marks of all that
  was over by then.

The safety properties are not inductive by themselves: `RotationsOverlap`, for
one, speaks of two requests that are over, and says nothing of the one that has
revoked its token and not inserted the new one. `RefreshInv` says what holds of
a request at each statement, and `HistoryInv` carries it over to requests that
begin later; the properties then follow from both. One lemma for each action
proves that `RequestInv` of the acting request is preserved, and `Frame` that
the others do not care; the argument needs that a row once revoked stays revoked
and that committed keys are never drawn again. Theorems: `TypeCorrect`,
`Invariance`, `RotationSpends`, `NoReplay`, `SessionsEnd`, `DeletedStayOut`.

**No deadlock** (`LocksAreOrdered`). `LockInv` says where a request can hold
locks, and that while it waits for a token, the tokens it holds have smaller
keys. In a set of requests that all wait for one of the set, somebody waits for
a token, because who holds a user's row is past the wait for one; take the
largest key that is waited for (`LargestKey`): its holder waits for a larger one.
So revocations of any number of tokens in primary-key order never block each
other, where TLC has looked at two tokens. `NoDeadlock` is about every set of
requests, not only about all that are in flight, so that it does not depend on
others to fail or to finish.

**The refinement** (`LedgerKept`). `Inv` says what a
request has revoked at least; for its commit to be one step of the ledger it
must also have written no more than that, which is `WriteInv`: the rows marked
by a refresh are those of its token, those of a logout or deletion are the
user's, one row is inserted by a login or refresh and none by the others. Every
step but a commit leaves the ledger's tables as they are, up to the beginning and
the failing of requests and expiry, and `Commit` is `Issue`, `Rotate` or `Close`.

**SessionClients.** `ClientsAreAllowed` (`ClientsSpec => Spec`) makes all the
theorems above theorems of the system with its clients. `ClientsTypeCorrect`
(no device holds a token that is not in the table or not its user's) needs what
a device waits for to be its own request (`Fits`), and the answer of a request
to be the row it inserts (`Carries`).

`OrphansAreBounded` and `HeldTokensAreGood` are about where tokens can be. Their
invariant is `HandInv`: a request under way was sent by a device (`Sent`), its
answer carries a token that it alone has inserted (`Drawn`), a token is in one
hand and presented from there only (`Owns`), an awaited answer brings a token
nobody has had, and costs the device at most the one it holds (`Expects`), a row
was revoked by a refresh it was presented to, or by a logout or deletion of its
user that was not over when it was asked for (`RevokedBy`), and every usable token is in
a device's hand, in an answer that is awaited, or in one that nobody waits for
(`Claimed`). The orphans of a user are then among the tokens issued by abandoned
requests, one for each (`FS_Surjection`), for any number of devices and retries.
Both theorems take the requests abandoned to be finitely many, which is part of the
invariant and not an assumption (`Unheard`).

**RoleAdmin.** `Inv` is `TypeOK` and, for each request, `WitnessInv` (what is
true now is among what was seen since the request began), `ProgressInv` (who
passed a check can account for it by what was seen), `WriteInv` (a write in
preparation fits what was read) and `AnswerInv`. A commit changes the tables
under all the other requests, so the lemmas come in two families: `Frame` for
steps that leave the tables alone and `FrameGrown` for commits, which only add
to what was seen. `NoEscalation` needs a second invariant, `NoneNew`: the role
superadmin is where it was at first *and no request in flight has seen it
anywhere else*; a commit that adds the role must be entitled by a superadmin
seen, who therefore was one at first. `ThroneIsKept` is by `ThroneInv`: there
is a superadmin left, or a request that is excused; a commit that is entitled
by what is true as it commits leaves its own actor, or touches no superadmin
(`DeletionLeavesOne`, `RoleChangeLeavesOne`), and excuses are never lost
(`EffectsStay`). Theorems: `MatrixIsImplemented` (the rules are the matrix for
every set of roles an actor and a target can hold, not just those TLC reaches),
`TypeCorrect`, `Invariance`, `EffectsEntitled`, `NoFalseAnswer`, `NoEscalation`,
`ThroneIsKept`.

**AccessRules.** `Inv` is `TypeOK`, `IdInv` (ids are drawn once, and every row
has its creator or was there at first) and, for each request, `OverlapInv` (a
request that found no rule knows that the creator of one that is there has
committed since), `ControlInv`, `WitnessInv`, `CreateInv`, `TargetInv` (what an
update or a deletion works on is there, or was deleted by somebody) and
`AnswerInv`. `DuplicatesOverlap` is `OverlapInv` with `IdInv`, once for each of
the two creators. Theorems: `TypeCorrect`, `Invariance`, `AnswersFit`,
`DoublesOverlap`, `RevocationsBite`.

**Permissions.** `RolesUndisturbed` and `RulesUndisturbed` say that to users and
roles the composition is `RoleAdmin`, and to the rules it is `AccessRules`: two
refinements under which the theorems of the parts hold of the whole;
`PermTypeCorrect` takes the types of both from them and adds those of the
composition's own variables. The theorems of `AccessRules` are instantiated with
this module's constants; what `AccessRules` assumes of its own is stated here as
`RulesAssumption`, which TLC evaluates in the run.
`OnlyAdministratorsRule` is by `AdmissionInv`: `vouched` notes what was true of
the actor while the request was being authenticated, and no longer, so that a
request between its two reads has an actor who was there, and one that is past
them has one who was there and was an administrator. Both reads are needed, since
a deletion leaves the roles of the user in place. `AccessIsJustified` by `ReadersInv` (what
is true now has been noted of every reader in progress).

**Accounts.** `Inv` is `TypeOK`, `IndexInv` (an email past the index is in no
other row and in no other transaction past the index) and, for each request,
`ControlInv`, `WriteInv`, `HeldInv` (a column as it was read is still that of the
row, or another request has set it: why an unchanged column may be left out of
the UPDATE), `SeenInv`, `AnswerInv`, `TookInv`. The theorems that two
transactions never write one row and that emails are unique rest on locks that
are held until the commit. `AnswersFit` needs what `ControlInv` says of requests
that read again (they have committed), and `AnswerInv` tells the answers that
leave nothing behind, 400 and 409, from those that may come after the commit, a
404 or an error. Theorems: `TypeCorrect`, `Invariance`,
`EmailsStayUnique`, `AnswersFit`, `NoLostUpdate`, `DeletionsStand`.

**The second refinement** (`BookKept`). In `AccountBook` an update changes the
columns that were asked for and differ from those it had read, and no others,
and a request that fails changes nothing. `WriteInv` says that what is
written was asked for; `Intends` adds that nothing else was left out: what an
update is about to commit is `Changed`, of the columns as it last read them, and
the row a registration commits has the name it was sent with. `Commit` is then
`Register`, `Update` or `Delete`; that nobody else has the email at that step, which
the book asks for and the lookup does not give, is `IndexInv`. `CheckEmail` is
`ReadAgain` when it reads the user's own row, the first statement is `Receive`,
an error `Refuse`, and the other statements tell the book nothing (`Unseen`): so
does an error after the commit, and a `Reread` that answers 404. By
`AccountsUndisturbed` the same holds when requests wait for connections.

**AccountPool.** `AccountsUndisturbed` (`PoolSpec => Spec`) makes the theorems of
`Accounts` hold of requests that wait for connections and locks. `PoolInv` adds to
`Inv` and `PoolTypeOK` that the connections given away are finitely many, without
which their number means nothing; `Connect` adds one to a set smaller than the
pool, and a transaction that ends takes its own away. `DeadlocksAreSwaps` has two
parts. In a cycle everybody is waited for (`CyclesAreWaited`: without the one who
is not, a smaller set would be closed); who is waited for and waits has written
a committed row, and is therefore neither a registration nor a deletion, and is
past the lock of its row (`OnlyUpdatesDoBoth`). And if everyone with a connection
waits, then for others who have written something, hence have a connection too
(`WaitedHasWritten`): the requests with connections, finitely many
(`ConnectedFinite`), are a closed set, and a finite closed set has a minimal one
within it (`ClosedHasCycle`, by well-founded induction over its subsets).

**Deployment.** `SchemaInv` (one pod at a time, and past its migration it has its
schema) proves `SchemaServed`, `SeedInv` (before the seed there is nothing to
delete) `DeletionsLast`, `PipeInv` and `RevisionInv` (while pipelines take turns,
the one that runs is of the latest commit, and the database is at a revision of
a commit that was applied) `NeverBehindInTurn`; `TypeCorrect` comes first.
The last step from these two to `NeverBehindInTurn` is where `Head` has to grow
with the commits.

**Only model-checked:** the liveness properties `EveryRequestAnswered` (of
clients and of the pool), `BackInService` and `OutOfServiceWhileHanging`, which are
outside TLAPS's reach.
`NoDeadlock`, `OnlySwapsDeadlock` and `PoolTypeOK` are what is safety in the first
two: that there is always somebody who can go on. Every other property of a
passing run is a theorem. The inductive invariants `Inv` of `AuthSessions`,
`RoleAdmin` and `Accounts`, `OrderInv`, `BookInv`, `HandInv` and `PoolInv` are proved
and in no run.

## 5. Where the code and its documentation disagree

Each of these is a run that TLC ends with a counterexample of two requests.

1. `OneRotationPerToken` (`services/auth.py:97`): "one token, one change of
   pair". Two refreshes of a token that overlap both succeed, since
   `revoke_token` silently revokes nothing when the token is no longer usable.
   What does hold is `RotationsOverlap`: a replay that begins after the first
   refresh has committed gets nothing.
2. `ClosingRevokesAll` (`services/auth.py:120`, `services/users.py:277`): after a
   logout "the session cannot be prolonged", and a deletion revokes all tokens
   of the user. A refresh in flight inserts a token that the SELECT of the logout
   or deletion did not see. What holds is `LogoutEndsSessions`: the tokens that
   were there when it began are dead. The token left by a deletion cannot be used
   (`DeletedUserInert`) as long as the user stays deleted; the local seed script
   clears `deleted_at`, and would make it usable again.
3. `AdminsSparePrivileged` (`services/users.py:156`): an admin cannot manage the
   roles of admins. The target can be promoted between the check and the commit.
   What holds is `ChangesJustified`: the target was ordinary at some time while
   the request ran.
4. `NoDuplicateRules` (`services/access.py:105`): a repeated rule cannot be
   created. Two creations that overlap both succeed; afterwards creating the
   rule again is answered 500, and setting one of the two to false revokes
   nothing. What holds is `DuplicatesOverlap`, and `RevocationBites` for rules
   that are not doubled.

Further observations, which need no run to be seen:

- `/ready` answers 200 with `ready=false` when its SELECT fails
  (`api/v1/health.py:57`), and the readinessProbe looks at the status code: a pod
  leaves the service when the database hangs (`OutOfServiceWhileHanging`), and
  stays when it refuses connections (`ReadySucceeds`).
- "the deployment is skipped" (`.github/workflows/deploy.yml:145`): the `exit 0`
  ends the step, and nothing else looks at the outcome, so the following steps
  apply the manifests of a provider that is not active (`CheckProvider`).
- A registration or update that loses the race for an email is answered 409 by
  the exception handler, not 400.
- A registration or update whose read after the commit fails, or waits in vain
  for a connection, is answered 500 although it took effect; a client that
  registers again is told that the email is taken (`Accounts.Reread`, `Abort`).
- Two updates that move two accounts to each other's new email can wait for each
  other in the unique index; PostgreSQL ends one of them (`AccountPool`). It is
  the only standstill there is, `OnlySwapsDeadlock` says.
- Two superadmins who delete each other leave none (`SuperadminRemains` names
  such races as the only way but giving up the role).
- Two pipelines that overlap can leave the older commit in the manifest; if the
  newer one has migrated, its containers end at `alembic upgrade head` until
  somebody pushes again (`BehindOnlyByOverlap`, `LockedOut`).

## 6. What is not modelled

- Passwords, JWTs and random tokens: the models know whether credentials are
  good, not how that is computed. Token strings are taken to be unique. How long
  bcrypt keeps the event loop is not in the models, which have no time.
- The validation of request bodies (pydantic), the wording and mapping of answers,
  logging, configuration: no state.
- Reads that decide nothing (`get_me`, the lists of the access API) change
  nothing. `list_users` repeats the decision of `get_user`, `CanView`, for each
  active user, each time with a read of the roles.
- Secrets, the ConfigMap, the routes and rate limits of nginx; nginx giving up on
  an answer is a client that gives up (`Abandon`).
- `seed_local_data.py`, for local use.
- Reverts that drop a revision (`DeploymentAssumption`), and downgrades of the
  schema by hand.
- Liveness probes that fail while a process serves, one by one: `/health` asks
  nobody, so that only an event loop that is kept busy (bcrypt) leaves it
  unanswered; a container that is killed for that is one of the deaths of `Die`.
- Several processes: `AuthSessions` would allow them (all that requests share is
  the database), `Deployment` has the one replica of the manifest.
- Isolation of a statement in itself: one SQL statement is atomic. PostgreSQL's
  re-evaluation of an UPDATE after a wait is modelled (the row is locked in
  the state it has then).
- Out of the provers' reach: liveness under fairness, and induction over data.

## 7. What is left

1. `list_users`, as a request whose decisions are taken one user at a time while
   roles change.
2. The limit of connections under `AuthSessions`, as under `Accounts`.
