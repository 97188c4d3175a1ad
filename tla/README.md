# Vesta in TLA+

Vesta is a small platform-as-a-service on Kubernetes. Users deploy apps through an
HTTP API (Go, `src/api`), the API keeps most of its state in Kubernetes custom
resources and the rest in a database, and an operator (`src/operator`) turns the
custom resources into Deployments, Services, Ingresses, CronJobs and so on. The API
server may run in several replicas; each of them also runs the deployment scheduler
and the watchers of its builds. This directory holds the models of that code, their
model-checking runs and the proofs about them.

## 1. The system

### Components

| Component | State it keeps | Operations | What is hard |
|---|---|---|---|
| App images and deployments (`handlers/deploy.go`, `apps.go`, `environments.go`, `ratelimit.go`, `services/scheduler.go`, `builder.go`) | `VestaApp.spec`: app-level image, one entry per environment with an optional image | deploy, rollback, update, scheduled deployment, pin of a finished build, clone of an environment, rate limits of an ingress; restart, scale, sleep, wake, stop, start, create, clone, delete | every writer reads the resource, edits it and sends it back; some retry conflicts, some send patches with no version |
| Operator (`operator/controllers/vestaapp_controller.go`) | `VestaApp.status` (phase, reason, deployment history); Deployments, Services, Ingresses, HPAs, CronJobs, PVCs | reconcile, cleanup under a finalizer, status update | reads come from a cache; a reconcile is many writes and may stop between any two |
| Scheduled deployments (`services/scheduler.go`, `db/scheduled_deployments.go`) | rows `pending → running → completed / failed`, or `cancelled` | create, list, cancel; a tick every thirty seconds in each replica | two replicas see the same pending rows; a cancel between a read and an update; a crash in between |
| Builds (`services/builder.go`, `handlers/builds.go`) | rows `pending → running → success / failed / cancelled`; a Job per build | trigger, watch, cancel, pin on success | the watcher is a goroutine: it dies with the server, and a cancel races it |
| Self-update (`services/updater.go`, `db/updates.go`) | one row per update, one Job | start, watch, reconcile on startup | the update replaces the server that watches it; check-then-act on "is one running" |
| Authentication and MFA (`handlers/auth.go`, `mfa.go`, `reauth.go`, `db/mfa.go`) | users, TOTP and passkey factors, backup codes, lockout counters, one-time grants | login, challenge, enrol, confirm, remove, reset, re-authentication | single-use tokens and counters under concurrent requests |
| Secrets, variables, shared secrets (`handlers/secrets.go`, `envvars.go`, `vestasecret_controller.go`) | `VestaSecret`, `Secret` and `ConfigMap` objects, bindings in the app spec | create, update, delete, reveal, bind | copies of the same value in several objects |
| Projects, environments, teams (`handlers/projects.go`, `environments.go`, `teams.go`) | `VestaProject.spec.environments`, `VestaEnvironment` objects | create, delete, update, clone | the project and the environment objects are written one after the other |
| Project transfer (`handlers/projecttransfer.go`, `bundle`) | sealed bundles | export, import | half-done imports |
| Notifications, webhooks (`services/notifier.go`, `handlers/webhooks.go`) | channels, delivery rows | send, receive | duplicate and replayed deliveries |
| Certificates, UI domain (`services/certprovider.go`, `handlers/uidomain.go`) | issuers, secrets, an ingress | create, update, delete, status | several objects per provider |
| Kubernetes client (`k8s/client.go`) | none; the API server reads the cluster directly | get, list, update, patch | an update carries the resourceVersion it read, a patch does not |
| Logs, terminal, files, health, UI, CLI, installer | none of their own | streams, reads, calls to the API | — |

### How they interact

The resource `VestaApp` is shared state. The API handlers, the scheduler and the build
watchers write its spec; the operator reads it through its cache, writes workloads and
the status. Both kinds of write move one `resourceVersion`, so a status update may make
a handler's write fail and the other way round. `UpdateResource` (`k8s/client.go:139`)
sends back the object that was read and is refused once the version has moved;
`PatchResource` sends only the change and is never refused. `DeployApp` and `UpdateApp`
repeat a refused write (five attempts), the other handlers report it. The operator
starts a reconcile on a change, after an error with a back-off, and thirty seconds
after the last one.

The database rows of builds, scheduled deployments and updates are written by
goroutines of every replica, with no leader election.

### What makes each part correct

* Images: no successful deploy is lost or undone by another writer; a deploy touches
  its environment only; configuration updates leave images alone; the history records
  each change once with dense version numbers; the cluster ends up at the stored spec.
* Scheduled deployments: each row is executed once, a cancelled one never, and every
  row comes to an end.
* Builds: what is pinned is the tag of an image that was pushed, builds do not share a Job by accident, every build
  comes to an end.
* Operator: an app that is being deleted leaves nothing behind; what was cut short or
  read from an old cache is made good; the autoscaler keeps its say; the phase is true;
  a user's certificate is never given to an issuer.
* Self-update: each record is finished once, whichever replica or restart does it, and
  a success is one.
* Second factors: a factor that is held is asked for; changing factors costs a proof of
  presence; a grant, a ceremony and a recovery code work once.
* Accounts: an invite is taken once; a password is set only by who has shown what it
  takes; reset codes end; an API key does no more than its owner may, and nothing once
  it is revoked.
* Secrets and variables: no key is lost or brought back by an overlapping edit; what is
  reported as synced is; the pods come to run with what is stored.
* Projects and environments: overlapping requests double no name in a project; no edit is
  undone by what another had read before; labels and namespaces follow.
* Project transfer: an installation has one identity; a project is the work of one
  import; an import that ends well has brought everything over, except what an export
  overlooks (section 4).

The list of hazards, each at its line and with the properties that would catch it, is
in `PROJECT.json`.

## 2. Plan

| Module | Models | State |
|---|---|---|
| `VestaAppSpec` | the spec of a VestaApp and every edit of its images, as operators | written |
| `AppDeploy` | all writers of one VestaApp against each other and the operator; composes `VestaAppSpec` | written, proofs in `AppDeploy_proofs` |
| `ScheduledDeployments` | the rows of the schedule and the worker of each replica | written, proofs in `ScheduledDeployments_proofs` |
| `Builds` | build rows, their Jobs and watchers, cancellation | written, proofs in `Builds_proofs` |
| `SelfUpdate` | upgrades of Vesta itself across restarts | written, proofs in `Administration_proofs` |
| `AppObjects` | what the operator wants of an app in one environment: Deployment, Service, Ingresses and certificates, HPA, CronJobs, as operators | written, proofs in `Operator_proofs` |
| `AppReconciler` | the objects the operator keeps for an app, one call at a time: finalizer, passes, cleanup, phases, stale caches, restarts; composes `AppObjects` | written, proofs in `Operator_proofs` |
| `Factors` | the second factors of an account, statement by statement: sign-in, enrolment, removal, reauthentication, recovery codes, lockout | written, proofs in `Factors_proofs` |
| `SingleUse` | what a single-use ticket promises; an abstract specification that `Factors` and `Accounts` implement | written, refinements proved in `Factors_proofs` and `Administration_proofs` |
| `Accounts` | setup, registration, invites, passwords, reset codes, API keys and the calls made with them | written, proofs in `Administration_proofs` |
| `Secrets` | every write of secrets, variables, credentials and bindings, the operator's copies, and the pods | written, proofs in `Secrets_proofs` |
| `Environments` | projects and their `VestaEnvironment` objects, clones into applications, and the two controllers | written, proofs in `Operator_proofs` |
| `ProjectTransfer` | identity, export and import, call by call, next to users on both sides | written, proofs in `ProjectTransfer_proofs` |
| `CertProviders`, `Webhooks`, `Teams` | issuers and the ingress of the UI; pushes to apps that are not built; members of teams and projects | later |
| pure algorithms (diagnostics, cron schedules) | operators checked against a reference definition | later |

Abstract specifications: `SingleUse` is one module that two others implement, with the
refinement mapping in their instances `Tickets` and `Once`; the atomic register per
environment with an append-only log is stated as `WritesAreAtomic` and
`HistoryVersions` of `AppDeploy`. Every safety property that a run checks is also a theorem
(section 5).

`MC*` modules give the constants their values. `Operator_proofs` and
`Administration_proofs` are about two components each and extend both modules, so the
specifications of `Environments` and `SelfUpdate` carry their component in their names
(`SpecEnvironments`, `InitUpdates`).

## 3. How the modules correspond to the code

**VestaAppSpec.** A spec is the app-level image, the list of environments with their
own images, and one value for the rest of the configuration. Each edit is one operator
from a spec to a spec: `DeployEdit` (`deploy.go:88`), `RollbackEdit` (282),
`ScheduleEdit` (`scheduler.go:56`), `UpdateEdit` with `restoreEnvImages`
(`apps.go:330`), `PinEdit`, a JSON patch by list index (`builder.go:496`),
`CloneEdit` (`environments.go:411`), and `LimitsEdit`, the list put back whole with other
annotations (`ratelimit.go:158`). `ResolveImage` is the operator's
`resolveImage` (583) with its `latest` default.

**AppDeploy.** A request is `get` (it will read) or `put` (it has read and will write).
`Get` holds everything a handler decides from its read, `Put` its write, `Conflict` the
refusal and the retry, `Abort` any other end. A version number is only ever compared
with the current one, so `fresh[p]` says whether process `p`'s read is still current; every
write clears it for all. The operator's reconcile is `OpGet`, `OpSync` per environment,
`OpStatusGet`, `OpRecord` per environment and `OpCommit`; its reads come from `cache`,
which `Watch` brings up to date. Two details are kept because they decide what happens:
the retry of `UpdateApp` runs on the patch its first attempt filled in (`AfterAttempt`),
and `RollbackApp` reads every version as zero (`VersionRead`).

**AppObjects.** The specs and objects keep the fields the operator's decisions depend
on: replicas and autoscaler, ports, domains, TLS and issuers, claims, cron jobs, labels,
and one number for everything in the Secrets a rollout follows. `Want` gives every kind
of object after its call of a pass, from the spec, the environment, the phase and what
is there: `Replicas` (`vestaapp_controller.go:408`), `WantService` (1052),
`ResolveCert` (1195), `WantIngress` (1252), `WantRedirect` (1426), `WantScaler` (1735),
`WantCrons` (1833). A port's name is the user's with a running number, in place of the
suffix that `uniquePortName` looks for. Container and pod specs are left out, and lists
that name an environment twice are excluded (`ReconcilerAssumption`).

**AppReconciler.** `app` is the resource, `cache` the operator's copy, and `current` says
which copies are of its latest version. `op` is the operator: what it does (`pc`), on which
copy (`base`), for which environments (`left`, `env`), and at which call (`step`) of
`SyncOrder` or `CleanOrder`. `objs` are the objects per environment, `seen` the cached
Deployments, `pods` how their pods do, `data` how often secrets were written. A pass is
`OpGet`, a `Sync` (or `Deploy`) per object and environment, `StatusGet`, `StatusPut`; the
first pass of an app is `Mark`, which writes the finalizer and ends; the last ones are
`Clean` per object and `Unmark`. `SyncFail` leaves nothing, everything or part of what was
wanted, `SyncShrug` is an error that is logged only. A conflict on a Deployment is retried
within milliseconds, so it is either repeated until the cache has caught up (`Deploy`) or in
vain (`DeployFail`). `strays` and `blind` are history variables for the properties:
environments taken out of the spec, and cleanups that could not see the cron jobs. Left out:
the normalisation of labels beyond the finalizer, the error of resolving targets in
`updateStatus`, Deployments of which only some pods are available.

**ScheduledDeployments.** `List` is the query of a tick, `Claim` the unconditional update to
running, `Skip` the claim that fails, `Get` and `Put` the read and write of the app,
`Finish` the outcome and `FinishLost` the ignored error of writing it. A worker carries out
the rows of its list one at a time, in the order of their times. What a row writes is
`ScheduleEdit` above. Left out: the query's unchecked iteration error, which can shorten a
list by a tick and nothing else.

**Builds.** One row and one goroutine per build; Jobs go by name (`JobName`), which builds
of one commit share and builds of other commits may. A row keeps the image its Job is to
push: the app's repository as it is then (`repository`, which `UpdateApp` edits) and the
commit's characters. `Pin` writes what follows the first colon of that address
(`AfterColon`) as the environment's tag, and the environment pulls it from its own
repository (`Own`) or the app's (`Pulled`). `CreateFails` and `CancelFails` include the call
that took effect and whose answer was lost. `Trigger` stands for both the button and the
webhook.

**SelfUpdate.** `Check`, `CreateRecord` and `CreateJob` are the steps of `Start`;
`Observe`, `GiveUp` and `CloseFails` those of a watch; `Boot`, `BootBlind`, `Reconcile`
and `ReconcileFails` those of the startup. `spoilt` is a history variable: it remembers
that two requests passed the check together, that a call to the database was lost or
that a caller hung up, the three things after which a record may stay open.

**Factors.** The tables of `db/mfa.go` for one account: `totp`, `passkeys`, `codes`,
`grants`, `ceremonies`, `lockout`, the `policy` and the `tokens` a user holds. A request is
at one statement (`req.at`); the actions carry the names of the functions that send it
(`ListTOTP`, `ListPasskeys`, `RequireReauth`, `TakeWebAuthnSession`, `ConsumeBackupCode`,
`AdvanceTOTPCounter`, `CountFailure`, ...), `Entry` says where each handler begins and
`AllowedForChallenge` is the route table of `tokentype.go`. A grant, ceremony or code is a
ticket with a number; time is left out, so what may expire may be refused at any time
and a lockout may pass. Two history variables: `since` has the factors an account has held
without a break since a request began; `begun` has the secrets and the registrations whose
beginning was right, by a request that had spent a grant or that held no factor throughout.
Only the beginning is guarded in the code (`mfa.go:223-228`, `requireReauthForNewFactor`), so
`FactorsPaid` judges each later statement (the confirmation, the new passkey, the codes
that are replaced) by the beginning it rests on.

**SingleUse.** A ticket is handed out once, may be withdrawn, and is taken by at most one
taker that came for its kind.

**Accounts.** `account`, `invites`, `resets` and `keys` are the tables of users, invite
tokens, reset codes and API tokens. A password is named by the request that set it, so
that a property can tell who did. Every handler takes one step for each statement; what
it does when a statement fails is what the code does, also where it goes on
(`WithdrawCodes`, `UseCode`, `CreateInvite`). `FindKey` and `LetThrough` are
`authenticateAPIKey` and the middleware after it; `Routes` are the four combinations of
scopes and of access for viewers in `main.go`. Sessions are taken for valid, teams and
members appear only in the setup, and every setup names the same team.

**Secrets.** `store` has the VestaSecrets and ConfigMaps by environment and kind; each
handler is a record of the calls it makes and of what it keeps (`CreateAppEnvSecret`,
`UpdateSharedSecret`, `UnbindSharedSecret`, ...), and one set of actions carries these out:
`List`, `Get`, `Put`, `Remove`, `RestartDeployment`, `ReadApp`, `WriteApp`. A version is
`fresh` in a request until somebody writes the object. The operator's secret controller is
`SecretRead`, `SecretWrite`, `SecretStatus` and `SecretFails`, with a queue that names an
object once; `Collect` is the garbage collector, with the uid (`born`) that tells a deleted
object from its successor. `ReconcileApp` is what the app controller makes of secrets: the
credential's copy and the template with the versions the rollout hash follows; it is one
step, and `AppReconciler` has its calls one by one. `BadKeys` are keys of a form Kubernetes
would refuse, which may have been stored before they were checked. `Listed` is a list of the
cluster given by rank: its k-th entry is the k-th object that is stored. A start is of
requests that some handler answers, with the parameters it asks for (`Possible`,
`StartsAssumption`).

**Environments.** `projects`, `crs` (VestaEnvironments, which share one namespace and thereby
their names), `apps`, `namespaces`. A request writes the project (`GetProject`,
`PutProject`), then the VestaEnvironment (`CreateCR`, `GetCR`, `PutCR`, `DeleteCR`), and a
clone the applications (`ListApps`, `PatchApp`). An update of a project has a body with any
of the keys `team` and `envs`, and sets those (`IsBody`, `Set`); the list of environments it
may have is taken as it is, with names twice. The other handlers go by the first entry of a
name (`PlaceOf`), but for a removal, which takes all. The two controllers share `Take`,
`Label` and `Status`. All settings of an environment are two, `branch` and `auto`: enough to tell
two edits that do not touch each other. `Only` is the part of a list that is kept, given by
rank: its k-th entry is the k-th that is kept. At the start no project has two environments by
one name, and what the operator has not queued it has seen (`Possible`, `StartsAssumption`).
The second stays so, which is `NoneOverlooked`, proved and checked by no run; the first stays so
but for a name that an update of the project gave it twice, which is `EnvsUnique`.

**ProjectTransfer.** What is stored, at the source, at the target and in a bundle, is a
function from names of objects to contents. An export collects one object after the other
and drops what it cannot read; an import goes through `Plan` and stops at the first object
that cannot be created. What is left to read or to create is a set of objects with their
turns, lower turns first: the order of `applyPayload`, whose maps leave the order within a
turn open. The source has a project and only objects that the rest of the code can name, the
target only what has a place there, and a project and an application name the environments
and the credentials of `EnvOrder` and `Credentials` (`SourceAssumption`). An application has
the pull secrets of its image (`pull`) apart from those of its environments (`envPull`): the
operator pulls with both, an export looks at the first only (`Referenced`). Data is not
looked into, but for `Bad`. Nothing is deleted at the target: that somebody removes a project
that was imported half-way, which leaves what is in it (`DeleteProject`), and imports it again is
not covered. `ReadIdentity`, `StoreIdentity` and `RereadIdentity` are
`InstanceIdentity`. A bundle is sealed for a key and opened with one; what seals it is not
modelled.

## 4. Runs

Every run is small enough for TLC to go through completely. Passing:

| Run | States | What it shows |
|---|---|---|
| `deploys` | 562 000 | two overlapping requests of every kind (deploy, schedule, pin, rollback, clone, rate limits, configuration), the operator with its cache and one fault: writes take effect one after the other and undo nothing, the history is dense and current, an update that is not retried keeps the images, and the cluster ends up at the stored spec |
| `reconciles` | 608 000 | an app in two environments, edited, deleted and created anew, with an autoscaler, cron jobs, restarts or lost calls at any step, and old caches: nothing that cleanup deletes outlives the app, a pass takes no replicas from the autoscaler, no issuer gets a user's certificate, and objects and phase end up as the spec says |
| `schedules` | 754 000 | two replicas, three rows: each replica deploys a row once and in order, what is completed was deployed, a cancellation in time holds, every due row is taken |
| `builds` | 407 000 | two builds of two commits whose Jobs have one name, for an environment with a repository of its own and one without, while the app's repository is edited, with a port and without: a success was pushed unless a deletion led its watch to another's Job, what is pinned is the tag of such a build, Jobs are shared only after a cancellation deleted one, builds end |
| `updates` | 646 000 | two servers, two requests: a record is closed once, as a success only if its Job completed, and is closed in the end |
| `factors` | 157 000 | two requests about one account, with resets and a changing policy: a factor is not overlooked, every change rests on a grant or on an enrollment rightly begun, tickets are single-use |
| `secrets` | 284 000 | two requests about one object, with refused writes, a restart and garbage collection: no key is lost, a synced secret is, Secrets and pods catch up |
| `environments` | 107 000 | two requests about projects and environments, one perhaps an update of the project with a list that has a name twice, with both controllers, refused writes and restarts: no other request doubles a name, nothing old is put back over an edit, labels follow |
| `transfer` | 1 212 000 | an export, two imports, two readers of the identity, an edit on either side and refused calls: one identity, one maker of a project, everything carried but the credentials that an export overlooks |
| `accounts` | 440 000 | three requests and failing statements: invites are taken once, passwords are set only with proof, reset codes end, keys stay within bounds |

Each module also states its type invariant: `TypeOK`, `EnvironmentsTypeOK`,
`UpdatesTypeOK`. `deploys` checks it, and it is a theorem for every module.

Violations, each a disagreement between the code and what the repository says of it:

| Run | Property | Disagreement |
|---|---|---|
| `update_retry_image` | `RetryKeepsImages` | a retried `UpdateApp` writes the image its first attempt restored and undoes the deploy it lost to |
| `passkey_reauth` | `PresenceBegins` | nobody can prove their presence with a passkey: the table of ceremonies refuses the purpose `reauth` |

Known disagreements and surprises without a run of their own. Images and builds:

* A deploy whose environment is removed between its check and its retry writes the app-level
  tag (`deploy.go:113` against the comment at 120); `DeployKeepsOthers` excepts this case,
  and `WritesSurvive` allows it (`gone`).
* An explicit `null` image is deleted from the patch by the first attempt of `UpdateApp`, so
  a retry restores the override it was to clear (`apps.go:636` against 626).
* A build is pinned by list index to what it read by name: reordered in between, the image
  lands in another environment (`builder.go:516` against the comment at 496).
* `CloneEnvironment` writes back the list of an app that it read, with no version: it undoes
  a deploy in between, and of two clones one is lost in the apps; cloned to an environment
  the app still lists, it lists that environment twice (`environments.go:406-446`).
  `UpdateRateLimits` writes the list back in the same way to change an annotation
  (`ratelimit.go:145-173`), and undoes a deploy as well.
* No rollback finds its version: `deploy.go:256` reads it as a `float64` where the resource
  holds an `int64` and gets zero, against the "one-click rollback" of
  `SPECIFICATIONS.md:807`. `AppDeploy` models the zero, so a rollback never writes.
* A scheduled deployment to one environment writes the app-level tag as well
  (`scheduler.go:138`) and moves every environment that has no tag of its own, which
  `deploy.go:120` takes care not to do. Unless it names a repository, that of the
  environment is replaced by the app's (82, 102). A replica that dies between its claim (54)
  and the outcome leaves the row running for good.
* A cancelled build goes on, is pinned, and overwrites its row (`builds.go:300` against
  `builder.go:152`, 422 and 433). A server that dies leaves its build's row running
  (`builder.go:165`). A long app name pushes the commit out of the 63 characters of the
  Job's name (83).
* A build pins the wrong tag when its registry has a port: the tag is all that follows the
  first colon of the address (`builder.go:477`), so `registry:5000/app:1a2b3c4d` pins
  `5000/app:1a2b3c4d`, against "trigger the operator to deploy the new image" (475). And
  only the tag is pinned (509): an environment with a repository of its own pulls the tag from
  there although the Job pushed to the app's (`builds.go:84`, 95), and one without pulls it
  from wherever the app's has been moved to since. `OnlyBuilt` says what holds nevertheless.
* A watch whose Job was deleted takes the next Job of that name for its own: its build is
  called a success, and its tag pinned, although only the other's image was pushed
  (`builder.go:432`; `Pushed` says when).
* A push deploys to one environment of several that follow its branch: they share a commit
  and thereby the name of a Job (`builder.go:81` against `SPECIFICATIONS.md:572`).
* Two upgrade requests that pass the check together open two records, and a startup closes
  the newer only (`updater.go:71` against 187). A caller who hangs up leaves a record nobody
  closes (`updater.go:83`); `RecordsClose` excepts both.

Operator:

* `StopApp` ("stops an app by scaling to zero replicas", `deploy.go:558`), `StartApp` and
  the phase that `SleepApp` and `WakeApp` send have no effect: the status is a
  subresource and is dropped from the patch. `ScaleApp` writes a field that nothing reads.
* A new app that may sleep is put to sleep by a status computed from a cache that does
  not have its Deployments yet (`vestaapp_controller.go:2063`, 2117 against
  `SPECIFICATIONS.md:829`).
* A change of an app's labels wedges its reconciles for good: project and custom labels
  are written into the map that is also the Deployment's selector
  (`vestaapp_controller.go:532`). `Settles` excepts this (`Wedged`), `PhaseSettles` shows
  that the phase then says Failed.
* With lagging caches the replicas of an app that may sleep swing between none and one,
  as the phase decides the replicas and the replicas the phase; `Settles` says nothing of
  the replicas, and `PhaseSettles` of the phase, of such an app.
* An autoscaler that is switched off is never deleted (183) and goes on changing the
  replicas. An environment taken out of the spec keeps all its objects (239). A cleanup
  leaves the claims, the redirecting ingress and the middlewares, and takes an error of
  listing the cron jobs for an empty list (285).
* `custom-annotations` leaves TLS to the user's annotations, but line 1350 deletes the
  issuer among them and the Traefik annotations are set all the same.
* The condition Ready says "All environments are running" while an app is still
  Deploying without complaints. A secret that a container reads by reference or mounts
  is not part of what a rollout follows (442-493). Ingresses ignore the ports that an
  environment overrides (1256). Every status update changes `LastDeployedAt` and thereby
  starts another reconcile.

Accounts and factors:

* Two removals that overlap can take both factors of an administrator whom the policy
  requires to hold one (`mfa.go:814`). Finishing an enrollment asks for no grant: an account
  that had no factor when an app or a passkey was begun, and has got another since, gains a
  second factor without the fresh confirmation `src/README.md:340-346` speaks of. The comment
  at `mfa.go:223-225` takes the pending row for proof enough, and `FactorsPaid` states no
  more than that. `ConfirmTOTP` also replaces the recovery codes of an account that has some
  (320), against `src/README.md:331-332`, confirms whatever secret the row holds by then, and
  `AdvanceTOTPCounter` does not look at whether it has moved a row. Two failures counted
  at the same time count once (`CountFailure`, `SaveLockout`).
* Two setups that overlap can make two administrators, and a setup that fails after
  the user cannot be repeated (`auth.go:82-143`). An invite is used up although the
  password that follows could not be set. Two overlapping requests for a reset leave
  two live codes; a code is validated again by a second reset before the first has used
  it up; `CodesEnd` and `PasswordsProven` say what holds nevertheless.

Secrets, environments, transfer:

* Two overlapping updates of a shared secret may leave it different in two environments:
  each is refused where it lost and goes on (`secrets.go:615`). `UpdateSecret` and
  `DeleteSecret` go by a name and take the first namespace that has it. `synced` stays
  true from an edit until the operator has seen it. The copies of a registry credential
  outlive it.
* `UpdateProject` sets every key of the body (`projects.go:165-169`), `environments` among
  them, and nothing looks at the list: it may have a name twice, of which updates and clones
  see the first and a removal takes both, and it replaces the entries that other requests
  have written since its author looked. `EnvsUnique` and `EditsKept` except what such an
  update was asked for.
* VestaEnvironments are found by the name of the environment alone, so two projects
  share one. A conflict on one is only logged, and pushes go on by the old branch
  (`environments.go:296`); a deletion that overlaps an update leaves it behind. Removing
  a project removes neither its environments nor its apps. The team's label stays when
  a project's team is cleared, and the counts in the statuses are as old as the last
  look at the object.
* A bundle is to carry "the registry credentials its images need" (README 404), and pull
  secrets can be given "at project, app, and environment levels" (27). `referencedPullSecrets`
  (`projecttransfer.go:501-526`) reads those of the project and of `spec.image` of its apps;
  those of `spec.environments[]`, with which the operator pulls as well
  (`vestaapp_controller.go:377`, 978), stay behind, and pods that need them do not start at the
  target. `Overlooked` says which these are, and `CarriesAll` excepts them: without the exception
  it does not hold in `transfer`, where a user adds an application that names such a credential.
* An export drops what it is refused to read (`projecttransfer.go:123` against the comment
  at 114); an import makes no VestaEnvironments, counts a shared secret before it knows of
  failures, and cannot bring a project under another name to where its apps are, as apps
  have global names.

### Bounds

`ApiRetries` is 2 where the code has 5: a retry is a loop on the same state, and two
attempts show a first one and a repeated one. Two requests are enough for every pair of
reads and writes to overlap; the operator is a third writer. `accounts` has three, as a
reset, a change and another reset of one user are three. Three environments tell
the one that is deployed to from one with a tag of its own and one without. One fault
in a run meets every step it can hit, as TLC tries them all; where `Faults` is a switch,
any number of calls may be refused. Times are 0 and 1: before
and at the due time. `MaxEvents` is 2: any two edits, deletions, pod
changes, autoscaler moves, lost calls and restarts, in any order and at any step, while
the operator and its caches go on as long as they like; creations are not counted, as
every one but the first needs a deletion. Two environments show what one leaves to the
other. `MaxUpdates` and `MaxTime` bound records and names in
`SelfUpdate`: two records with one name or two. `LockoutThreshold` and `BackupCodeCount`
are 2, one failure or code before the last. The requests of `secrets` and `environments`
are drawn from lists of every kind of request, in pairs that are about one object;
`MaxUser` is 1 in `transfer`: an edit at the source or an object that stands in the way at
the target.

### Fairness

The operator's worker and its watches (`Operate`, `Watch`, `WatchDeployment`, `SecretStep`,
`Reconcile`, `ReconcileApp`): the queue requeues a failed reconcile and every app after
thirty seconds. A handler that has started ends: every call has a deadline. The ticker of
the scheduler fires. The poll and the thirty-minute timer of a build's goroutine, while its
server lives. Servers are restarted by their Deployment and reconcile before they serve.
Kubernetes collects what has lost its owner and rolls out a changed template. No fairness is
assumed of users, Jobs, faults, cancellations or crashes; `SecretFails`, `OperatorFails` and
`OperatorRestarts` stop with the requests (`Active`), as nothing converges while they go on.
`Factors`, `Accounts` and `ProjectTransfer` have safety properties only and no fairness.
Runs that stop at a bound switch the deadlock check off: the clock, the rows, the requests
run out.

## 5. Proofs

Every safety property of a passing run is proved, for every value of the constants that
meets the named assumptions. Those say that the distinguished values differ from the others
and that inputs and starts are well formed; none bounds the number of requests, replicas,
rows, environments, retries or faults. Each proof has the same plan: an inductive invariant
made of named parts, a lemma per action or group of actions that a step keeps it, and the
property from the invariant.

**AppDeploy_proofs** (`NamesAssumption`, `AppDeployAssumption`, `InputsAssumption`).

* `TypeCorrect`. The invariant is `TypeInv`: `TypeOK` and `RequestsPrepared`, that a request
  past its first read of a kind that needs it carries a repository or tag.
* `AtomicWrites`. The invariant adds `FreshIsCurrent`: a request whose read is fresh holds
  the spec that is stored. A write that is not refused is therefore an edit of the current
  spec.
* `DeployIsLocal`, from `AtomicWrites` and lemmas on `DeployEdit` and `ResolveImage`.
* `WritesAreKept` and `UpdatesKeepImages`. These need that a handler still wants what it was
  asked for, after what it notes for itself and what a refused update leaves in its patch:
  `AskedKept`. The rest is what each edit does to an environment's image, one lemma per kind
  of request.
* `HistoryIsDense`, from `HistoryInv`: the histories in the cache and in the making are
  dense as well.
* `HistoryRecordsTheSpec`, from `RecordInv`: an operator whose read is fresh builds on the
  stored history, and has for each target behind it recorded what that target resolves to
  (`Turned`); at the end of the loop that is every environment.

**ScheduledDeployments_proofs** (`ScheduleAssumption`): type correctness, `OncePerReplica`,
`CompletedDeployed`, `CancelHolds`, `InScheduledOrder`. The inductive invariant `IInv` adds to
`TypeOK` that a row in a worker's hands has been claimed (`Started`, `Claimed`), that what is
still ahead on its list has not been written by it (`Ahead`), that a finished row was written
(`DoneDeployed`), and that a row cancelled before anyone listed it is on nobody's list
(`Untouched`). For the order, `OrderInv` says that what a worker has
begun is not later than what is left to it (`BegunFirst`), and that what has come up since it
made its list comes after the list (`ListFirst`).

**Operator_proofs, the objects of an app** (`ObjectsAssumption`, `ReconcilerAssumption`,
`NoneIsNoApp`), with the lemmas on `AppObjects`: `Want` gives objects of the right kind, an ingress
names an issuer only with the generated secret (`CertTypes`), and a Service repeats no port
(`PortsDistinct`).

* `CleanedUp`: the invariant is `IInv`. To `Owned` it adds what makes an old copy safe: a
  copy that is `current` is the resource (`Copied`, `Based`); a copy of the app that shows
  it alive, with the finalizer, names only environments the resource still holds
  (`CacheHolds`), and so does a pass in progress (`SyncHolds`), so it creates nothing an app
  would not own; the copy that starts a cleanup names every environment with something in it
  (`CacheCovers`), and a cleanup has whatever is left still ahead of it (`Ahead`), so
  nothing is left at its end.
* `TypeCorrect` and `CertsAreKept`, from `TypeInv`: `IInv`, the types of the objects and
  caches with the secrets counted (`World`), that a pass goes over environments of its copy
  (`InTargets`), and `CertsKept`. A step changes at most one object (`PutsStep`), to a value
  of its kind. `ScalingIsLeft` follows from what such a step writes.

**Operator_proofs, environments** (`EnvironmentsAssumption`, `StartsAssumption`): `EnvsUnique`,
`EditsKept`, from `EnvInv`: as for secrets with requests (`RequestsHold`) and both controllers
(`LooksAt`), and each object is as one of its kind is (`Shaped`). A handler whose read is still
current has found its name free or taken in the stored list. What `Only` does to a list
rests on a bijection of the kept positions with their ranks (`Ranked`, `RanksDiffer`), for which
`MinOfNats` gives the least number with a property; the same gives the first entry of a name
(`FirstIs`). `EnvsUnique` is inductive together with `EnvInv`: only the write of a project
changes its list (`ListStep`), it has a name twice only when what was read has or the list
that was asked for (`NewSpecIs`), and in the second case the request has ended and stays so
(`EndedStays`). `EnvironmentsTypeCorrect` and
`NothingOverlooked` follow from `EnvTypes`: `EnvInv`, the types, that queues have no object
twice (`QueuesOK`), that an object in a controller's hands carries the labels from the
step that is about them on, and has its namespace before its status (`InHand`), and
`NoneOverlooked` itself. Every step leaves an object queued or in hand, or as it was
(`StillSeen`): a write queues what it writes, a round that is given up queues its object, and
one that ends found the object unwritten since it was read.

**Builds_proofs** (`BuildsAssumption`; nothing is assumed of the names): `BuildsTyped`,
`OnlyBuilt` and `JobsShared`. A Job was made for a build that has its name, and a complete
one has pushed its image (`JobsNamed`); the Job a build waits for is there and is its own,
unless one of its name was deleted (`JobsKept`), so a build that finds its Job complete has
its image pushed or was led astray (`Pushed`), which lasts (`PushedStays`) until it is pinned
(`PinsPushed`, `PinsOwn`), and a second build that creates a Job of the name shares it with
nobody.

**Factors_proofs** (`FactorsAssumption`, `AccountsAssumption`): `FactorsTyped`,
`SecondFactorAsked`, `FactorsPaid` and the refinement of `SingleUse`. A request is followed through its
statements (`Sound`): what it is about bounds where it can be (`OnItsWay`), it has spent
nothing before it takes a ticket (`Unspent`), where it applies a change it has paid or found
no factor (`Paid`), and a sign-in that has read both tables has missed nothing that was
there since it began (`Complete`). A second invariant on top of it (`PInv`) says that what is
pending was rightly begun (`Beginnings`) and that a request at a statement that changes
factors or codes has what pays for it, a grant or such a beginning (`Warranted`); every
step is then shown to pay (`Pays`), which is `FactorsPaid`, an action property. `TicketsAreSingleUse` maps the tables of grants,
ceremonies and recovery codes to the one pool of tickets: `TicketsNumbered` says that each
carries a number that was given out, so a new one is new.

**Administration_proofs, self-update** (`UpdateAssumption`, `NamesAssumption`):
`UpdatesTyped`, `SuccessIsReal` and `FinishedOnce`, from `UpdatesInv`. Besides the types: a request that has begun has a server and a name
(`CallsNamed`), and what a Job that completed has upgraded stays upgraded when the Job
expires (`CompleteIsDone`).

**Administration_proofs, accounts** (`AccountsAssumption`, `StartsAssumption`):
`AccountsTyped`, `PasswordsProven`,
`CodesEnd`, `KeysBounded` and, for the invites, the refinement of `SingleUse`. What is shown
is of the user and was good when it was looked at (`Proven`, `Remembered`); a request for a
code has withdrawn the earlier ones before it makes another (`Answered`); the keys anybody
knows of are within the role of their owner, and a revoked one is not there again
(`KeysKnown`); a request takes one invite (`TakesOne`).

**ProjectTransfer_proofs** (`TransferAssumption`, `SourceAssumption`): `TypeCorrect`,
`OneIdentity`, `ProjectOfOne`, `CarriesAll`, all from the invariant of `TransferIsSound`. What
is stored on either side and what an export holds is well formed, and what an import creates
has a place at the target (`World`, `Holding`, `IsPlaced`), which is what `TypeCorrect` adds. A
request past the reading of the key has the stored one (`Identity`); what an export holds was
at the source and, if nothing was refused or edited, misses only what is still to be read
(`Holding`, `Complete`); what an import has to create is what the bundle asks for, and every
object of the bundle is at the target or still to be made (`Imported`).

**Secrets_proofs** (`SecretsAssumption`, `StartsAssumption`): `WritesKept`, `SyncedIsTrue`,
`TypeCorrect` and `ChangesAreSeen`. What a request has read is what is stored as long as
nobody has written it (`ReadHolds`), so is what the operator has read, and the Secret it has
written is still there when it reports (`WorkHolds`). The types rest on `TypeInv`: a request
is where its handler may be, names an object where it needs one, and where it writes without
a further read it has read all that it lists (`Going`). `ChangesAreSeen` is the safety half of
`SecretsSync`: a VestaSecret that the operator neither has queued nor in its hands is in its
Secret as it is now, and reported so (`NoneForgotten`). A restarted operator queues every
stored one, which is about `Listed` (`AllAreListed`): the entries of a list are told apart by
their ranks (`Ranked`, `LeastOfNats`). That invariant was checked with TLC on the model of
`secrets` before it was proved.

Only model-checked are the liveness properties, as fairness and ENABLED are out of the
prover's reach: `Converges`, `Settles`, `PhaseSettles`, `DueRuns`, `BuildEnds`,
`RecordsClose`, `SecretsSync`, `PodsCatchUp` and `LabelsFollow`. The two violations are
counterexamples that TLC finds.

## 6. Not modelled

Components and reasons are in `PROJECT.json`. Inside the modelled parts: wording of
notifications, events and statuses on GitHub; authorization other than scopes of keys and
types of tokens, which precedes every handler and changes no state; restart, scale and stop
of an app; listing and revealing; expiry, which is a refusal at any time; cryptography; in
the operator, the container and pod specs, probes, the resolution of VestaConfig defaults
and the texts of conditions and diagnostics. `AppDeploy` starts after an app's creation and
ends before its deletion, which are in `AppReconciler`; the two share the operator but not
its state: the one looks at images and history, the other at everything else.
