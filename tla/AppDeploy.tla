------------------------------ MODULE AppDeploy ------------------------------
(***************************************************************************)
(* One VestaApp resource, everything that writes it and the operator that  *)
(* acts on it.  The API handlers, the scheduler and the build watchers are *)
(* requests: each reads the resource, edits what it read, and writes it    *)
(* back, with any number of other writes in between.  The operator copies  *)
(* the resolved images into one Deployment per environment and records the *)
(* deployment history in the status, whose writes move the same            *)
(* resourceVersion.                                                        *)
(*                                                                         *)
(* The only thing a resourceVersion decides is whether it is still the     *)
(* current one, so fresh[p] holds that instead of a number.  Every write   *)
(* is taken to move it.  The resource exists throughout.                   *)
(***************************************************************************)
EXTENDS VestaAppSpec

CONSTANTS Requests,    \* calls to the API server, its scheduler and its builder
          Operator,    \* the operator's worker for this app
          Cache,       \* the operator's informer cache
          Inputs,      \* what a request may ask for
          InitialApp,  \* the spec the app was created with
          ProjectEnvs, \* the project's environments, for an app that names none
          ApiRetries,  \* attempts of a handler that retries conflicts (5)
          MaxFaults    \* bound on the operator's failed or interrupted reconciles

ASSUME AppDeployAssumption ==
    /\ Operator \notin Requests /\ Cache \notin Requests /\ Operator # Cache
    /\ InitialApp \in AppSpec
    /\ ProjectEnvs \in Seq(Envs)
    /\ ApiRetries \in Nat \ {0}
    /\ MaxFaults \in Nat

VARIABLES app,      \* the spec stored in the cluster
          history,  \* status.deploymentHistory
          fresh,    \* fresh[p]: no write since p last read the resource
          req,      \* the requests
          cache,    \* the resource as the operator's cache holds it
          op,       \* the operator's reconcile
          running,  \* the image of the Deployment in each environment's namespace
          faults    \* failed or interrupted reconciles so far

vars == <<app, history, fresh, req, cache, op, running, faults>>

Procs  == Requests \cup {Operator, Cache}
Kinds  == {"deploy", "rollback", "update", "schedule", "pin", "clone", "limits"}

PatchEntry == [name : Envs, image : Image \cup {None, Null}]
Patch      == [image : Image \cup {None, Null},
               envs  : Seq(PatchEntry) \cup {None},
               cfg   : Cfgs \cup {None}]

\* A request's parameters, None for those its kind has no use for.  A deploy keeps
\* the repository it read first in repo; a clone copies env to new; version is a
\* rollback's.  A scheduled deployment may name no environment and no tag.
Input ==
    {in \in [kind : Kinds, env : Envs \cup {None}, new : Envs \cup {None},
             repo : Repos \cup {None}, tag : Tags \cup {None}, version : Nat,
             patch : Patch \cup {None}] :
        /\ in.kind \in {"deploy", "pin"} => in.tag \in Tags
        /\ in.kind = "clone" => in.new \in Envs
        /\ in.kind = "update" => in.patch # None}

ASSUME InputsAssumption ==
    /\ Inputs \subseteq Input
    /\ None \notin Patch \cup Seq(PatchEntry)

Record == [version : Nat, env : Envs, image : (Repos \cup {None}) \X Tags]

\* in is the handler's own copy of its parameters; asked, the caller's, is only
\* there for the properties.
Idle     == [pc |-> "idle", asked |-> None, in |-> None, base |-> None, tries |-> 0]
Ended(r, outcome) == [Idle EXCEPT !.pc = outcome, !.asked = r.asked]
OpIdle   == [pc |-> "idle", base |-> None, left |-> <<>>, hist |-> <<>>, tries |-> 0]

Init ==
    /\ app     = InitialApp
    /\ history = <<>>
    /\ fresh   = [p \in Procs |-> FALSE]
    /\ req     = [r \in Requests |-> Idle]
    /\ cache   = [app |-> InitialApp, history |-> <<>>]
    /\ op      = OpIdle
    /\ running = [e \in Envs |-> None]
    /\ faults  = 0

\* Mutant: a write leaves the resourceVersion alone.
MoveNothing == UNCHANGED fresh

\* Any write of the resource, of its spec or of its status, moves resourceVersion.
MoveVersion == fresh' = [p \in Procs |-> FALSE]

-----------------------------------------------------------------------------
(* Requests *)

\* The handlers that send back the object they read are refused once it has moved;
\* the build watcher, CloneEnvironment and UpdateRateLimits send patches without
\* a version.
SendsVersion(kind) == kind \notin {"pin", "clone", "limits"}

\* Mutant: the last writer wins.
NeverRefused(r) == FALSE

Refused(r) == SendsVersion(req[r].in.kind) /\ ~fresh[r]

\* Mutant: one attempt too many.
OneMoreAttempt(kind) == ApiRetries + 2

\* DeployApp loops and UpdateApp uses RetryOnConflict; the others give up.
Attempts(kind) == IF kind \in {"deploy", "update"} THEN ApiRetries ELSE 1

\* RollbackApp asserts a record's version to be a float64, but the client decodes
\* whole numbers to int64: the assertion fails and yields zero.
VersionRead(record) == 0

Records(version) == {i \in DOMAIN history : VersionRead(history[i]) = version}

\* What the handler checks in the resource it read.  DeployApp checks only on its
\* first attempt.  A build of an app that has environments needs its own one.
Accepts(in, tries) ==
    CASE in.kind = "deploy"   -> \/ tries > 0
                                 \/ HasEnv(app, in.env) /\ app.image # None
      [] in.kind = "rollback" -> /\ HasEnv(app, in.env)
                                 /\ Records(in.version) # {}
                                 /\ history[Min(Records(in.version))].env = in.env
      [] in.kind = "pin"      -> HasEnv(app, in.env) \/ app.envs = <<>>
      [] in.kind \in {"clone", "limits"} -> HasEnv(app, in.env)
      [] OTHER                -> TRUE

\* What the handler keeps from that read for its own use: the repository of the
\* first read, or the tag of the first record with the version.
Noted(in, tries) ==
    CASE in.kind = "deploy" /\ tries = 0 -> [in EXCEPT !.repo = app.image.repo]
      [] in.kind = "rollback" ->
            [in EXCEPT !.tag = history[Min(Records(in.version))].image[2]]
      [] OTHER -> in

Edit(in, base, cur) ==
    CASE in.kind = "deploy"   -> DeployEdit(base, in.env, in.repo, in.tag)
      [] in.kind = "rollback" -> RollbackEdit(base, in.env, in.tag)
      [] in.kind = "update"   -> UpdateEdit(base, in.patch)
      [] in.kind = "schedule" -> ScheduleEdit(base, in.env, in.repo, in.tag)
      [] in.kind = "pin"      -> PinEdit(base, cur, in.env, in.tag)
      [] in.kind = "clone"    -> CloneEdit(base, cur, in.env, in.new)
      [] in.kind = "limits"   -> LimitsEdit(base, cur)

\* What an attempt leaves in the request for the next one: UpdateApp has filled in
\* the patch it was given.
AfterAttempt(in, base) ==
    IF in.kind = "update" THEN [in EXCEPT !.patch = RestorePatch(base, @)] ELSE in

\* The call arrives.  A finished build first records its commit in spec.git.
Start(r) ==
    /\ req[r].pc = "idle"
    /\ \E in \in Inputs :
         /\ req' = [req EXCEPT ![r] = [@ EXCEPT !.pc = "get", !.asked = in, !.in = in]]
         /\ IF in.kind = "pin" THEN MoveVersion ELSE UNCHANGED fresh
    /\ UNCHANGED <<app, history, cache, op, running, faults>>

Get(r) ==
    /\ req[r].pc = "get"
    /\ LET in == req[r].in IN
       IF Accepts(in, req[r].tries)
       THEN /\ req' = [req EXCEPT ![r] = [@ EXCEPT !.pc = "put", !.base = app,
                                                   !.in = Noted(in, req[r].tries)]]
            /\ fresh' = [fresh EXCEPT ![r] = TRUE]
       ELSE /\ req' = [req EXCEPT ![r] = Ended(@, "rejected")]
            /\ UNCHANGED fresh
    /\ UNCHANGED <<app, history, cache, op, running, faults>>

\* The write goes through.
Put(r) ==
    /\ req[r].pc = "put"
    /\ ~Refused(r)
    /\ ~(req[r].in.kind = "pin" /\ PinOutOfRange(req[r].base, app, req[r].in.env))
    /\ app' = Edit(req[r].in, req[r].base, app)
    /\ MoveVersion
    /\ req' = [req EXCEPT ![r] = Ended(@, "done")]
    /\ UNCHANGED <<history, cache, op, running, faults>>

\* The write is refused with a conflict: another attempt, or the end.
Conflict(r) ==
    /\ req[r].pc = "put"
    /\ Refused(r)
    /\ LET q == req[r] IN
       IF q.tries + 1 < Attempts(q.in.kind)
       THEN req' = [req EXCEPT ![r] = [q EXCEPT !.pc = "get", !.base = None,
                                                !.in = AfterAttempt(q.in, q.base),
                                                !.tries = q.tries + 1]]
       ELSE req' = [req EXCEPT ![r] = Ended(q, "failed")]
    /\ UNCHANGED <<app, history, fresh, cache, op, running, faults>>

\* Any other error of a call, the death of the API server, or a JSON patch whose
\* index is out of range: the request ends and leaves nothing behind.
Abort(r) ==
    /\ req[r].pc \in {"get", "put"}
    /\ req' = [req EXCEPT ![r] = Ended(@, "failed")]
    /\ fresh' = [fresh EXCEPT ![r] = FALSE]
    /\ UNCHANGED <<app, history, cache, op, running, faults>>

-----------------------------------------------------------------------------
(* The operator *)

\* resolveTargetNamespaces
Targets(spec) ==
    IF spec.envs # <<>> THEN spec.envs
    ELSE [i \in DOMAIN ProjectEnvs |-> [name |-> ProjectEnvs[i], image |-> NoImage]]

\* The watch brings the cache up to date.
Watch ==
    /\ ~fresh[Cache]
    /\ cache' = [app |-> app, history |-> history]
    /\ fresh' = [fresh EXCEPT ![Cache] = TRUE]
    /\ UNCHANGED <<app, history, req, op, running, faults>>

\* A reconcile starts, from a watch event or thirty seconds after the last one.
OpGet ==
    /\ op.pc = "idle"
    /\ Targets(cache.app) # <<>>
    /\ op' = [op EXCEPT !.pc = "sync", !.base = cache.app, !.left = Targets(cache.app)]
    /\ UNCHANGED <<app, history, fresh, req, cache, running, faults>>

\* Mutant: the image of the environment is not asked for.
DeployAppImage(spec, target) == [running EXCEPT ![target.name] = ResolveImage(spec, NoImage)]

\* reconcileDeployment: the Deployment in the environment's namespace is created or
\* updated to the image the spec resolves to.
ReconcileDeployment(spec, target) ==
    [running EXCEPT ![target.name] = ResolveImage(spec, target.image)]

OpSync ==
    /\ op.pc = "sync" /\ op.left # <<>>
    /\ running' = ReconcileDeployment(op.base, Head(op.left))
    /\ op' = [op EXCEPT !.left = Tail(@)]
    /\ UNCHANGED <<app, history, fresh, req, cache, faults>>

\* updateStatus reads the resource again, from the cache as well.
OpStatusGet ==
    /\ op.pc = "status" \/ (op.pc = "sync" /\ op.left = <<>>)
    /\ op' = [op EXCEPT !.pc = "record", !.base = cache.app,
                        !.left = Targets(cache.app), !.hist = cache.history]
    /\ fresh' = [fresh EXCEPT ![Operator] = fresh[Cache]]
    /\ UNCHANGED <<app, history, req, cache, running, faults>>

\* The image the history last recorded for an environment, None when it has none.
LastImage(hist, e) ==
    LET recs == {i \in DOMAIN hist : hist[i].env = e}
    IN  IF recs = {} THEN None ELSE hist[Max(recs)].image

\* Mutant: the version follows the stored history, not the one in the making.
NextStoredVersion(hist) == Len(history) + 1

NextVersion(hist) == IF hist = <<>> THEN 1 ELSE hist[Len(hist)].version + 1

\* One turn of the history loop, in memory.
OpRecord ==
    /\ op.pc = "record" /\ op.left # <<>>
    /\ LET target == Head(op.left)
           image  == ResolveImage(op.base, target.image)
       IN  op' = [op EXCEPT
                    !.left = Tail(@),
                    !.hist = IF \/ op.base.image = None
                                \/ LastImage(@, target.name) = image
                             THEN @
                             ELSE Append(@, [version |-> NextVersion(@),
                                             env     |-> target.name,
                                             image   |-> image])]
    /\ UNCHANGED <<app, history, fresh, req, cache, running, faults>>

\* Mutant: the status update overwrites whatever is there.
StatusNeverRefused == FALSE

\* The status update is refused when the resource has moved since updateStatus
\* read it; after the last attempt the reconcile returns the error.
StatusRefused == ~fresh[Operator]

OpCommit ==
    /\ op.pc = "record" /\ op.left = <<>>
    /\ IF StatusRefused
       THEN /\ op' = IF op.tries + 1 < ApiRetries
                     THEN [OpIdle EXCEPT !.pc = "status", !.tries = op.tries + 1]
                     ELSE OpIdle
            /\ UNCHANGED <<history, fresh>>
       ELSE /\ history' = op.hist
            /\ MoveVersion
            /\ op' = OpIdle
    /\ UNCHANGED <<app, req, cache, running, faults>>

\* A reconcile step fails and updateStatusFailed writes the phase and the reason.
OpFail ==
    /\ op.pc = "sync" /\ op.left # <<>> /\ faults < MaxFaults
    /\ faults' = faults + 1
    /\ op' = OpIdle
    /\ MoveVersion
    /\ UNCHANGED <<app, history, req, cache, running>>

\* The operator restarts, or a call fails whose error nothing records.
OpCrash ==
    /\ op.pc # "idle" /\ faults < MaxFaults
    /\ faults' = faults + 1
    /\ op' = OpIdle
    /\ fresh' = [fresh EXCEPT ![Operator] = FALSE]
    /\ UNCHANGED <<app, history, req, cache, running>>

Operate == OpGet \/ OpSync \/ OpStatusGet \/ OpRecord \/ OpCommit

Next ==
    \/ \E r \in Requests : Start(r) \/ Get(r) \/ Put(r) \/ Conflict(r) \/ Abort(r)
    \/ Watch \/ Operate \/ OpFail \/ OpCrash

Spec == Init /\ [][Next]_vars

\* The reconcile queue always holds the app again (it is requeued after an error
\* and every thirty seconds), its watch delivers, and a handler that has started ends.
FairSpec ==
    /\ Spec
    /\ WF_vars(Watch) /\ WF_vars(Operate)
    /\ \A r \in Requests : WF_vars(Get(r) \/ Put(r) \/ Conflict(r) \/ Abort(r))
-----------------------------------------------------------------------------
(* Properties *)

ReqState(pcs, ins, bases) ==
    [pc : pcs, asked : Input, in : ins, base : bases, tries : 0 .. ApiRetries]
OpState(pcs, bases) ==
    [pc : pcs, base : bases, left : Seq(EnvEntry), hist : Seq(Record), tries : 0 .. ApiRetries]

ReqType == {Idle} \cup ReqState({"done", "failed", "rejected"}, {None}, {None})
                  \cup ReqState({"get"}, Input, {None})
                  \cup ReqState({"put"}, Input, AppSpec)
OpType  == OpState({"idle", "status"}, {None}) \cup OpState({"sync", "record"}, AppSpec)

\* Every variable has its type; the spec stays well formed through every edit, and
\* the retries stay within their bound.
TypeOK ==
    /\ app \in AppSpec
    /\ history \in Seq(Record)
    /\ fresh \in [Procs -> BOOLEAN]
    /\ req \in [Requests -> ReqType]
    /\ cache \in [app : AppSpec, history : Seq(Record)]
    /\ op \in OpType
    /\ running \in [Envs -> Resolved \cup {None}]
    /\ faults \in 0 .. MaxFaults

Committed(r) == req[r].pc = "put" /\ req'[r].pc = "done"
Asked(r) == req[r].asked

\* Deployment versions count 1, 2, 3 ... however often the status update loses to
\* another writer and starts again: RollbackApp looks a version up by its number.
HistoryVersions == \A i \in DOMAIN history : history[i].version = i

\* Environments may be listed twice, as a clone appends to the list whatever there is: the
\* last entry is what the operator leaves behind.
LastTargets(spec) ==
    LET targets == Targets(spec)
    IN  {i \in DOMAIN targets : \A j \in DOMAIN targets : j > i => targets[j].name # targets[i].name}

\* When the history grows it records what the stored spec resolves to, for every
\* environment of the app, not what some older read of it did (updateStatus).
HistoryIsCurrent ==
    [][history' # history =>
         \A i \in LastTargets(app) :
             LET target == Targets(app)[i]
             IN  LastImage(history', target.name) = ResolveImage(app, target.image)]_vars

Names(envs) == [i \in DOMAIN envs |-> envs[i].name]

\* An environment without a repository of its own runs the app's.
FallsBack(e) == HasEnv(app, e) /\ EnvImage(app, e).repo = None

\* The committed request r may change what environment e runs.  A deploy or a rollback whose
\* environment is gone by then sets the image of the app; a scheduled deployment sets the tag of
\* the app in any case; a clone and a change of rate limits replace the list by the one they read;
\* a build pins by the index it read; an update lists images of its own (see UpdateKeepsImages).
MayChange(r, e) ==
    LET asked == Asked(r)
        base  == req[r].base
        gone  == ~HasEnv(app, asked.env)
    IN  CASE asked.kind = "update"   -> \/ asked.patch.envs # None
                                        \/ (asked.patch.image # None /\ FallsBack(e))
          [] asked.kind = "clone"    -> asked.new = e \/ base.envs # app.envs
          [] asked.kind = "limits"   -> base.envs # app.envs
          [] asked.kind = "schedule" -> \/ asked.env = e
                                        \/ /\ FallsBack(e)
                                           /\ \/ EnvImage(app, e).tag = None
                                              \/ app.image = None
                                              \/ gone
          [] asked.kind = "pin"      -> asked.env = e \/ Names(base.envs) # Names(app.envs)
          [] OTHER                   -> asked.env = e \/ (gone /\ FallsBack(e))

\* The repository of a scheduled deployment: its own, the app's, or what the environment has.
ScheduledRepo(spec, repository, own) ==
    CASE repository # None -> repository
      [] repository = None /\ GlobalImage(spec).repo # None -> GlobalImage(spec).repo
      [] OTHER -> own

\* What e is to run once request r, which is for e, has committed: only a scheduled deployment
\* chooses the repository as well.
Wanted(r, e) ==
    LET asked == Asked(r)
        own   == Runs(app, e)[1]
    IN  CASE asked.kind = "schedule" ->
               <<ScheduledRepo(app, asked.repo, own), IF asked.tag = None THEN Latest ELSE asked.tag>>
          [] asked.kind = "rollback" -> <<own, req[r].in.tag>>
          [] OTHER                   -> <<own, asked.tag>>

\* A build's pin comes with the image of the entry it read.
Stands(r, e) ==
    Asked(r).kind = "pin" => /\ Names(req[r].base.envs) = Names(app.envs)
                             /\ EnvImage(req[r].base, e).repo = EnvImage(app, e).repo

\* No write is lost or undone by another: the image an environment runs only changes
\* with a request for that environment, to the tag it asked for, and the rest of the
\* configuration only with an update that sets it (DeployApp, RollbackApp, UpdateApp,
\* onBuildSuccess, under the API server's version check).
ImageSurvives(e) ==
    Runs(app', e) # Runs(app, e) =>
        \E r \in Requests :
            /\ Committed(r)
            /\ MayChange(r, e)
            /\ Asked(r).kind \notin {"update", "clone", "limits"} /\ Asked(r).env = e /\ Stands(r, e)
                  => Runs(app', e) = Wanted(r, e)

CfgSurvives ==
    app'.cfg # app.cfg =>
        \E r \in Requests : Committed(r) /\ Asked(r).patch # None /\ Asked(r).patch.cfg = app'.cfg

WritesSurvive == [][app' # app => (\A e \in Envs : ImageSurvives(e)) /\ CfgSurvives]_vars

\* A handler that sends back the object it read edits the spec of the moment, however
\* many reads and retries went before: deploys, rollbacks, updates and scheduled
\* deployments take effect one after the other (UpdateResource's conflict check).
WritesAreAtomic ==
    [][\A r \in Requests :
         Committed(r) /\ SendsVersion(req[r].in.kind) => app' = Edit(req[r].in, app, app)]_vars

\* A deploy that still finds its environment changes no other one's image ("Only the
\* target environment's tag changes", DeployApp).
DeployKeepsOthers ==
    [][\A r \in Requests :
         /\ Committed(r) /\ req[r].in.kind = "deploy"
         /\ HasEnv(app, req[r].in.env)
         => \A e \in Envs \ {req[r].in.env} : Runs(app', e) = Runs(app, e)]_vars

\* Of an environment that is listed twice, restoreEnvImages knows one image only.
ListedOnce(spec, e) == \A i, j \in Entries(spec, e) : i = j

ImagesKept(r) ==
    Committed(r) /\ Asked(r).kind = "update" /\ Asked(r).patch.image = None =>
        \A e \in Envs :
            (/\ HasEnv(app, e) /\ HasEnv(app', e) /\ ListedOnce(app, e)
             /\ \A i \in DOMAIN app'.envs :
                  Asked(r).patch.envs # None /\ app'.envs[i].name = e =>
                      Asked(r).patch.envs[i].image = None)
            => Runs(app', e) = Runs(app, e)

\* A config update that leaves the images out changes no environment's image, in
\* whatever order it lists the environments, unless it had to repeat its attempt
\* (restoreEnvImages, and the app-level tag kept).
UpdateKeepsImages == [][\A r \in Requests : req[r].tries = 0 => ImagesKept(r)]_vars

\* A repeated one keeps them as well ("a config update that omits it must not roll the
\* environment back to spec.image", UpdateApp).
RetryKeepsImages == [][\A r \in Requests : ImagesKept(r)]_vars

\* Once the requests have ended, every environment of the app ends up running the
\* image its spec resolves to, recorded as its last deployment.
Converged ==
    \A i \in LastTargets(app) :
        LET target == Targets(app)[i]
            image  == ResolveImage(app, target.image)
        IN  running[target.name] = image /\ LastImage(history, target.name) = image

Converges == <>[]Converged
=============================================================================
