---------------------------- MODULE AppReconciler ----------------------------
(***************************************************************************)
(* The operator's work on one VestaApp (controllers/vestaapp_controller.go) *)
(* against its users, the autoscaler, the pods and the clock: a reconcile   *)
(* is a call per object, environment by environment, and may fail, meet a   *)
(* stale cache or be cut short between any two.                             *)
(*                                                                          *)
(* Two of the operator's caches matter: that of the app, which decides      *)
(* what it works on, and that of the Deployments, from which it takes the   *)
(* autoscaler's replicas and the phase of the app.                          *)
(***************************************************************************)
EXTENDS AppObjects

CONSTANTS Specs,      \* specs a user may save
          MaxEvents   \* bound on what users, pods and autoscaler do, lost calls and restarts

ASSUME ReconcilerAssumption ==
    /\ Specs \subseteq AppSpec
    /\ \A s \in Specs : \A c, d \in s.envs : c.name = d.name => c = d
    /\ MaxEvents \in Nat

VARIABLES app,     \* the resource, None if there is none
          cache,   \* the operator's copy of it
          current, \* the copies of the app, cache and op, that are its latest version
          op,      \* the operator: what it does, on which copy, and how far it is
          objs,    \* the objects of the app in each environment
          seen,    \* the operator's copy of each Deployment
          pods,    \* how the pods of each Deployment are doing
          data,    \* how often the app's secrets in an environment were written
          strays,  \* history: environments taken out of the spec of an app
          blind,   \* history: environments where a cleanup has not seen the cron jobs
          events   \* how many of the bounded events there were

vars == <<app, cache, current, op, objs, seen, pods, data, strays, blind,
          events>>

-----------------------------------------------------------------------------
Phases == {"", "Pending", "Deploying", "Running", "Degraded", "Failed", "Sleeping",
           "CrashLoopBackOff"}
PodStates == {"starting", "available", "crash", "pull"}
App == [spec : {[s EXCEPT !.sleep = b] : s \in Specs, b \in BOOLEAN},
        phase : Phases, fin : BOOLEAN, deleting : BOOLEAN]

ASSUME NoneIsNoApp == None \notin App

\* The order of the calls of a reconcile and of a cleanup in one environment.
SyncOrder  == <<"account", "claims", "deployment", "service", "ingress", "https",
                "middleware", "redirect", "scaler", "crons">>
CleanOrder == <<"account", "deployment", "service", "ingress", "scaler", "crons">>
Cleaned    == {CleanOrder[i] : i \in DOMAIN CleanOrder}

Idle == [pc |-> "idle", base |-> None, left |-> {}, env |-> None, step |-> 1]

Init ==
    /\ app = None /\ cache = None /\ current = {"cache"}
    /\ op = Idle
    /\ objs = [e \in Envs |-> Nothing]
    /\ seen = [e \in Envs |-> None]
    /\ pods = [e \in Envs |-> "starting"]
    /\ data = [e \in Envs |-> 0]
    /\ strays = {} /\ blind = {}
    /\ events = 0

Event == events < MaxEvents /\ events' = events + 1

\* A write to the resource: every copy of it is out of date.
Write(new) == app' = new /\ current' = {}

-----------------------------------------------------------------------------
(* Users *)

UserOnly == UNCHANGED <<cache, op, objs, seen, pods, data, blind>>

\* CreateApp and CloneApp.  Not counted: every creation but the first needs a deletion.
Create(s) ==
    /\ app = None /\ UNCHANGED events
    /\ Write([spec |-> s, phase |-> "", fin |-> FALSE, deleting |-> FALSE])
    /\ UNCHANGED strays /\ UserOnly

\* UpdateApp and whatever else saves the spec.  Environments may go.
EditSpec(s) ==
    /\ app # None /\ app.spec # s /\ Event
    /\ Write([app EXCEPT !.spec = s])
    /\ strays' = strays \cup (TargetEnvs(app.spec) \ TargetEnvs(s))
    /\ UserOnly

\* DeleteApp: the finalizer keeps the resource until the operator has cleaned up.
Delete ==
    /\ app # None /\ ~app.deleting /\ Event
    /\ Write(IF app.fin THEN [app EXCEPT !.deleting = TRUE] ELSE None)
    /\ UNCHANGED strays /\ UserOnly

\* SleepApp and WakeApp.  The phase they send goes with the patch of the resource, and
\* the status is a subresource: it is dropped.
SetSleep(on) ==
    /\ app # None /\ app.spec.sleep # on /\ Event
    /\ Write([app EXCEPT !.spec.sleep = on])
    /\ UNCHANGED strays /\ UserOnly

\* A secret or a variable of the app is written in an environment.
WriteSecret(e) ==
    /\ Event
    /\ data' = [data EXCEPT ![e] = @ + 1]
    /\ UNCHANGED <<app, cache, current, op, objs, seen, pods, strays, blind>>

-----------------------------------------------------------------------------
(* The cluster *)

Running(e) == objs[e].deployment # None /\ objs[e].deployment.replicas > 0

\* The pods of a Deployment come up or break.
PodsTurn(e, state) ==
    /\ Running(e) /\ pods[e] # state /\ Event
    /\ pods' = [pods EXCEPT ![e] = state]
    /\ UNCHANGED <<app, cache, current, op, objs, seen, data, strays, blind>>

\* The autoscaler leaves a Deployment of no replicas alone.
Autoscale(e) ==
    /\ Running(e) /\ objs[e].scaler # None /\ Event
    /\ \E n \in objs[e].scaler.min .. objs[e].scaler.max :
          /\ n # objs[e].deployment.replicas
          /\ objs' = [objs EXCEPT ![e].deployment.replicas = n]
    /\ UNCHANGED <<app, cache, current, op, seen, pods, data, strays, blind>>

\* The operator's caches catch up.
Watch ==
    /\ "cache" \notin current
    /\ cache' = app /\ current' = current \cup {"cache"}
    /\ UNCHANGED <<app, op, objs, seen, pods, data, strays, blind, events>>

WatchDeployment(e) ==
    /\ seen[e] # objs[e].deployment
    /\ seen' = [seen EXCEPT ![e] = objs[e].deployment]
    /\ UNCHANGED <<app, cache, current, op, objs, pods, data, strays, blind,
                   events>>

-----------------------------------------------------------------------------
(* A reconcile starts: after a change, an error or thirty seconds *)

OperatorOnly == UNCHANGED <<pods, data, strays>>

\* The copy in the cache becomes the operator's.
TakeCopy == current' = IF "cache" \in current THEN current \cup {"op"} ELSE current \ {"op"}

Start(pc, base) ==
    op' = [pc |-> pc, base |-> base, left |-> TargetEnvs(base.spec), env |-> None, step |-> 1]

\* Reconcile decides what the resource needs: cleanup, the finalizer or its objects.
OpGet ==
    /\ op.pc = "idle" /\ cache # None
    /\ \/ cache.deleting /\ cache.fin
          /\ Start(IF TargetEnvs(cache.spec) = {} THEN "unmark" ELSE "cleanup", cache)
       \/ ~cache.deleting /\ ~cache.fin /\ Start("mark", cache)
       \/ ~cache.deleting /\ cache.fin /\ TargetEnvs(cache.spec) # {} /\ Start("sync", cache)
    /\ TakeCopy
    /\ UNCHANGED <<app, cache, objs, seen, blind, events>> /\ OperatorOnly

\* Mutant: the reconcile goes on, also after a refusal.
MarkAndGo ==
    /\ op.pc = "mark" /\ TargetEnvs(op.base.spec) # {}
    /\ op' = [op EXCEPT !.pc = "sync"]
    /\ IF "op" \in current THEN Write([op.base EXCEPT !.fin = TRUE])
                           ELSE UNCHANGED <<app, current>>
    /\ UNCHANGED <<cache, objs, seen, blind, events>> /\ OperatorOnly

\* The finalizer is written on the version that was read, and the reconcile ends: the
\* write brings the next one.
Mark ==
    /\ op.pc = "mark" /\ op' = Idle
    /\ IF "op" \in current THEN Write([op.base EXCEPT !.fin = TRUE])
                           ELSE UNCHANGED <<app, current>>
    /\ UNCHANGED <<cache, objs, seen, blind, events>> /\ OperatorOnly

-----------------------------------------------------------------------------
(* The objects of one environment after the other *)

Target(e) == CHOOSE t \in Targets(op.base.spec) : t.name = e

\* The environment the operator works on, or the next in the order of the spec's list:
\* some fixed one here.
At(pc, e) ==
    /\ op.pc = pc /\ e \in op.left
    /\ e = IF op.env # None THEN op.env ELSE CHOOSE f \in op.left : TRUE

Advance(e, order, next) ==
    op' = IF op.step < Len(order)
          THEN [op EXCEPT !.env = e, !.step = op.step + 1]
          ELSE [op EXCEPT !.env = None, !.step = 1, !.left = op.left \ {e},
                          !.pc = IF op.left = {e} THEN next ELSE op.pc]

SyncKind == SyncOrder[op.step]
Wanted(e) == Want(SyncKind, op.base.spec, Target(e), op.base.phase, data[e], objs[e])

\* The object is created, changed or deleted as wanted.
Sync(e) ==
    /\ At("sync", e) /\ SyncKind # "deployment"
    /\ objs' = [objs EXCEPT ![e][SyncKind] = Wanted(e)]
    /\ Advance(e, SyncOrder, "status")
    /\ UNCHANGED <<app, cache, current, seen, blind, events>> /\ OperatorOnly

\* The calls whose errors are logged and forgotten: the middlewares, and the deletion of
\* ingresses nobody asks for any more.
Shrugged(e) ==
    \/ SyncKind \in {"https", "middleware"}
    \/ SyncKind = "ingress" /\ ~IngressWanted(op.base.spec, Target(e))
    \/ SyncKind = "redirect" /\ RedirectHosts(op.base.spec, Target(e)) = {}

SyncShrug(e) ==
    /\ At("sync", e) /\ Shrugged(e) /\ Event
    /\ Advance(e, SyncOrder, "status")
    /\ UNCHANGED <<app, cache, current, objs, seen, blind>> /\ OperatorOnly

\* What a failed call may leave: nothing done, all of it, or some of several objects.
Leftovers(e) ==
    LET old  == objs[e][SyncKind]
        spec == op.base.spec
    IN  {old, Wanted(e)} \cup
        IF SyncKind = "claims" THEN {old \cup some : some \in SUBSET spec.claims}
        ELSE IF SyncKind = "crons"
        THEN {MergeCrons(spec, Target(e), done, old) : done \in SUBSET spec.crons}
        ELSE {}

Fail == op' = [op EXCEPT !.pc = "fail", !.env = None, !.step = 1, !.left = {}]

\* Any other error ends the reconcile.
SyncFail(e) ==
    /\ At("sync", e) /\ SyncKind # "deployment" /\ ~Shrugged(e) /\ Event
    /\ \E left \in Leftovers(e) : objs' = [objs EXCEPT ![e][SyncKind] = left]
    /\ Fail
    /\ UNCHANGED <<app, cache, current, seen, blind>> /\ OperatorOnly

\* reconcileDeployment edits the copy in the cache.
Edited(e) == WantDeployment(op.base.spec, Target(e), op.base.phase, data[e], seen[e])

\* If that changes nothing, nothing is written, current or not.
DeployNothing(e) ==
    /\ At("sync", e) /\ SyncKind = "deployment" /\ Edited(e) = seen[e]
    /\ Advance(e, SyncOrder, "status")
    /\ UNCHANGED <<app, cache, current, objs, seen, blind, events>> /\ OperatorOnly

\* Mutant: the copy may be out of date.
SelectorOnly(e) ==
    Edited(e) # seen[e] /\ SelectorRefused(op.base.spec, objs[e].deployment)

\* The write is refused when the copy is out of date or the selector would change.
DeployRefused(e) ==
    Edited(e) # seen[e]
    /\ (seen[e] # objs[e].deployment \/ SelectorRefused(op.base.spec, objs[e].deployment))

Deploy(e) ==
    /\ At("sync", e) /\ SyncKind = "deployment"
    /\ Edited(e) # seen[e] /\ ~DeployRefused(e)
    /\ objs' = [objs EXCEPT ![e].deployment = Edited(e)]
    /\ Advance(e, SyncOrder, "status")
    /\ UNCHANGED <<app, cache, current, seen, blind, events>> /\ OperatorOnly

\* A conflict is retried five times within milliseconds: here until the cache is up to
\* date (Deploy) or in vain.  A lost call may have had its effect.
DeployFail(e) ==
    /\ At("sync", e) /\ SyncKind = "deployment"
    /\ \/ DeployRefused(e) /\ UNCHANGED <<objs, events>>
       \/ Event /\ Edited(e) # seen[e] /\ ~DeployRefused(e)
          /\ objs' \in {objs, [objs EXCEPT ![e].deployment = Edited(e)]}
    /\ Fail
    /\ UNCHANGED <<app, cache, current, seen, blind>> /\ OperatorOnly

-----------------------------------------------------------------------------
(* The status *)

\* updateStatusFailed, its own errors ignored.
FailStatus ==
    /\ op.pc = "fail" /\ op' = Idle
    /\ \/ "cache" \in current /\ cache # None
          /\ Write([cache EXCEPT !.phase = "Failed"]) /\ UNCHANGED events
       \/ ("cache" \notin current \/ cache = None) /\ UNCHANGED <<app, current, events>>
       \/ Event /\ UNCHANGED <<app, current>>
    /\ UNCHANGED <<cache, objs, seen, blind>> /\ OperatorOnly

\* The phase of updateStatus: from the Deployments the cache has, summed over the
\* environments, and their pods.
Replicated(spec)  == {e \in TargetEnvs(spec) : seen[e] # None}
ReplicasIn(es)    == MapThenSumSet(LAMBDA e : seen[e].replicas, es)
Desired(spec)     == ReplicasIn(Replicated(spec))
Ready(spec)       == {e \in Replicated(spec) : pods[e] = "available"}

\* Mutant: what should run is taken for available.
Promised(spec) == ReplicasIn({e \in TargetEnvs(spec) : seen[e] # None})

AvailableOf(spec) == ReplicasIn(Ready(spec))
Suffers(spec, state) == \E e \in Replicated(spec) : seen[e].replicas > 0 /\ pods[e] = state

PhaseOf(spec) ==
    CASE spec.sleep /\ Desired(spec) = 0          -> "Sleeping"
      [] Suffers(spec, "pull")                    -> "Failed"
      [] Suffers(spec, "crash")                   -> "CrashLoopBackOff"
      [] Desired(spec) = 0                        -> "Pending"
      [] AvailableOf(spec) = 0                    -> "Deploying"
      [] AvailableOf(spec) < Desired(spec)        -> "Degraded"
      [] OTHER                                    -> "Running"

\* updateStatus reads the resource anew.
StatusGet ==
    /\ op.pc = "status"
    /\ IF cache = None
       THEN op' = Idle /\ UNCHANGED current
       ELSE /\ op' = [op EXCEPT !.pc = "put",
                                !.base = [cache EXCEPT !.phase = PhaseOf(cache.spec)]]
            /\ TakeCopy
    /\ UNCHANGED <<app, cache, objs, seen, blind, events>> /\ OperatorOnly

\* A conflict is retried from the read, or five times in vain.
StatusPut ==
    /\ op.pc = "put"
    /\ IF "op" \in current
       THEN Write(op.base) /\ op' = Idle
       ELSE /\ op' \in {Idle, [op EXCEPT !.pc = "status", !.base = None]}
            /\ UNCHANGED <<app, current>>
    /\ UNCHANGED <<cache, objs, seen, blind, events>> /\ OperatorOnly

-----------------------------------------------------------------------------
(* cleanupApp *)

CleanKind == CleanOrder[op.step]

Clean(e) ==
    /\ At("cleanup", e)
    /\ objs' = [objs EXCEPT ![e][CleanKind] = Nothing[CleanKind]]
    /\ Advance(e, CleanOrder, "unmark")
    /\ UNCHANGED <<app, cache, current, seen, blind, events>> /\ OperatorOnly

\* A listing of the cron jobs that fails is taken for an empty one, and one from the cache
\* may miss jobs of a moment ago.
CleanBlind(e) ==
    /\ At("cleanup", e) /\ CleanKind = "crons" /\ Event
    /\ blind' = blind \cup {e}
    /\ Advance(e, CleanOrder, "unmark")
    /\ UNCHANGED <<app, cache, current, objs, seen>> /\ OperatorOnly

\* A failed deletion ends the cleanup, some of several cron jobs deleted.
CleanFail(e) ==
    /\ At("cleanup", e) /\ Event
    /\ \E left \in {objs[e][CleanKind], Nothing[CleanKind]} \cup
                   IF CleanKind = "crons" THEN SUBSET objs[e].crons ELSE {} :
          objs' = [objs EXCEPT ![e][CleanKind] = left]
    /\ op' = Idle
    /\ UNCHANGED <<app, cache, current, seen, blind>> /\ OperatorOnly

\* The finalizer is taken off the version that was read, and the resource is gone.
Unmark ==
    /\ op.pc = "unmark" /\ op' = Idle
    /\ IF "op" \in current THEN Write(None) ELSE UNCHANGED <<app, current>>
    /\ UNCHANGED <<cache, objs, seen, blind, events>> /\ OperatorOnly

-----------------------------------------------------------------------------
(* Lost calls and restarts *)

\* A write of the resource is lost, which ends the reconcile.
Lost ==
    /\ op.pc \in {"mark", "unmark", "put"} /\ Event /\ op' = Idle
    /\ UNCHANGED <<app, cache, current, objs, seen, blind>> /\ OperatorOnly

\* The operator restarts and fills its caches anew.
Crash ==
    /\ Event
    /\ op' = Idle /\ cache' = app /\ current' = {"cache"}
    /\ seen' = [e \in Envs |-> objs[e].deployment]
    /\ UNCHANGED <<app, objs, blind>> /\ OperatorOnly

-----------------------------------------------------------------------------
User ==
    \/ \E s \in Specs : Create(s) \/ EditSpec(s)
    \/ Delete
    \/ \E on \in BOOLEAN : SetSleep(on)
    \/ \E e \in Envs : WriteSecret(e)

Cluster == \E e \in Envs : Autoscale(e) \/ \E state \in PodStates : PodsTurn(e, state)

Operate ==
    \/ \E e \in Envs : Sync(e) \/ DeployNothing(e) \/ Deploy(e) \/ DeployFail(e) \/ Clean(e)
    \/ OpGet \/ Mark \/ StatusGet \/ StatusPut \/ Unmark \/ FailStatus

Trouble ==
    \/ Lost \/ Crash
    \/ \E e \in Envs : SyncShrug(e) \/ SyncFail(e) \/ CleanBlind(e) \/ CleanFail(e)

Next == User \/ Cluster \/ Operate \/ Trouble \/ Watch \/ \E e \in Envs : WatchDeployment(e)

\* The caches are filled, and the operator works: it starts anew after every change,
\* every error and every thirty seconds.
Spec == /\ Init /\ [][Next]_vars
        /\ WF_vars(Operate) /\ WF_vars(Watch)
        /\ \A e \in Envs : WF_vars(WatchDeployment(e))
-----------------------------------------------------------------------------
(* Properties *)

\* The state is what the code can hold.
TypeOK ==
    /\ app \in App \cup {None} /\ cache \in App \cup {None}
    /\ current \subseteq {"cache", "op"}
    /\ op \in [pc : {"idle", "mark", "sync", "fail", "status", "put", "cleanup", "unmark"},
               base : App \cup {None}, left : SUBSET Envs, env : Envs \cup {None},
               step : DOMAIN SyncOrder]
    /\ objs \in [Envs -> Objects]
    /\ seen \in [Envs -> Deployment \cup {None}]
    /\ pods \in [Envs -> PodStates]
    /\ data \in [Envs -> 0 .. MaxEvents]
    /\ strays \subseteq Envs /\ blind \subseteq Envs
    /\ events \in 0 .. MaxEvents

\* What cleanupApp deletes never outlives the app: wherever one of these objects is, there
\* is an app that holds the finalizer and names the environment - unless an edit took the
\* environment out of the spec or the cleanup did not see the cron jobs.
Owned ==
    \A e \in Envs \ strays, kind \in Cleaned :
        /\ objs[e][kind] # Nothing[kind]
        /\ ~(kind = "crons" /\ e \in blind)
        => app # None /\ app.fin /\ e \in TargetEnvs(app.spec)

\* An issuer writes into the secret of the ingress it is named on: never into a
\* certificate that a user has supplied, whichever of the app and the environment names
\* the secret and the issuer, and whatever is left of an older spec.
CertsKept ==
    \A e \in Envs : \A i \in {objs[e].ingress, objs[e].redirect} \ {None} :
        i.issuer # None => i.secret = OwnCert

\* "When autoscaling is enabled, don't override replicas": a pass of the operator changes
\* the replicas of a Deployment only where the spec it works on has no autoscaler, or
\* to put the app to sleep, however old its copy of the Deployment is.
LeavesScaling ==
    [][\A e \in Envs :
          LET was == objs[e].deployment
              is  == objs'[e].deployment
          IN  op' # op /\ was # None /\ is # None /\ is.replicas # was.replicas
              => Target(e).scale = None \/ is.replicas = 0]_vars

\* The selector of a Deployment is fixed, and so every pass over it fails once the labels
\* of the app change.
Wedged == \E e \in TargetEnvs(app.spec) : SelectorRefused(app.spec, objs[e].deployment)

Named(things) == {x.name : x \in things}

\* Environment t of the app runs as the spec says.  An autoscaler, also one that the spec
\* has dropped, has its own say on the replicas, and so has the phase of an app that may
\* sleep.
Delivered(t) ==
    LET spec  == app.spec
        o     == objs[t.name]
        ports == IF t.ports # <<>> THEN t.ports ELSE spec.ports
    IN  /\ o.account /\ spec.claims \subseteq o.claims
        /\ o.deployment # None
        /\ o.deployment.data = data[t.name]
        /\ ~spec.sleep /\ o.scaler = None
           => o.deployment.replicas = FirstOf(<<t.replicas, 1>>)
        /\ t.scale # None => o.scaler # None
        /\ \A i \in DOMAIN ports : PortKey(ports[i]) \in {PortKey(p) : p \in o.service}
        /\ IngressWanted(spec, t) /\ IngressHosts(spec, t) # {}
           => o.ingress # None /\ o.ingress.hosts = IngressHosts(spec, t)
        /\ ~IngressWanted(spec, t) => o.ingress = None
        /\ RedirectHosts(spec, t) = {} => o.redirect = None
        /\ Named(o.crons) = Named(spec.crons)
        /\ \A c \in spec.crons, j \in o.crons :
              c.name = j.name => (j.suspend <=> ~CronEnabled(c, t.name))

\* Once users, pods and calls leave it alone, the operator brings every environment of the
\* app to its spec, whatever was cut short, refused or read from an old copy, and a
\* deleted app goes away.
Settles ==
    <>[](app # None => /\ ~app.deleting
                       /\ ~Wedged => \A t \in Targets(app.spec) : Delivered(t))

\* And the phase ends up telling the truth, for an app that may not sleep: Failed when the
\* passes fail, and Running just when there are pods and all of them are available.
PhaseSettles ==
    <>[](app # None /\ ~app.deleting /\ ~app.spec.sleep /\ TargetEnvs(app.spec) # {}
         => LET running == {e \in TargetEnvs(app.spec) : Running(e)}
            IN  IF Wedged THEN app.phase = "Failed"
                ELSE app.phase = "Running"
                     <=> running # {} /\ \A e \in running : pods[e] = "available")
==============================================================================
