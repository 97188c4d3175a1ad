------------------------------ MODULE Secrets ------------------------------
(***************************************************************************)
(* The configuration of one application, from a user's request to the      *)
(* running pods.  Handlers of the API read and write VestaSecrets (the     *)
(* secret of the application, one shared by a project, and a registry      *)
(* credential) and a ConfigMap of plain variables, one of each per         *)
(* environment.  The operator makes a Kubernetes Secret of every           *)
(* VestaSecret, copies the registry credential, and puts into the pod      *)
(* template the versions of what the pods load, so that they roll when one *)
(* of these changes.                                                       *)
(*                                                                         *)
(* A request takes one step for each call to the API server, and several   *)
(* run at the same time.  The resource version that a write is checked     *)
(* against is modelled by the reader: fresh names the objects that nobody  *)
(* has written since.                                                      *)
(***************************************************************************)
EXTENDS Naturals, Sequences, FiniteSets

CONSTANTS Requests, \* requests, each made once
          EnvOrder, \* the environments, in the order of their namespaces
          System,   \* the namespace of the control plane
          Keys, BadKeys, Values,
          Starts,   \* what is stored and bound at first, and what the requests ask for
          Faults,   \* the API server may refuse a write
          None

Envs     == {EnvOrder[i] : i \in DOMAIN EnvOrder}
Registry == <<System, "registry">>
App      == <<System, "app">>
Kinds    == {"own", "shared", "vars"}
Objects  == (Envs \X Kinds) \cup {Registry}
Custom   == (Envs \X {"own", "shared"}) \cup {Registry}  \* the VestaSecrets
Data     == UNION {[S -> Values] : S \in SUBSET Keys}

\* A VestaSecret in the operator's hands: as it was read, and for which object of the name.
Work == [object : Custom, data : Data, uid : Nat, fresh : BOOLEAN, at : {"write", "status"}]

ASSUME SecretsAssumption ==
    /\ EnvOrder \in Seq(Envs) /\ \A i, j \in DOMAIN EnvOrder : EnvOrder[i] = EnvOrder[j] => i = j
    /\ BadKeys \subseteq Keys
    /\ System \notin Envs
    /\ None \notin Data \cup Envs \cup Work
    /\ Faults \in BOOLEAN

VARIABLES store,    \* data of each VestaSecret and ConfigMap, None when there is none
          status,   \* what the operator has reported of each VestaSecret
          born,     \* how many objects of each name there have been: the uid of the last
          bound,    \* environments the application has the shared secret bound to
          req,      \* the requests
          secret,   \* the Kubernetes Secrets
          queue,    \* VestaSecrets the operator has yet to look at
          work,     \* the VestaSecret it is looking at
          template, \* the pod template of each Deployment
          pull,     \* the copy of the registry credential in each environment
          pods      \* the running pods: whether they are of the template, what they loaded

api      == <<store, status, born, bound>>
operator == <<secret, queue, work, template, pull, pods>>
vars     == <<api, req, operator>>

-----------------------------------------------------------------------------
(* Data *)

Empty         == [k \in {} |-> None]
OrEmpty(d)    == IF d = None THEN Empty ELSE d
Merge(d, new) == [k \in DOMAIN d \cup DOMAIN new |-> IF k \in DOMAIN new THEN new[k] ELSE d[k]]
Without(d, S) == [k \in DOMAIN d \ S |-> d[k]]

\* validateSecretKey and validSecretKey, which agree.
ValidKeys(d) == Without(d, BadKeys)

\* Mutant: what happens to the object in hand is taken for seen.
NotInHand(o) ==
    queue' = IF o \notin Custom \/ \E i \in DOMAIN queue : queue[i] = o THEN queue
             ELSE IF work # None THEN IF work.object = o THEN queue ELSE Append(queue, o)
             ELSE Append(queue, o)

\* An object changes, or a new one is made: the operator, which watches them, hears of it.
Enqueue(o) ==
    queue' = IF o \notin Custom \/ \E i \in DOMAIN queue : queue[i] = o THEN queue
             ELSE Append(queue, o)

\* The VestaSecret the operator has read is out of date if it is o.
Outdate(o) ==
    work' = IF work = None THEN None ELSE [work EXCEPT !.fresh = @ /\ work.object # o]

\* A Secret or ConfigMap has another version than the one in the rollout hash.
NewVersion(o) ==
    template' = [e \in Envs |->
                   IF o[1] # e THEN template[e]
                   ELSE [template[e] EXCEPT !.marks[o[2]] = IF @ = None THEN None ELSE "old"]]

-----------------------------------------------------------------------------
(* Requests *)

Asks(in) == [input |-> in, at |-> "idle", todo |-> <<>>, held |-> Empty, fresh |-> {}]

Op(r)     == req[r].input.op
Object(r) == Head(req[r].todo)
At(r, place) == req[r].at = place

Ended == [Asks(None) EXCEPT !.at = "done"]

Becomes(r, x) == req' = [req EXCEPT ![r] = x]

\* r goes on as x, having written o.
Writes(r, x, o) ==
    /\ req' = [q \in Requests |-> [(IF q = r THEN x ELSE req[q]) EXCEPT !.fresh = @ \ {o}]]
    /\ Outdate(o)

InOrder(envs, kind) == [i \in DOMAIN envs |-> <<envs[i], kind>>]

\* Those of the objects that are stored, in their order: the k-th is the one up to which
\* there are k of them.
Listed(objects) ==
    LET there == {i \in DOMAIN objects : store[objects[i]] # None} IN
    [k \in 1..Cardinality(there) |->
       objects[CHOOSE i \in there : Cardinality({j \in there : j <= i}) = k]]

\* What a handler does: the calls it makes one after the other, whether it refuses keys of
\* the wrong form, whether it creates what is not there, and whether what it writes keeps
\* the keys it is not about.  What follows "list" is done for each that is found, or named;
\* "find" takes the first that is found.
CreateAppEnvSecret    == [calls |-> <<"get", "put", "restart">>, checks |-> TRUE, creates |-> TRUE, keeps |-> TRUE]
DeleteAppEnvSecretKey == [calls |-> <<"get", "put", "restart">>, checks |-> FALSE, creates |-> FALSE, keeps |-> TRUE]
UpdateSecret          == [calls |-> <<"find", "get", "put", "restart">>, checks |-> TRUE, creates |-> FALSE, keeps |-> FALSE]
DeleteSecret          == [calls |-> <<"find", "remove">>, checks |-> FALSE]
CreateSharedSecret    == [calls |-> <<"get", "put">>, checks |-> TRUE, creates |-> TRUE, keeps |-> FALSE]
UpdateSharedSecret    == [calls |-> <<"list", "put">>, checks |-> TRUE, keeps |-> TRUE]
DeleteSharedSecret    == [calls |-> <<"list", "remove">>, checks |-> FALSE]
CreateRegistrySecret  == [calls |-> <<"put">>, checks |-> FALSE, keeps |-> FALSE]
DeleteRegistrySecret  == [calls |-> <<"remove">>, checks |-> FALSE]
CreateAppEnvVars      == [calls |-> <<"get", "put", "restart">>, checks |-> FALSE, creates |-> TRUE, keeps |-> TRUE]
DeleteAppEnvVarKey    == [calls |-> <<"get", "put", "restart">>, checks |-> FALSE, creates |-> FALSE, keeps |-> TRUE]
BindSharedSecret      == [calls |-> <<"app", "bind">>, checks |-> FALSE]
UnbindSharedSecret    == [calls |-> <<"app", "bind">>, checks |-> FALSE]

Handler ==
    [createSecret    |-> CreateAppEnvSecret,
     deleteSecretKey |-> DeleteAppEnvSecretKey,
     updateSecret    |-> UpdateSecret,
     deleteSecret    |-> DeleteSecret,
     createShared    |-> CreateSharedSecret,
     updateShared    |-> UpdateSharedSecret,
     deleteShared    |-> DeleteSharedSecret,
     createRegistry  |-> CreateRegistrySecret,
     deleteRegistry  |-> DeleteRegistrySecret,
     createVars      |-> CreateAppEnvVars,
     deleteVarsKey   |-> DeleteAppEnvVarKey,
     bind            |-> BindSharedSecret,
     unbind          |-> UnbindSharedSecret]

\* What a handler is about.
KindOf(op) ==
    CASE op \in {"createSecret", "deleteSecretKey", "updateSecret", "deleteSecret"} -> "own"
      [] op \in {"createShared", "updateShared", "deleteShared"} -> "shared"
      [] op \in {"createVars", "deleteVarsKey"} -> "vars"
      [] op \in {"createRegistry", "deleteRegistry"} -> "registry"

\* A request is to one of the handlers; one that does not find its objects names them.
IsAsked(in) ==
    /\ in.op \in DOMAIN Handler
    /\ in.op = "bind" => in.env \in Envs
    /\ in.op = "unbind" => in.env \in Envs \cup {None}
    /\ in.op \notin {"bind", "unbind"} =>
          in.kind = KindOf(in.op) /\ in.data \in Data /\ in.keys \subseteq Keys
    /\ in.op \in {"createSecret", "deleteSecretKey", "createShared", "createVars", "deleteVarsKey"} =>
          in.envs \in Seq(Envs) /\ in.envs # <<>>

Possible(start) ==
    /\ \A o \in Objects : start.store[o] \in Data \cup {None}
    /\ start.bound \subseteq Envs
    /\ \A r \in Requests : IsAsked(start.asked[r])

ASSUME StartsAssumption == \A start \in Starts : Possible(start)

Does(r)  == Handler[Op(r)]
Calls(r) == {Does(r).calls[i] : i \in DOMAIN Does(r).calls}

\* What is done for each object.
Each(r) == IF Head(Does(r).calls) \in {"find", "list"} THEN Does(r).calls[2] ELSE Head(Does(r).calls)

\* The objects a handler knows by name, before it has listed any.
Named(r) ==
    IF Head(Does(r).calls) \in {"find", "list", "app"} THEN <<>>
    ELSE IF req[r].input.kind = "registry" THEN <<Registry>>
    ELSE InOrder(req[r].input.envs, req[r].input.kind)

\* A key that Kubernetes would not store is refused before anything else.
Begin(r) ==
    /\ At(r, "idle")
    /\ Becomes(r, IF IF Does(r).checks THEN DOMAIN req[r].input.data \cap BadKeys # {} ELSE FALSE
                  THEN Ended
                  ELSE [req[r] EXCEPT !.at = Head(Does(r).calls), !.todo = Named(r),
                                      !.held = [o \in {Registry} |-> None]])
    /\ UNCHANGED <<api, operator>>

\* What has the name in any namespace is read.
List(r) ==
    /\ At(r, "find") \/ At(r, "list")
    /\ LET all   == {o \in Envs \X {req[r].input.kind} : store[o] # None}
           found == Listed(InOrder(EnvOrder, req[r].input.kind))
       IN  Becomes(r, IF all = {} THEN Ended
                      ELSE [req[r] EXCEPT !.at    = Each(r),
                                          !.todo  = IF At(r, "find") THEN <<Head(found)>> ELSE found,
                                          !.held  = [o \in all |-> store[o]],
                                          !.fresh = all])
    /\ UNCHANGED <<api, operator>>

\* Only a handler that may create goes on when there is nothing; a variable that is to be
\* deleted must be there.
Get(r) ==
    /\ At(r, "get")
    /\ LET o    == Object(r)
           gone == \/ store[o] = None /\ ~Does(r).creates
                   \/ /\ store[o] # None
                      /\ Op(r) = "deleteVarsKey"
                      /\ req[r].input.keys \cap DOMAIN store[o] = {}
       IN  Becomes(r, IF gone THEN Ended
                      ELSE [req[r] EXCEPT !.at = "put", !.fresh = {o}, !.held = [x \in {o} |-> store[x]]])
    /\ UNCHANGED <<api, operator>>

\* What the handler makes of what it has read.
Content(r, o) ==
    LET old == OrEmpty(req[r].held[o])
        in  == req[r].input
    IN  IF Does(r).keeps THEN Without(Merge(old, in.data), in.keys) ELSE in.data

\* Mutant: an update is not held to the version that was read.
Forced(r, o) == TRUE

\* Created if nothing was found, else replaced if it is still what was read.
Accepted(r, o) ==
    IF req[r].held[o] = None THEN store[o] = None ELSE o \in req[r].fresh

\* CreateSharedSecret and UpdateSharedSecret go on to the next environment, whatever happened.
AfterPut(r, ok) ==
    LET rest == Tail(req[r].todo) IN
    IF rest # <<>> THEN [req[r] EXCEPT !.todo = rest, !.at = Each(r)]
    ELSE IF ok /\ "restart" \in Calls(r) THEN [req[r] EXCEPT !.at = "restart"]
    ELSE Ended

\* A ConfigMap with a key of the wrong form is refused by the API server.
Put(r) ==
    /\ At(r, "put")
    /\ LET o   == Object(r)
           new == Content(r, o)
       IN  IF Accepted(r, o) /\ ~(o \notin Custom /\ DOMAIN new \cap BadKeys # {})
           THEN \/ /\ store' = [store EXCEPT ![o] = new]
                   /\ born'  = [born EXCEPT ![o] = IF store[o] = None THEN @ + 1 ELSE @]
                   /\ IF new = store[o]
                      THEN Becomes(r, AfterPut(r, TRUE)) /\ UNCHANGED <<work, queue, template>>
                      ELSE /\ Writes(r, AfterPut(r, TRUE), o)
                           /\ Enqueue(o)
                           /\ IF o \in Custom THEN UNCHANGED template ELSE NewVersion(o)
                \/ Faults /\ Becomes(r, AfterPut(r, FALSE)) /\ UNCHANGED <<store, born, work, queue, template>>
           ELSE Becomes(r, AfterPut(r, FALSE)) /\ UNCHANGED <<store, born, work, queue, template>>
    /\ UNCHANGED <<status, bound, secret, pull, pods>>

AfterRemove(r) ==
    IF Tail(req[r].todo) = <<>> THEN Ended ELSE [req[r] EXCEPT !.todo = Tail(@)]

\* Deleted by name, whatever its version.
Remove(r) ==
    /\ At(r, "remove")
    /\ LET o == Object(r) IN
       \/ /\ store[o] # None
          /\ store'  = [store EXCEPT ![o] = None]
          /\ status' = [status EXCEPT ![o] = None]
          /\ Writes(r, AfterRemove(r), o)
          /\ Enqueue(o)
       \/ /\ store[o] = None \/ Faults
          /\ Becomes(r, AfterRemove(r))
          /\ UNCHANGED <<store, status, work, queue>>
    /\ UNCHANGED <<born, bound, secret, template, pull, pods>>

\* restartDeployment: the pods roll at once, perhaps before their Secret has changed.
RestartDeployment(r) ==
    /\ At(r, "restart")
    /\ pods' = [pods EXCEPT ![Object(r)[1]].current = FALSE]
    /\ Becomes(r, Ended)
    /\ UNCHANGED <<api, secret, queue, work, template, pull>>

\* The binding is dropped from one environment, or from all.
Chosen(in, S) == IF in.op = "bind" THEN S \cup {in.env} ELSE IF in.env = None THEN {} ELSE S \ {in.env}

ReadApp(r) ==
    /\ At(r, "app")
    /\ Becomes(r, IF IF Op(r) = "bind" THEN req[r].input.env \in bound ELSE bound = {} THEN Ended
                  ELSE [req[r] EXCEPT !.at = "bind", !.fresh = {App}, !.held = [o \in {App} |-> bound]])
    /\ UNCHANGED <<api, operator>>

WriteApp(r) ==
    /\ At(r, "bind")
    /\ \/ /\ App \in req[r].fresh
          /\ bound' = Chosen(req[r].input, req[r].held[App])
          /\ Writes(r, Ended, App)
       \/ /\ App \notin req[r].fresh \/ Faults
          /\ Becomes(r, Ended)
          /\ UNCHANGED <<bound, work>>
    /\ UNCHANGED <<store, status, born, secret, queue, template, pull, pods>>

-----------------------------------------------------------------------------
(* The operator: VestaSecrets *)

Active == \E r \in Requests : ~At(r, "idle") /\ ~At(r, "done")

SecretRead ==
    /\ work = None
    /\ queue # <<>>
    /\ LET o == Head(queue) IN
       work' = IF store[o] = None THEN None
               ELSE [object |-> o, data |-> store[o], uid |-> born[o], fresh |-> TRUE, at |-> "write"]
    /\ queue' = Tail(queue)
    /\ UNCHANGED <<api, req, secret, template, pull, pods>>

\* CreateOrUpdate of the Secret, with the keys that are valid, owned by the VestaSecret.
SecretWrite ==
    /\ work # None
    /\ work.at = "write"
    /\ LET o   == work.object
           new == [data |-> ValidKeys(work.data), owner |-> work.uid]
       IN  /\ secret' = [secret EXCEPT ![o] = new]
           /\ IF new = secret[o] THEN UNCHANGED <<template, queue>> ELSE NewVersion(o) /\ Enqueue(o)
    /\ work' = [work EXCEPT !.at = "status"]
    /\ UNCHANGED <<api, req, pull, pods>>

\* The status of o is written: a new version of it, for everyone who has read the last.
Report(o, s) ==
    /\ status' = [status EXCEPT ![o] = s]
    /\ req' = [q \in Requests |-> [req[q] EXCEPT !.fresh = @ \ {o}]]

\* The Secret could not be written; the VestaSecret is tried again later.
SecretFails ==
    /\ Faults /\ Active
    /\ work # None
    /\ work.at = "write"
    /\ IF work.fresh
       THEN Report(work.object, [synced |-> FALSE, invalid |-> DOMAIN work.data \cap BadKeys])
       ELSE UNCHANGED <<status, req>>
    /\ Enqueue(work.object)
    /\ work' = None
    /\ UNCHANGED <<store, born, bound, secret, template, pull, pods>>

\* Mutant: the status is patched, whatever has become of the object meanwhile.
AnyVersion == store[work.object] # None

\* The status is accepted of the version that was read.
SameVersion == work.fresh

\* A report that says the same is taken for no new version: the time in it is left out.
SecretStatus ==
    /\ work # None
    /\ work.at = "status"
    /\ LET o == work.object
           s == [synced |-> TRUE, invalid |-> DOMAIN work.data \cap BadKeys]
       IN  IF ~SameVersion THEN Enqueue(o) /\ UNCHANGED <<status, req>>
           ELSE IF status[o] = s THEN UNCHANGED <<status, req, queue>>
           ELSE Report(o, s) /\ Enqueue(o)
    /\ work' = None
    /\ UNCHANGED <<store, born, bound, secret, template, pull, pods>>

\* The garbage collector deletes a Secret whose owner is gone.
Collect(o) ==
    /\ secret[o] # None
    /\ store[o] = None \/ born[o] # secret[o].owner
    /\ secret' = [secret EXCEPT ![o] = None]
    /\ NewVersion(o)
    /\ Enqueue(o)
    /\ UNCHANGED <<api, req, work, pull, pods>>

-----------------------------------------------------------------------------
(* The operator: the application *)

Loaded(o) == IF o \in Custom THEN IF secret[o] = None THEN None ELSE secret[o].data ELSE store[o]

\* Mutant: the rollout does not depend on the versions.
NoMark(e, k) == None

\* The rollout hash covers what is there of the application's own, and the shared secret if
\* it is bound to any environment.
Mark(e, k) == IF Loaded(<<e, k>>) = None \/ (k = "shared" /\ bound = {}) THEN None ELSE "this"

\* What envFrom names: what is there of the application's own, and what is bound here.
Sources(e) == {k \in {"own", "vars"} : Loaded(<<e, k>>) # None}
              \cup (IF e \in bound THEN {"shared"} ELSE {})

\* The registry credential is copied where there is one, then the template written.  A round
\* reads and writes in one step: what changes meanwhile is seen by the next.
ReconcileApp(e) ==
    LET new == [sources |-> Sources(e), marks |-> [k \in Kinds |-> Mark(e, k)]] IN
    /\ pull'     = [pull EXCEPT ![e] = IF Loaded(Registry) = None THEN @ ELSE Loaded(Registry)]
    /\ template' = [template EXCEPT ![e] = new]
    /\ pods'     = [pods EXCEPT ![e].current = @ /\ new = template[e]]
    /\ UNCHANGED <<api, req, secret, queue, work>>

\* Pods of a new template start, and load what it names, once all of that is there.
RollOut(e) ==
    /\ ~pods[e].current
    /\ \A k \in template[e].sources : Loaded(<<e, k>>) # None
    /\ pods' = [pods EXCEPT ![e] =
                  [current |-> TRUE, loaded |-> [k \in template[e].sources |-> Loaded(<<e, k>>)]]]
    /\ UNCHANGED <<api, req, secret, queue, work, template, pull>>

\* In the middle of its work: the queue is lost, and filled with all there is.
OperatorRestarts ==
    /\ Faults /\ Active
    /\ work # None
    /\ work' = None
    /\ queue' = Listed(InOrder(EnvOrder, "own") \o InOrder(EnvOrder, "shared") \o <<Registry>>)
    /\ UNCHANGED <<api, req, secret, template, pull, pods>>

-----------------------------------------------------------------------------
\* What was stored before has been brought to the pods.
Init ==
    /\ \E start \in Starts :
          /\ store = [o \in Objects |-> start.store[o]]
          /\ bound = start.bound
          /\ req   = [r \in Requests |-> Asks(start.asked[r])]
    /\ born   = [o \in Objects |-> IF store[o] = None THEN 0 ELSE 1]
    /\ status = [o \in Objects |-> IF o \notin Custom \/ store[o] = None THEN None
                                   ELSE [synced |-> TRUE, invalid |-> DOMAIN store[o] \cap BadKeys]]
    /\ secret = [o \in Custom |-> IF store[o] = None THEN None
                                  ELSE [data |-> ValidKeys(store[o]), owner |-> 1]]
    /\ work   = None
    /\ queue  = <<>>
    /\ template = [e \in Envs |-> [sources |-> Sources(e), marks |-> [k \in Kinds |-> Mark(e, k)]]]
    /\ pull     = [e \in Envs |-> Loaded(Registry)]
    /\ pods     = [e \in Envs |-> [current |-> TRUE, loaded |-> [k \in Sources(e) |-> Loaded(<<e, k>>)]]]

Step(r) ==
    \/ List(r)
    \/ Get(r)
    \/ Put(r)
    \/ Remove(r)
    \/ RestartDeployment(r)
    \/ ReadApp(r)
    \/ WriteApp(r)

SecretStep == SecretRead \/ SecretWrite \/ SecretStatus

Next ==
    \/ \E r \in Requests : Begin(r) \/ Step(r)
    \/ SecretStep
    \/ SecretFails
    \/ \E o \in Custom : Collect(o)
    \/ \E e \in Envs : ReconcileApp(e) \/ RollOut(e)
    \/ OperatorRestarts

\* Requests are served; the operator works off its queue, comes back to the application
\* every 30 seconds; Kubernetes collects and rolls out.
Fairness ==
    /\ \A r \in Requests : WF_vars(Step(r))
    /\ WF_vars(SecretStep)
    /\ \A o \in Custom : WF_vars(Collect(o))
    /\ \A e \in Envs : WF_vars(ReconcileApp(e)) /\ WF_vars(RollOut(e))

Spec == Init /\ [][Next]_vars /\ Fairness

-----------------------------------------------------------------------------
(* Properties *)

Status   == [synced : BOOLEAN, invalid : SUBSET BadKeys]
Template == [sources : SUBSET Kinds, marks : [Kinds -> {None, "this", "old"}]]
Places   == {"idle", "find", "list", "get", "put", "remove", "restart", "app", "bind", "done"}

\* Objects, requests and pods are what they may be: no Secret holds a key that Kubernetes
\* would not store, the queue names each VestaSecret at most once, and the operator works
\* for an object there has been.
TypeOK ==
    /\ store \in [Objects -> Data \cup {None}]
    /\ \A o \in Custom : status[o] \in Status \cup {None}
    /\ born \in [Objects -> Nat]
    /\ bound \subseteq Envs
    /\ \A r \in Requests :
          req[r].at \in Places /\ req[r].fresh \subseteq Objects \cup {App} /\ req[r].todo \in Seq(Objects)
    /\ \A o \in Custom : secret[o] # None =>
          /\ secret[o].data \in Data /\ DOMAIN secret[o].data \cap BadKeys = {}
          /\ secret[o].owner \in 1..born[o]
    /\ queue \in Seq(Custom) /\ \A i, j \in DOMAIN queue : queue[i] = queue[j] => i = j
    /\ work \in Work \cup {None} /\ (work # None => work.uid \in 1..born[work.object])
    /\ template \in [Envs -> Template]

\* The keys a request may change in what it writes: those it names, or all of them.
Mine(r) == IF Does(r).keeps THEN DOMAIN req[r].input.data \cup req[r].input.keys ELSE Keys

Same(d, new, k) ==
    (k \in DOMAIN OrEmpty(d)) = (k \in DOMAIN new) /\ (k \in DOMAIN new => OrEmpty(d)[k] = new[k])

DataKept(o) ==
    store'[o] # store[o] /\ store'[o] # None =>
    \E r \in Requests :
       /\ At(r, "put") /\ Object(r) = o
       /\ \A k \in Keys \ Mine(r) : Same(store[o], store'[o], k)

BindingKept ==
    bound' # bound => \E r \in Requests : At(r, "bind") /\ bound' = Chosen(req[r].input, bound)

\* However requests meet, a write of secrets or variables changes the keys it is about, and
\* leaves every other as the last write has it; a write of the application binds or unbinds
\* its own environment alone.  None restores what another has changed or removed between
\* the read and the write (the handlers that read, merge and update).
WritesKept == [][(\A o \in Objects : DataKept(o)) /\ BindingKept]_vars

ReportHolds(o) ==
    /\ status'[o] # status[o]
    /\ status'[o] # None /\ status'[o].synced
    => /\ store[o] # None
       /\ status'[o].invalid = DOMAIN store[o] \cap BadKeys
       /\ secret[o] = [data |-> ValidKeys(store[o]), owner |-> born[o]]

\* What is reported as synced is: the report comes with the Secret holding the valid keys of
\* the data the VestaSecret has now, on behalf of that one and none before it, and names the
\* keys that were left out.
SyncedIsTrue == [][\A o \in Custom : ReportHolds(o)]_vars

Pending(o) == (\E i \in DOMAIN queue : queue[i] = o) \/ (work # None /\ work.object = o)

Reported(o) ==
    /\ secret[o] = [data |-> ValidKeys(store[o]), owner |-> born[o]]
    /\ status[o] = [synced |-> TRUE, invalid |-> DOMAIN store[o] \cap BadKeys]

\* The operator forgets nothing: a VestaSecret that is not in its queue or in its hands has
\* been brought into its Secret as it is now, and reported, whatever was refused, restarted,
\* deleted and made anew meanwhile.
NoneForgotten == \A o \in Custom : store[o] # None => Pending(o) \/ Reported(o)

InSync(o) ==
    IF store[o] = None THEN secret[o] = None
    ELSE secret[o] # None /\ secret[o].data = ValidKeys(store[o])

\* Whatever requests, refused writes, restarts and deletions went before, each VestaSecret
\* comes to be the Secret, without the keys that are not valid, and a deleted one to have none.
SecretsSync == <>[](\A o \in Custom : InSync(o))

Startable(e) == e \in bound => Loaded(<<e, "shared">>) # None

\* The pods come to have loaded what is stored for their environment, unless what is bound
\* to it is missing, and the environment has the registry credential as it is; also where a
\* restart came before the Secret had changed.
PodsCatchUp ==
    <>[](\A e \in Envs :
           /\ Startable(e) => pods[e].loaded = [k \in Sources(e) |-> Loaded(<<e, k>>)]
           /\ Loaded(Registry) # None => pull[e] = Loaded(Registry))

=============================================================================
