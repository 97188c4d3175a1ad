----------------------------- MODULE AppObjects -----------------------------
(***************************************************************************)
(* What the operator wants of an app in the namespace of one environment:  *)
(* operators from the spec of a VestaApp and what is there already to the  *)
(* objects of the next pass.  Images are left to VestaAppSpec.             *)
(*                                                                         *)
(* A field a user has left out is None.  Every kind of object is a value,  *)
(* None or empty when there is no such object.                             *)
(***************************************************************************)
EXTENDS Integers, Sequences, FiniteSets, FiniteSetsExt

CONSTANTS Envs,        \* environment names
          Hosts,       \* domains
          Issuers,     \* cert-manager issuers
          Certs,       \* TLS secrets that users supply
          OwnCert,     \* the generated secret's name
          PortNames,   \* names of ports, "http" among them
          CronNames,   \* names of cron jobs
          Claims,      \* persistent volume claims
          Labels,      \* what custom labels may be set
          Template,    \* VestaConfig: the domain template, filled in for each environment
          Issuer,      \* VestaConfig: the instance's default issuer
          Traefik,     \* whether the ingress class resolves to Traefik
          ProjectEnvs, \* the project's environments, for an app that names none
          None

ASSUME ObjectsAssumption ==
    /\ Template \in [Envs -> Hosts \cup {None}]
    /\ Issuer \in Issuers \cup {None}
    /\ Traefik \in BOOLEAN
    /\ ProjectEnvs \subseteq Envs
    /\ "http" \in PortNames
    /\ OwnCert \notin Certs
    /\ None \notin Envs \cup Hosts \cup Issuers \cup Certs \cup {OwnCert} \cup Labels
    /\ None \notin BOOLEAN /\ None \notin Nat

Modes == {"manual", "custom"}
Port  == [name : PortNames, port : Nat \ {0}, target : Nat, protocol : {"TCP", "UDP"}]

\* spec.ingress, and an environment's override of it: the same fields, of which the
\* app always sets tls.  issuer is the provider selector; note the issuer that a user
\* wrote into the annotations.
Override == [hosts : SUBSET Hosts, tls : BOOLEAN \cup {None}, mode : Modes \cup {None},
             secret : Certs \cup {None}, issuer : Issuers \cup {None},
             note : Issuers \cup {None}, redirects : SUBSET Hosts,
             target : Hosts \cup {None}]
Ingress  == {i \in Override : i.tls # None}

\* An environment of the app.  scale is an autoscaler that is switched on.
EnvConfig == [name : Envs, replicas : Nat \cup {None},
              scale : [min : Nat, max : Nat] \cup {None},
              ports : Seq(Port), ingress : Override \cup {None}]

Cron == [name : CronNames, on : BOOLEAN \cup {None},
         envOn : [Envs -> BOOLEAN \cup {None}]]

AppSpec == [envs : SUBSET EnvConfig, labels : Labels, port : Nat, ports : Seq(Port),
            ingress : Ingress \cup {None}, claims : SUBSET Claims,
            crons : SUBSET Cron, sleep : BOOLEAN]

\* The objects in one namespace.
Deployment == [labels : Labels, replicas : Nat, data : Nat]

Objects ==
    [account    : BOOLEAN,
     claims     : SUBSET Claims,
     deployment : Deployment \cup {None},
     service    : SUBSET [name : PortNames \X Nat, port : Nat, target : Nat,
                          protocol : {"TCP", "UDP"}],
     ingress    : [hosts : SUBSET Hosts, port : Nat, secret : Certs \cup {OwnCert, None},
                   issuer : Issuers \cup {None}, https : BOOLEAN] \cup {None},
     https      : BOOLEAN,
     middleware : Hosts \cup {None},
     redirect   : [hosts : SUBSET Hosts, to : Hosts, tls : BOOLEAN, port : Nat,
                   secret : Certs \cup {OwnCert, None},
                   issuer : Issuers \cup {None}] \cup {None},
     scaler     : [min : Nat, max : Nat] \cup {None},
     crons      : SUBSET [name : CronNames, suspend : BOOLEAN]]

Nothing == [account |-> FALSE, claims |-> {}, deployment |-> None, service |-> {},
            ingress |-> None, https |-> FALSE, middleware |-> None, redirect |-> None,
            scaler |-> None, crons |-> {}]

\* resolveTargetNamespaces: the app's environments, or those of its project.
Targets(spec) ==
    IF spec.envs # {} THEN spec.envs
    ELSE {[name |-> e, replicas |-> None, scale |-> None, ports |-> <<>>, ingress |-> None] :
             e \in ProjectEnvs}
TargetEnvs(spec) == {t.name : t \in Targets(spec)}

\* The first of several settings that is there.
FirstOf(settings) ==
    LET given == {i \in DOMAIN settings : settings[i] # None}
    IN  IF given = {} THEN None ELSE settings[Min(given)]

Field(config, field) == IF config = None THEN None ELSE config[field]

-----------------------------------------------------------------------------
(* Deployment, autoscaler, volumes *)

\* Replicas: none while the app sleeps or is stopped; whatever the autoscaler has
\* chosen, and one to begin with, where there is one.
Replicas(spec, t, phase, old) ==
    IF phase = "Stopped" \/ (spec.sleep /\ phase = "Sleeping") THEN 0
    ELSE IF t.scale # None THEN (IF old = None THEN 1 ELSE old.replicas)
    ELSE IF t.replicas = None THEN 1 ELSE t.replicas

\* Mutant: the rollout does not follow the secrets.
WantSameData(spec, t, phase, data, old) ==
    [labels |-> spec.labels, replicas |-> Replicas(spec, t, phase, old),
     data   |-> IF old = None THEN data ELSE old.data]

\* The labels of the Deployment are also its selector.
WantDeployment(spec, t, phase, data, old) ==
    [labels |-> spec.labels, replicas |-> Replicas(spec, t, phase, old), data |-> data]

\* A Deployment's selector is fixed when it is created.
SelectorRefused(spec, old) == old # None /\ old.labels # spec.labels

WantScaler(t, old) ==
    IF t.scale = None THEN old
    ELSE LET min == IF t.scale.min > 0 THEN t.scale.min ELSE 1
         IN  [min |-> min, max |-> Max({min, t.scale.max})]

WantClaims(spec, old) == old \cup spec.claims

-----------------------------------------------------------------------------
(* Ports *)

\* buildServicePorts drops a repeated port of the same protocol and numbers the names
\* that repeat: a Service with either is refused.
PortKey(p) == <<p.port, p.protocol>>

KeptPorts(ports) ==
    {i \in DOMAIN ports : \A j \in 1 .. i - 1 : PortKey(ports[j]) # PortKey(ports[i])}

Namesakes(ports, i) == {j \in KeptPorts(ports) : j =< i /\ ports[j].name = ports[i].name}

ServicePort(ports, i) ==
    [name     |-> <<ports[i].name, Cardinality(Namesakes(ports, i))>>,
     port     |-> ports[i].port,
     target   |-> IF ports[i].target = 0 THEN ports[i].port ELSE ports[i].target,
     protocol |-> ports[i].protocol]

ServicePorts(ports) == {ServicePort(ports, i) : i \in KeptPorts(ports)}

\* The environment's ports, the app's, or port 80 for the container's own; a Service
\* that is not wanted any more stays.
WantService(spec, t, old) ==
    LET ports == IF t.ports # <<>> THEN t.ports ELSE spec.ports
    IN  IF ports # <<>> THEN ServicePorts(ports)
        ELSE IF spec.port > 0
             THEN {[name |-> <<"http", 1>>, port |-> 80, target |-> spec.port,
                    protocol |-> "TCP"]}
             ELSE old

\* Ingresses lead to the port named http, or to the first.
BackendPort(spec) ==
    LET http == {i \in DOMAIN spec.ports : spec.ports[i].name = "http"}
    IN  IF spec.ports = <<>> THEN 80
        ELSE IF http # {} THEN spec.ports[Min(http)].port ELSE spec.ports[1].port

-----------------------------------------------------------------------------
(* Certificates *)

\* Mutant: the environment's issuer is taken although the app has a secret.
IssuerFirst(app, env) ==
    LET secret == FirstOf(<<Field(env, "secret"), Field(app, "secret")>>)
        issuer == FirstOf(<<Field(env, "issuer"), Field(env, "note"), Issuer>>)
    IN  [unmanaged |-> FALSE, issuer |-> issuer,
         secret |-> IF secret = None THEN OwnCert ELSE secret]

\* resolveCertConfig.  unmanaged leaves TLS to the user's annotations.
ResolveCert(app, env) ==
    LET mode   == FirstOf(<<Field(env, "mode"), Field(app, "mode")>>)
        secret == FirstOf(<<Field(env, "secret"), Field(app, "secret")>>)
        issuer == FirstOf(<<Field(env, "issuer"), Field(app, "issuer"),
                            Field(env, "note"), Field(app, "note"), Issuer>>)
        Cert(iss, sec) == [unmanaged |-> mode = "custom", issuer |-> iss, secret |-> sec]
    IN  IF mode = "custom" THEN Cert(None, OwnCert)
        ELSE IF secret # None THEN Cert(None, secret)
        ELSE IF mode = "manual" THEN Cert(None, OwnCert)
        ELSE Cert(issuer, OwnCert)

\* The environment's setting, the app's, or none.
TlsEnabled(spec, t) == FirstOf(<<Field(t.ingress, "tls"), Field(spec.ingress, "tls"), FALSE>>)

Cert(spec, t) == ResolveCert(spec.ingress, t.ingress)

\* The secret an ingress names and the issuer it is annotated with.
TlsSecret(spec, t) == IF TlsEnabled(spec, t) /\ ~Cert(spec, t).unmanaged
                      THEN Cert(spec, t).secret ELSE None
TlsIssuer(spec, t) == IF TlsEnabled(spec, t) THEN Cert(spec, t).issuer ELSE None

-----------------------------------------------------------------------------
(* Ingresses *)

Given(config, field) == config # None /\ config[field] # {}

\* The domains of an environment: its own, the platform's template, or the app's.
IngressHosts(spec, t) ==
    IF Given(t.ingress, "hosts") THEN t.ingress.hosts
    ELSE IF Template[t.name] # None THEN {Template[t.name]}
    ELSE IF spec.ingress # None THEN spec.ingress.hosts ELSE {}

IngressWanted(spec, t) == spec.ingress # None \/ t.ingress # None

\* The ingress, deleted when nobody asks for one any more but kept as it was when no
\* domain is left.  The user's own issuer annotation is taken out whatever the mode.
WantIngress(spec, t, old) ==
    IF ~IngressWanted(spec, t) THEN None
    ELSE IF IngressHosts(spec, t) = {} THEN old
    ELSE [hosts  |-> IngressHosts(spec, t), port |-> BackendPort(spec),
          secret |-> TlsSecret(spec, t), issuer |-> TlsIssuer(spec, t),
          https  |-> TlsEnabled(spec, t) /\ Traefik]

\* The middleware that sends plain requests to https; not looked at without ingress.
WantHttps(spec, t, old) ==
    IF IngressWanted(spec, t) THEN TlsEnabled(spec, t) /\ Traefik ELSE old

\* The domains that redirect to the main one.
RedirectHosts(spec, t) ==
    IF Given(t.ingress, "redirects") THEN t.ingress.redirects
    ELSE IF spec.ingress # None THEN spec.ingress.redirects ELSE {}

\* The explicit target or else the main domain.
RedirectTo(spec, t) ==
    LET main == IngressHosts(spec, t)
    IN  FirstOf(<<Field(t.ingress, "target"), Field(spec.ingress, "target"),
                  IF main = {} THEN None ELSE CHOOSE h \in main : TRUE>>)

\* The redirecting ingress, and on Traefik the middleware it leads through: deleted
\* without domains, left alone without a target.
WantMiddleware(spec, t, old) ==
    IF RedirectHosts(spec, t) = {} THEN None
    ELSE IF RedirectTo(spec, t) # None /\ Traefik THEN RedirectTo(spec, t)
    ELSE old

WantRedirect(spec, t, old) ==
    IF RedirectHosts(spec, t) = {} THEN None
    ELSE IF RedirectTo(spec, t) = None THEN old
    ELSE [hosts  |-> RedirectHosts(spec, t), to |-> RedirectTo(spec, t),
          tls    |-> TlsEnabled(spec, t), port |-> BackendPort(spec),
          secret |-> TlsSecret(spec, t), issuer |-> TlsIssuer(spec, t)]

-----------------------------------------------------------------------------
(* Cron jobs *)

\* isCronjobEnabled: the environment's flag, the job's, or enabled.
CronEnabled(cron, e) == FirstOf(<<cron.envOn[e], cron.on, TRUE>>)

CronJob(cron, e) == [name |-> cron.name, suspend |-> ~CronEnabled(cron, e)]

\* The jobs of the spec in done are created or updated; the others are as they were.
MergeCrons(spec, t, done, old) ==
    LET new == {CronJob(c, t.name) : c \in {d \in spec.crons : d \in done}}
    IN  new \cup {o \in old : \A n \in new : n.name # o.name}

\* Jobs that are not in the spec any more are deleted.
Prune(spec, jobs) == {j \in jobs : j.name \in {c.name : c \in spec.crons}}

WantCrons(spec, t, old) == Prune(spec, MergeCrons(spec, t, spec.crons, old))

-----------------------------------------------------------------------------
\* An object of an environment after its step of a pass.
Want(kind, spec, t, phase, data, old) ==
    CASE kind = "account"    -> TRUE
      [] kind = "claims"     -> WantClaims(spec, old.claims)
      [] kind = "deployment" -> WantDeployment(spec, t, phase, data, old.deployment)
      [] kind = "service"    -> WantService(spec, t, old.service)
      [] kind = "ingress"    -> WantIngress(spec, t, old.ingress)
      [] kind = "https"      -> WantHttps(spec, t, old.https)
      [] kind = "middleware" -> WantMiddleware(spec, t, old.middleware)
      [] kind = "redirect"   -> WantRedirect(spec, t, old.redirect)
      [] kind = "scaler"     -> WantScaler(t, old.scaler)
      [] kind = "crons"      -> WantCrons(spec, t, old.crons)
=============================================================================
