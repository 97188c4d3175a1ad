-------------------------- MODULE ProjectTransfer --------------------------
(***************************************************************************)
(* A project is moved to another installation: an export collects it, one  *)
(* object after the other, and seals it for the key of one installation;   *)
(* an import opens the bundle there and creates what is in it, until       *)
(* something cannot be created.  Other imports, and users on both sides,   *)
(* go on meanwhile.                                                        *)
(*                                                                         *)
(* What is stored, on either side and in a bundle, is a function from the  *)
(* names of objects to their contents.  A name begins with the kind.       *)
(***************************************************************************)
EXTENDS Naturals, Sequences, FiniteSets

CONSTANTS Exports, Imports, Readers, \* exports, imports, and reads of the identity
          Elsewhere, \* keys of other installations
          EnvOrder,  \* environments, in the order of their namespaces
          NameOrder, \* applications and shared secrets, as they are listed
          Credentials, \* names of registry credentials
          Starts,    \* what the source and the target may store at first
          Edits,     \* <<object, content>> that a user may store at the source
          Creates,   \* <<object, content>> that a user may create at the target
          MaxUser,   \* how often users do so
          As,        \* names to import under
          Bad,       \* data with a key that Kubernetes would not store
          Faults,    \* a call may be refused
          None

Requests == Exports \cup Imports \cup Readers

ASSUME TransferAssumption ==
    /\ Exports \cap Imports = {} /\ Exports \cap Readers = {} /\ Imports \cap Readers = {}
    /\ None \notin Requests
    /\ Elsewhere \cap (Requests \cup {None}) = {}
    /\ MaxUser \in Nat
    /\ Faults \in BOOLEAN

VARIABLES source, \* the project and all it refers to, where it comes from
          target, \* what the target stores
          maker,  \* the import that made each of these objects, or None
          key,    \* the identity of the target: who generated it, or None
          req,    \* the requests
          users   \* how much users have done

vars == <<source, target, maker, key, req, users>>

Nothing       == [o \in {} |-> None]
With(s, o, c) == [x \in DOMAIN s \cup {o} |-> IF x = o THEN c ELSE s[x]]
Of(s, k)      == {o \in DOMAIN s : o[1] = k}
Elements(q)   == {q[i] : i \in DOMAIN q}

\* Where the applications in s stand in the order they are listed in.
Apps(s) == {i \in DOMAIN NameOrder : <<"app", NameOrder[i]>> \in DOMAIN s}

\* The configuration of an application in an environment, and what is in a namespace.
Config == {"vars", "secret"}
Kept   == Config \cup {"shared"}

\* What a project and an application hold: the environments they name and the credentials their
\* images are pulled with, an application those of its image and those of its environments.
Environments  == Seq(Elements(EnvOrder))
IsProject(c)  == DOMAIN c = {"envs", "pull"} /\ c.envs \in Environments /\ c.pull \subseteq Credentials
IsApp(c)      == /\ DOMAIN c = {"project", "envs", "pull", "envPull"}
                 /\ c.envs \in Environments /\ c.pull \subseteq Credentials /\ c.envPull \subseteq Credentials

\* The objects of the project that the rest of the code can name, with what they hold.
Named(o) ==
    \/ o = <<"project">>
    \/ o[1] = "app" /\ o = <<"app", o[2]>> /\ o[2] \in Elements(NameOrder)
    \/ o[1] = "registry" /\ o = <<"registry", o[2]>>
    \/ o[1] \in Config /\ o = <<o[1], o[2], o[3]>>
    \/ /\ o[1] = "shared" /\ o = <<"shared", o[2], o[3]>>
       /\ o[2] \in Elements(NameOrder) /\ o[3] \in Elements(EnvOrder)

Holds(o, c)      == (o[1] = "project" => IsProject(c)) /\ (o[1] = "app" => IsApp(c))
WellFormed(o, c) == Named(o) /\ Holds(o, c)

\* And those of the target, where projects, configuration and namespaces are of some project.
Placed(n) ==
    \/ n = <<"project", n[2]>>
    \/ n[1] \in {"app", "registry"} /\ n = <<n[1], n[2]>>
    \/ n[1] \in Kept /\ n = <<n[1], n[2], n[3], n[4]>>
    \/ n = <<"namespace", n[2], n[3]>> /\ n[2] \in Elements(EnvOrder)

WellPlaced(n, c) == Placed(n) /\ Holds(n, c)

ASSUME SourceAssumption ==
    /\ NameOrder \in Seq(Elements(NameOrder)) /\ EnvOrder \in Seq(Elements(EnvOrder))
    /\ \A s \in Starts : /\ <<"project">> \in DOMAIN s.source
                        /\ \A o \in DOMAIN s.source : WellFormed(o, s.source[o])
                        /\ \A n \in DOMAIN s.target : WellPlaced(n, s.target[n])
    /\ \A x \in Edits : WellFormed(x[1], x[2])
    /\ \A x \in Creates : WellPlaced(x[1], x[2])

-----------------------------------------------------------------------------
(* Requests *)

\* todo is what the request has still to read, or to create: <<turn, object>>, of which those
\* with the lowest turn come first.  has is what an export has collected; bundle, the export an
\* import is of, and into, the name it takes.  A request is clean while none of its calls was
\* refused, an export quiet while the source stays as it is.
NewRequest == [at |-> "idle", key |-> None, todo |-> {}, has |-> Nothing,
               bundle |-> None, into |-> None, clean |-> TRUE, quiet |-> TRUE]

At(r, place)    == req[r].at = place
Place(r, place) == [req[r] EXCEPT !.at = place]
Becomes(r, x)   == req' = [req EXCEPT ![r] = x]

First(todo)   == {t \in todo : \A u \in todo : t[1] <= u[1]}
Through(r, t) == [req[r] EXCEPT !.todo = @ \ {t}]

\* A call is refused, and the request goes on as x.
Refused(r, x) == Faults /\ Becomes(r, [x EXCEPT !.clean = FALSE])

-----------------------------------------------------------------------------
(* The identity of an installation *)

Sealed    == {x \in Exports : At(x, "done")}
Published == {req[g].key : g \in {x \in Readers : At(x, "done")}}

\* InstanceIdentity: the stored key is read, or the caller generates one.
ReadIdentity(r) ==
    /\ At(r, "idle")
    /\ \E x \in IF r \in Imports THEN Sealed ELSE {None}, n \in IF r \in Imports THEN As ELSE {None} :
          LET new == [req[r] EXCEPT !.bundle = x, !.into = n] IN
          \/ Becomes(r, IF key = None THEN [new EXCEPT !.at = "store", !.key = r]
                        ELSE [new EXCEPT !.at = "known", !.key = key])
          \/ Refused(r, [new EXCEPT !.at = "failed"])
    /\ UNCHANGED <<source, target, maker, key, users>>

\* Mutant: who comes second keeps the key it made.
Keeps(r) == Place(r, "known")

\* Who comes second reads the key of the first.
Rereads(r) == [Place(r, "reread") EXCEPT !.key = None]

StoreIdentity(r) ==
    /\ At(r, "store")
    /\ \/ key = None /\ key' = r /\ Becomes(r, Place(r, "known"))
       \/ key # None /\ Becomes(r, Rereads(r)) /\ UNCHANGED key
       \/ Refused(r, Place(r, "failed")) /\ UNCHANGED key
    /\ UNCHANGED <<source, target, maker, users>>

RereadIdentity(r) ==
    /\ At(r, "reread")
    /\ \/ Becomes(r, [Place(r, "known") EXCEPT !.key = key])
       \/ Refused(r, Place(r, "failed"))
    /\ UNCHANGED <<source, target, maker, key, users>>

\* GetInstanceIdentity answers with the public key.
Publish(g) ==
    /\ At(g, "known")
    /\ Becomes(g, Place(g, "done"))
    /\ UNCHANGED <<source, target, maker, key, users>>

-----------------------------------------------------------------------------
(* Export *)

\* The bundle is to be sealed for a key somebody was given, of here or of elsewhere.
ReadProject(x) ==
    /\ At(x, "idle")
    /\ \E k \in Published \cup Elsewhere :
          \/ Becomes(x, [Place(x, "apps") EXCEPT
                           !.key = k, !.has = With(Nothing, <<"project">>, source[<<"project">>])])
          \/ Refused(x, Place(x, "failed"))
    /\ UNCHANGED <<source, target, maker, key, users>>

\* What was found is added to what the export has.
Collect(x, found, place) ==
    [Place(x, place) EXCEPT
       !.has = [o \in DOMAIN @ \cup DOMAIN found |-> IF o \in DOMAIN found THEN found[o] ELSE @[o]]]

\* Mutant: an application has the environments it names.
OwnOnly(app, project) == Elements(app.envs)

\* An application that names no environment has those of the project.
Inherited(app, project) == Elements(IF app.envs = <<>> THEN project.envs ELSE app.envs)

\* collectProject: the applications, and for each the configuration there is to read.
ListApps(x) ==
    /\ At(x, "apps")
    /\ LET Envs(a)    == Inherited(source[<<"app", a>>], req[x].has[<<"project">>])
           Reads(i, a) == {<<i, <<k, a, e>>>> : k \in Config, e \in Envs(a)}
       IN  \/ Becomes(x, [Collect(x, [o \in Of(source, "app") |-> source[o]], "config") EXCEPT
                            !.todo = UNION {Reads(i, NameOrder[i]) : i \in Apps(source)}])
           \/ Refused(x, Place(x, "failed"))
    /\ UNCHANGED <<source, target, maker, key, users>>

\* What cannot be read is left out, for whatever reason.
ReadConfig(x) ==
    /\ At(x, "config")
    /\ \E t \in First(req[x].todo) :
          \/ Becomes(x, IF t[2] \notin DOMAIN source THEN Through(x, t)
                        ELSE [Through(x, t) EXCEPT !.has = With(@, t[2], source[t[2]])])
          \/ Refused(x, Through(x, t))
    /\ UNCHANGED <<source, target, maker, key, users>>

\* A shared secret is carried once, with the data of its first namespace.
FirstData(o) ==
    LET Copy(i) == <<"shared", o[2], EnvOrder[i]>>
        first   == CHOOSE i \in DOMAIN EnvOrder : /\ Copy(i) \in DOMAIN source
                                                  /\ \A j \in 1..(i - 1) : Copy(j) \notin DOMAIN source
    IN  source[Copy(first)]

ListShared(x) ==
    /\ At(x, "config")
    /\ req[x].todo = {}
    /\ \/ Becomes(x, Collect(x, [o \in Of(source, "shared") |-> FirstData(o)], "registry"))
       \/ Refused(x, Place(x, "registry"))
    /\ UNCHANGED <<source, target, maker, key, users>>

\* The registry credentials that the project or the images of its applications refer to.  What
\* the environments of an application name is not looked at.
Referenced(has) == has[<<"project">>].pull \cup UNION {has[o].pull : o \in Of(has, "app")}

\* They are the last to be collected: the bundle is sealed.
ListRegistry(x) ==
    /\ At(x, "registry")
    /\ LET wanted == {o \in Of(source, "registry") : o[2] \in Referenced(req[x].has)}
       IN  \/ Becomes(x, Collect(x, [o \in wanted |-> source[o]], "done"))
           \/ Referenced(req[x].has) # {} /\ Refused(x, Place(x, "done"))
    /\ UNCHANGED <<source, target, maker, key, users>>

-----------------------------------------------------------------------------
(* Import *)

\* The name of an object of the bundle where it is imported as project p, and its content.
NameIn(o, p) ==
    CASE o[1] = "project"             -> <<"project", p>>
      [] o[1] \in {"app", "registry"} -> o
      [] OTHER                        -> <<o[1], o[2], o[3], p>>

ContentIn(o, c, p) == IF o[1] = "app" THEN [c EXCEPT !.project = p] ELSE c

Spaces(envs, p) == {<<"namespace", e, p>> : e \in Elements(envs)}

\* applyPayload: registry credentials, the project and its namespaces, each application and
\* its namespaces, the configuration, and each shared secret, after its namespace.
Plan(has, p) ==
    LET Turn(k, S)   == {k} \X S
        All(k)       == {NameIn(o, p) : o \in Of(has, k)}
        App(i)       == <<"app", NameOrder[i]>>
        Shared(i, j) == <<"shared", NameOrder[i], EnvOrder[j]>>
        AtApp(i)     == Turn(2 * i + 2, {App(i)}) \cup Turn(2 * i + 3, Spaces(has[App(i)].envs, p))
        config       == 2 * Len(NameOrder) + 4
        turn(i, j)   == config + 2 * (i * Len(EnvOrder) + j)
        AtShared(i, j) == Turn(turn(i, j), Spaces(<<EnvOrder[j]>>, p))
                          \cup Turn(turn(i, j) + 1, {NameIn(Shared(i, j), p)})
        SharedEnvs(i)  == {n \in DOMAIN EnvOrder : Shared(i, n) \in DOMAIN has}
        apps   == UNION {AtApp(i) : i \in Apps(has)}
        shared == UNION {UNION {AtShared(i, j) : j \in SharedEnvs(i)} : i \in DOMAIN NameOrder}
    IN  Turn(1, All("registry")) \cup Turn(2, All("project"))
        \cup Turn(3, Spaces(has[<<"project">>].envs, p)) \cup apps
        \cup Turn(config, All("vars")) \cup Turn(config + 1, All("secret")) \cup shared

Payload(i) == req[req[i].bundle].has

\* Open refuses a bundle for another key, and all keys of data are checked before anything else.
Open(i) ==
    /\ At(i, "known")
    /\ LET has == Payload(i)
           bad == \E o \in DOMAIN has : o[1] \in Kept /\ has[o] \in Bad
       IN  Becomes(i, Place(i, IF req[req[i].bundle].key # req[i].key \/ bad THEN "failed" ELSE "check"))
    /\ UNCHANGED <<source, target, maker, key, users>>

\* No project may have the name.  If that cannot be read, the import goes on.
CheckName(i) ==
    /\ At(i, "check")
    /\ LET go == [Place(i, "apply") EXCEPT !.todo = Plan(Payload(i), req[i].into)] IN
       \/ Becomes(i, IF <<"project", req[i].into>> \in DOMAIN target THEN Place(i, "failed") ELSE go)
       \/ Refused(i, go)
    /\ UNCHANGED <<source, target, maker, key, users>>

\* A registry credential that is there is left as it is, and else it is to be made.
LookRegistry(i) ==
    /\ At(i, "apply")
    /\ \E t \in First(req[i].todo) :
          LET make == [Place(i, "make") EXCEPT !.todo = (@ \ {t}) \cup {<<0, t[2]>>}] IN
          /\ t[2][1] = "registry"
          /\ Becomes(i, IF t[2] \in DOMAIN target THEN Through(i, t) ELSE make) \/ Refused(i, make)
    /\ UNCHANGED <<source, target, maker, key, users>>

\* The content the bundle has for the object of that name.
ContentOf(i, n) ==
    LET o == CHOOSE x \in DOMAIN Payload(i) : NameIn(x, req[i].into) = n
    IN  IF n[1] = "namespace" THEN None ELSE ContentIn(o, Payload(i)[o], req[i].into)

\* Mutant: a project that is there by now is taken for created.
NotInTheWay(n) == n \notin DOMAIN target \/ n[1] = "project"

\* An object is created where there is none, and where there is its namespace.
Creatable(n) == n \notin DOMAIN target /\ (n[1] \in Kept => <<"namespace", n[3], n[4]>> \in DOMAIN target)

\* A namespace that is there is as good as created.
Found(n) == n[1] = "namespace" /\ n \in DOMAIN target

\* EnsureNamespace, and CreateResource of anything else: the first that fails ends the import.
Create(i) ==
    /\ At(i, "apply") \/ At(i, "make")
    /\ \E t \in First(req[i].todo) :
          LET n      == t[2]
              goesOn == [Through(i, t) EXCEPT !.at = "apply"] IN
          /\ At(i, "apply") => n[1] # "registry"
          /\ \/ /\ Creatable(n)
                /\ target' = IF n \in DOMAIN target THEN target ELSE With(target, n, ContentOf(i, n))
                /\ maker'  = IF n \in DOMAIN target THEN maker ELSE With(maker, n, i)
                /\ Becomes(i, goesOn)
             \/ /\ Found(n) /\ Becomes(i, goesOn) /\ UNCHANGED <<target, maker>>
             \/ /\ ~Creatable(n) /\ ~Found(n)
                /\ Becomes(i, Place(i, "failed")) /\ UNCHANGED <<target, maker>>
             \/ Refused(i, Place(i, "failed")) /\ UNCHANGED <<target, maker>>
    /\ UNCHANGED <<source, key, users>>

Finish(i) ==
    /\ At(i, "apply")
    /\ req[i].todo = {}
    /\ Becomes(i, Place(i, "done"))
    /\ UNCHANGED <<source, target, maker, key, users>>

-----------------------------------------------------------------------------
(* Users, and the specification *)

\* A user edits or adds something at the source: no export is quiet any more.
EditSource ==
    /\ users < MaxUser
    /\ \E x \in Edits :
          /\ source' = With(source, x[1], x[2])
          /\ source' # source
    /\ users' = users + 1
    /\ req' = [r \in Requests |-> IF r \in Exports THEN [req[r] EXCEPT !.quiet = At(r, "idle")] ELSE req[r]]
    /\ UNCHANGED <<target, maker, key>>

\* A user creates something at the target.
CreateTarget ==
    /\ users < MaxUser
    /\ \E x \in Creates :
          /\ Creatable(x[1])
          /\ target' = With(target, x[1], x[2])
          /\ maker'  = With(maker, x[1], None)
    /\ users' = users + 1
    /\ UNCHANGED <<source, key, req>>

Init ==
    /\ \E s \in Starts : /\ source = s.source
                         /\ target = s.target
                         /\ maker  = [o \in DOMAIN s.target |-> None]
    /\ key   = None
    /\ req   = [r \in Requests |-> NewRequest]
    /\ users = 0

Identify(r) == ReadIdentity(r) \/ StoreIdentity(r) \/ RereadIdentity(r)

ExportStep(x) == ReadProject(x) \/ ListApps(x) \/ ReadConfig(x) \/ ListShared(x) \/ ListRegistry(x)

ImportStep(i) == Open(i) \/ CheckName(i) \/ LookRegistry(i) \/ Create(i) \/ Finish(i)

Next ==
    \/ \E r \in Imports \cup Readers : Identify(r)
    \/ \E g \in Readers : Publish(g)
    \/ \E x \in Exports : ExportStep(x)
    \/ \E i \in Imports : ImportStep(i)
    \/ EditSource
    \/ CreateTarget

Spec == Init /\ [][Next]_vars

-----------------------------------------------------------------------------
(* What is to hold *)

\* What there is on both sides, and who made it; what exports have collected and have to read, and
\* what imports are of and have to create, all of it of the project's new name.
TypeOK ==
    /\ <<"project">> \in DOMAIN source /\ \A o \in DOMAIN source : WellFormed(o, source[o])
    /\ \A n \in DOMAIN target : WellPlaced(n, target[n])
    /\ DOMAIN maker = DOMAIN target /\ \A n \in DOMAIN maker : maker[n] \in Imports \cup {None}
    /\ key \in Imports \cup Readers \cup {None}
    /\ DOMAIN req = Requests
    /\ \A r \in Requests : req[r].key \in Imports \cup Readers \cup {None} \cup Elsewhere
    /\ \A r \in Imports \cup Readers :
          req[r].at \in {"idle", "store", "reread", "known", "check", "apply", "make", "done", "failed"}
    /\ \A x \in Exports :
          /\ req[x].at \in {"idle", "apps", "config", "registry", "done", "failed"}
          /\ req[x].at \notin {"idle", "failed"} => <<"project">> \in DOMAIN req[x].has
          /\ \A o \in DOMAIN req[x].has : WellFormed(o, req[x].has[o])
          /\ \A t \in req[x].todo : \E k \in Config, e \in Elements(EnvOrder) :
                t[1] \in DOMAIN NameOrder /\ t[2] = <<k, NameOrder[t[1]], e>>
    /\ \A i \in Imports :
          /\ req[i].at # "idle" => At(req[i].bundle, "done") /\ req[i].bundle \in Exports /\ req[i].into \in As
          /\ \A t \in req[i].todo :
                /\ t[1] \in Nat /\ Placed(t[2])
                /\ t[2][1] \in {"app", "registry"} \/ t[2][Len(t[2])] = req[i].into
    /\ users \in 0..MaxUser

\* Whoever an installation has told its key, and whatever it opens bundles with, it is the one
\* key it stores: two requests that both find none do not end with a key each, of which one is
\* lost and the bundles sealed for it with it.
OneIdentity ==
    \A r \in Imports \cup Readers :
        ~At(r, "idle") /\ ~At(r, "store") /\ ~At(r, "reread") /\ ~At(r, "failed") => req[r].key = key

\* Of a project that is imported, all that imports made is of one import: a second one that was
\* let in under the same name, before the project was there, adds nothing to it.
InProject(o, p) ==
    \/ o[1] = "app" /\ target[o].project = p
    \/ o[1] \in Kept /\ o[4] = p

ProjectOfOne ==
    \A o \in DOMAIN target : \A p \in As :
        InProject(o, p) /\ maker[o] # None =>
            /\ <<"project", p>> \in DOMAIN target
            /\ maker[<<"project", p>>] = maker[o]

\* An import that ends well has brought the whole project over, if nothing was refused to the
\* export and nobody changed the source since it began: the project, the applications, the
\* configuration they have in any environment they run in, named or inherited, the shared
\* secrets, and the credentials with which the operator pulls their images, but for those that
\* only environments of applications name: an export overlooks these (referencedPullSecrets).
Refers(c, s)     == {x \in DOMAIN s : x[1] \in {"project", "app"} /\ c \in s[x].pull}
Pulls(c, s)      == Refers(c, s) # {} \/ \E x \in Of(s, "app") : c \in s[x].envPull
Overlooked(c, s) == Pulls(c, s) /\ Refers(c, s) = {}

Runs(a, e, s) ==
    LET app == s[<<"app", a>>].envs IN e \in Elements(IF app = <<>> THEN s[<<"project">>].envs ELSE app)

Belongs(o) ==
    CASE o[1] = "registry"           -> Pulls(o[2], source) /\ ~Overlooked(o[2], source)
      [] o[1] \in Config             -> <<"app", o[2]>> \in DOMAIN source /\ Runs(o[2], o[3], source)
      [] OTHER                       -> TRUE

Arrived(o, p) ==
    /\ NameIn(o, p) \in DOMAIN target
    /\ o[1] \notin {"registry", "shared"} => target[NameIn(o, p)] = ContentIn(o, source[o], p)

CarriesAll ==
    \A i \in Imports :
        At(i, "done") /\ req[req[i].bundle].clean /\ req[req[i].bundle].quiet =>
            \A o \in DOMAIN source : Belongs(o) => Arrived(o, req[i].into)

=============================================================================
