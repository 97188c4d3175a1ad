---------------------------- MODULE Environments ----------------------------
(***************************************************************************)
(* Projects and their environments.  A project lists its environments in   *)
(* its own VestaProject; each has a VestaEnvironment besides, all of them  *)
(* in one namespace and called by the name of the environment alone, which *)
(* is what a push is matched against.  A handler writes first the one and  *)
(* then the other, and a clone goes on to the applications.  The operator  *)
(* labels both, makes the namespaces of the environments and counts.       *)
(*                                                                         *)
(* A request takes one step for each call to the API server, and several   *)
(* run at the same time.  The resource version that a write is checked     *)
(* against is modelled by the reader: fresh names the objects that nobody  *)
(* has written since.                                                      *)
(***************************************************************************)
EXTENDS Naturals, Sequences, FiniteSets

CONSTANTS Requests, \* requests, each made once
          ProjectOrder, NameOrder, AppOrder, \* projects, names of environments, applications,
                    \* in the order they are listed
          Home,     \* the project of each application
          Branches, Teams,
          Starts,   \* what is stored at first, and what the requests ask for
          Faults,   \* the API server may refuse a write
          Absent

Projects    == {ProjectOrder[i] : i \in DOMAIN ProjectOrder}
Names       == {NameOrder[i] : i \in DOMAIN NameOrder}
Apps        == {AppOrder[i] : i \in DOMAIN AppOrder}
Controllers == {"project", "environment"}
Resources     == ({"project"} \X Projects) \cup ({"environment"} \X Names)
NamesOf(k)    == IF k = "project" THEN Projects ELSE Names

\* branch and auto stand for all the settings of an environment.
Settings == {"branch", "auto"}
Entry    == [name : Names, branch : Branches \cup {Absent}, auto : BOOLEAN]

\* own: a project has the label with its own name; label is the one with the team, or with
\* the project of an environment; count is the status.
VestaProject ==
    [envs : Seq(Entry), team : Teams \cup {Absent}, own : BOOLEAN, label : Teams \cup {Absent},
     count : 0..Cardinality(Names)]
VestaEnvironment ==
    [project : Projects, branch : Branches \cup {Absent}, auto : BOOLEAN,
     label : Projects \cup {Absent}, count : 0..Cardinality(Apps)]

\* An object in a controller's hands: as it was read, and whether it is still that.
Work(k) ==
    [name : NamesOf(k), seen : IF k = "project" THEN VestaProject ELSE VestaEnvironment,
     fresh : BOOLEAN, at : {"label", "namespace", "status"}]

Once(s) == \A i, j \in DOMAIN s : s[i] = s[j] => i = j

ASSUME EnvironmentsAssumption ==
    /\ ProjectOrder \in Seq(Projects) /\ Once(ProjectOrder)
    /\ NameOrder \in Seq(Names) /\ Once(NameOrder)
    /\ AppOrder \in Seq(Apps)
    /\ Home \in [Apps -> Projects]
    /\ Absent \notin Projects \cup Names \cup Branches \cup Teams
    /\ Absent \notin VestaProject \cup VestaEnvironment
    /\ \A k \in Controllers : Absent \notin Work(k)
    /\ Faults \in BOOLEAN

VARIABLES projects,   \* the VestaProject of each name, Absent when there is none
          crs,        \* the VestaEnvironment of each name, Absent when there is none
          apps,       \* the environments that each application names
          namespaces, \* <<project, environment>> that has its namespace
          req,        \* the requests
          queue,      \* what each controller has yet to look at
          work        \* what each controller is looking at

environmentVars == <<projects, crs, apps, namespaces, req, queue, work>>

-----------------------------------------------------------------------------
(* Objects *)

Stored(o) == IF o[1] = "project" THEN projects[o[2]] ELSE crs[o[2]]

Enqueue(q, o) ==
    IF \E i \in DOMAIN q[o[1]] : q[o[1]][i] = o[2] THEN q ELSE [q EXCEPT ![o[1]] = Append(@, o[2])]

\* A new version of o: those who have read the last find out when they write, and the
\* controller, which watches its own kind, hears of it.
Changed(o) ==
    /\ queue' = Enqueue(queue, o)
    /\ work'  = [k \in Controllers |->
                   IF k = o[1] /\ work[k] # Absent
                   THEN [work[k] EXCEPT !.fresh = @ /\ work[k].name # o[2]] ELSE work[k]]

\* r goes on as x, having written o.
Writes(r, x, o) ==
    /\ req' = [q \in Requests |-> [(IF q = r THEN x ELSE req[q]) EXCEPT !.fresh = @ \ {o}]]
    /\ Changed(o)

Becomes(r, x) == req' = [req EXCEPT ![r] = x]

NameSet(envs) == {envs[i].name : i \in DOMAIN envs}

\* A list may have a name twice, and a handler takes the first entry it finds by it.
PlaceOf(envs, n) ==
    CHOOSE i \in DOMAIN envs : envs[i].name = n /\ \A j \in 1..(i - 1) : envs[j].name # n
EntryOf(envs, n) == envs[PlaceOf(envs, n)]

Twice(envs, n) == \E i, j \in DOMAIN envs : i # j /\ envs[i].name = n /\ envs[j].name = n

IsProject(x)     == x \in VestaProject
IsEnvironment(x) == x \in VestaEnvironment

Set(x, change) == [f \in DOMAIN x |-> IF f \in DOMAIN change THEN change[f] ELSE x[f]]

\* What s has in the places that are kept, in its order: the k-th is the one up to which
\* there are k of them.
Only(s, kept) ==
    [k \in 1..Cardinality(kept) |-> s[CHOOSE i \in kept : Cardinality({j \in kept : j <= i}) = k]]

\* The entries that do not have the name.
Others(envs, n) == Only(envs, {i \in DOMAIN envs : envs[i].name # n})

-----------------------------------------------------------------------------
(* Requests *)

Asks(in) == [input |-> in, at |-> "idle", held |-> Absent, todo |-> <<>>, fresh |-> {}, ok |-> FALSE]

Edits == {"updateProject", "create", "clone", "update", "delete"}

\* A request is to one of the handlers, and changes settings only.
IsChange(c) ==
    /\ DOMAIN c \subseteq Settings
    /\ "branch" \in DOMAIN c => c.branch \in Branches \cup {Absent}
    /\ "auto" \in DOMAIN c => c.auto \in BOOLEAN

\* A project update may set any part of the spec, and a list of environments as a whole,
\* whatever names it has and however often.
IsBody(b) ==
    /\ DOMAIN b \subseteq {"envs", "team"}
    /\ "envs" \in DOMAIN b => b.envs \in Seq(Entry)
    /\ "team" \in DOMAIN b => b.team \in Teams \cup {Absent}

IsAsked(in) ==
    /\ in.op \in Edits \cup {"createProject", "deleteProject"}
    /\ in.project \in Projects
    /\ in.op \in {"create", "clone", "update", "delete"} => in.name \in Names
    /\ in.op \in {"create", "clone", "update"} => IsChange(in.change)
    /\ in.op = "createProject" => in.team \in Teams \cup {Absent}
    /\ in.op = "updateProject" => IsBody(in.body)

\* The labels the operator gives a project, and a VestaEnvironment.  A project without a team
\* keeps the label of the team it had.
ProjectLabelled(p)     == p.own /\ (p.team # Absent => p.label = p.team)
EnvironmentLabelled(e) == e.label = e.project

\* At the start no project has two environments by one name, and the operator has seen what
\* is not in its queues.
Possible(start) ==
    /\ \A p \in Projects :
          \/ start.projects[p] = Absent
          \/ IsProject(start.projects[p]) /\ \A n \in Names : ~Twice(start.projects[p].envs, n)
    /\ \A n \in Names : start.crs[n] = Absent \/ IsEnvironment(start.crs[n])
    /\ start.apps \in [Apps -> Seq(Names)]
    /\ \A r \in Requests : IsAsked(start.asked[r])
    /\ DOMAIN start.queue = Controllers
    /\ \A k \in Controllers : start.queue[k] \in Seq(NamesOf(k)) /\ Once(start.queue[k])
    /\ \A p \in Projects \ {start.queue.project[i] : i \in DOMAIN start.queue.project} :
          start.projects[p] # Absent => ProjectLabelled(start.projects[p])
    /\ \A n \in Names \ {start.queue.environment[i] : i \in DOMAIN start.queue.environment} :
          start.crs[n] # Absent => EnvironmentLabelled(start.crs[n])

ASSUME StartsAssumption == \A start \in Starts : Possible(start)

Reached(r, place) == req[r].at = place
In(r)        == req[r].input
TheProject(r) == <<"project", In(r).project>>
TheCR(r)      == <<"environment", In(r).name>>

Ended(r, ok) == [req[r] EXCEPT !.at = "done", !.held = Absent, !.todo = <<>>, !.fresh = {}, !.ok = ok]

Begin(r) ==
    /\ Reached(r, "idle")
    /\ Becomes(r, [req[r] EXCEPT !.at = CASE In(r).op = "createProject" -> "new"
                                          [] In(r).op = "deleteProject" -> "end"
                                          [] OTHER                      -> "get"])
    /\ UNCHANGED <<projects, crs, apps, namespaces, queue, work>>

CreateProject(r) ==
    /\ Reached(r, "new")
    /\ \/ /\ projects[In(r).project] = Absent
          /\ projects' = [projects EXCEPT ![In(r).project] =
                            [envs |-> <<>>, team |-> In(r).team, own |-> FALSE, label |-> Absent, count |-> 0]]
          /\ Writes(r, Ended(r, TRUE), TheProject(r))
       \/ /\ projects[In(r).project] # Absent \/ Faults
          /\ Becomes(r, Ended(r, FALSE))
          /\ UNCHANGED <<projects, queue, work>>
    /\ UNCHANGED <<crs, apps, namespaces>>

\* Nothing that belongs to the project goes with it.
DeleteProject(r) ==
    /\ Reached(r, "end")
    /\ \/ /\ projects[In(r).project] # Absent
          /\ projects' = [projects EXCEPT ![In(r).project] = Absent]
          /\ Writes(r, Ended(r, TRUE), TheProject(r))
       \/ /\ projects[In(r).project] = Absent \/ Faults
          /\ Becomes(r, Ended(r, FALSE))
          /\ UNCHANGED <<projects, queue, work>>
    /\ UNCHANGED <<crs, apps, namespaces>>

\* Mutant: nobody looks whether the name is taken.
Missing(r, envs) ==
    CASE In(r).op = "updateProject"            -> FALSE
      [] In(r).op = "create"                   -> FALSE
      [] In(r).op = "clone"                    -> In(r).source \notin NameSet(envs)
      [] OTHER                                 -> In(r).name \notin NameSet(envs)

\* What a handler refuses of what it has read: a name that is taken, or one that is missing.
Refused(r, envs) ==
    CASE In(r).op = "updateProject"            -> FALSE
      [] In(r).op = "create"                   -> In(r).name \in NameSet(envs)
      [] In(r).op = "clone"                    -> \/ In(r).source \notin NameSet(envs)
                                                  \/ In(r).name \in NameSet(envs)
      [] OTHER                                 -> In(r).name \notin NameSet(envs)

GetProject(r) ==
    /\ Reached(r, "get")
    /\ LET p == projects[In(r).project] IN
       Becomes(r, IF p = Absent THEN Ended(r, FALSE)
                  ELSE IF Refused(r, p.envs) THEN Ended(r, FALSE)
                  ELSE [req[r] EXCEPT !.at = "put", !.held = p, !.fresh = {TheProject(r)}])
    /\ UNCHANGED <<projects, crs, apps, namespaces, queue, work>>

\* What the project becomes.
NewSpec(r) ==
    LET p  == req[r].held
        in == In(r)
    IN  CASE in.op = "updateProject" -> Set(p, in.body)
          [] in.op = "create" ->
               [p EXCEPT !.envs = Append(@, Set([name |-> in.name, branch |-> Absent, auto |-> FALSE],
                                                in.change))]
          [] in.op = "clone" ->
               [p EXCEPT !.envs = Append(@, Set([EntryOf(@, in.source) EXCEPT !.name = in.name], in.change))]
          [] in.op = "update" ->
               [p EXCEPT !.envs[PlaceOf(p.envs, in.name)] = Set(@, in.change)]
          [] in.op = "delete" ->
               [p EXCEPT !.envs = Others(@, in.name)]

AfterPut(r) ==
    CASE In(r).op = "updateProject" -> Ended(r, TRUE)
      [] In(r).op = "create"        -> [req[r] EXCEPT !.at = "make", !.held = Absent]
      [] In(r).op = "update"        -> [req[r] EXCEPT !.at = "find", !.held = Absent]
      [] In(r).op = "delete"        -> [req[r] EXCEPT !.at = "drop", !.held = Absent]
      [] In(r).op = "clone"         -> [req[r] EXCEPT !.at = "list", !.held = Absent]

\* Mutant: the version that was read does not matter.
Forced(r, o) == Stored(o) # Absent

\* The API server takes a new version of what was read, and only of that.
Accepted(r, o) == o \in req[r].fresh

\* UpdateResource of the project, as a whole; labels and status are as they were read.
PutProject(r) ==
    /\ Reached(r, "put")
    /\ \/ /\ Accepted(r, TheProject(r))
          /\ projects' = [projects EXCEPT ![In(r).project] = NewSpec(r)]
          /\ IF NewSpec(r) = projects[In(r).project]
             THEN Becomes(r, AfterPut(r)) /\ UNCHANGED <<queue, work>>
             ELSE Writes(r, AfterPut(r), TheProject(r))
       \/ /\ ~Accepted(r, TheProject(r)) \/ Faults
          /\ Becomes(r, Ended(r, FALSE))
          /\ UNCHANGED <<projects, queue, work>>
    /\ UNCHANGED <<crs, apps, namespaces>>

\* A VestaEnvironment made by CreateEnvironment, or by UpdateEnvironment where there is none.
\* What becomes of it is only logged.
CreateCR(r) ==
    /\ Reached(r, "make")
    /\ \/ /\ crs[In(r).name] = Absent
          /\ crs' = [crs EXCEPT ![In(r).name] =
                       Set([project |-> In(r).project, branch |-> Absent, auto |-> FALSE,
                            label |-> In(r).project, count |-> 0], In(r).change)]
          /\ Writes(r, Ended(r, TRUE), TheCR(r))
       \/ /\ crs[In(r).name] # Absent \/ Faults
          /\ Becomes(r, Ended(r, TRUE))
          /\ UNCHANGED <<crs, queue, work>>
    /\ UNCHANGED <<projects, apps, namespaces>>

GetCR(r) ==
    /\ Reached(r, "find")
    /\ Becomes(r, IF crs[In(r).name] = Absent THEN [req[r] EXCEPT !.at = "make"]
                  ELSE [req[r] EXCEPT !.at = "change", !.held = crs[In(r).name], !.fresh = {TheCR(r)}])
    /\ UNCHANGED <<projects, crs, apps, namespaces, queue, work>>

\* UpdateResource of the VestaEnvironment.  A conflict is only logged.
PutCR(r) ==
    /\ Reached(r, "change")
    /\ LET new == Set(req[r].held, In(r).change) IN
       \/ /\ Accepted(r, TheCR(r))
          /\ crs' = [crs EXCEPT ![In(r).name] = new]
          /\ IF new = crs[In(r).name]
             THEN Becomes(r, Ended(r, TRUE)) /\ UNCHANGED <<queue, work>>
             ELSE Writes(r, Ended(r, TRUE), TheCR(r))
       \/ /\ ~Accepted(r, TheCR(r)) \/ Faults
          /\ Becomes(r, Ended(r, TRUE))
          /\ UNCHANGED <<crs, queue, work>>
    /\ UNCHANGED <<projects, apps, namespaces>>

\* Deleted by its name, whosever it is.
DeleteCR(r) ==
    /\ Reached(r, "drop")
    /\ \/ /\ crs[In(r).name] # Absent
          /\ crs' = [crs EXCEPT ![In(r).name] = Absent]
          /\ Writes(r, Ended(r, TRUE), TheCR(r))
       \/ /\ crs[In(r).name] = Absent \/ Faults
          /\ Becomes(r, Ended(r, TRUE))
          /\ UNCHANGED <<crs, queue, work>>
    /\ UNCHANGED <<projects, apps, namespaces>>

HasEnv(envs, n) == \E i \in DOMAIN envs : envs[i] = n

\* The applications of the project that have the source.
ListApps(r) ==
    /\ Reached(r, "list")
    /\ LET found == Only(AppOrder, {i \in DOMAIN AppOrder : Home[AppOrder[i]] = In(r).project
                                                           /\ HasEnv(apps[AppOrder[i]], In(r).source)})
       IN  Becomes(r, IF found = <<>> THEN Ended(r, TRUE)
                      ELSE [req[r] EXCEPT !.at = "patch", !.todo = found, !.held = apps])
    /\ UNCHANGED <<projects, crs, apps, namespaces, queue, work>>

\* A merge patch of the list that was read, with no version.
PatchApp(r) ==
    /\ Reached(r, "patch")
    /\ LET a    == Head(req[r].todo)
           rest == Tail(req[r].todo)
       IN  /\ \/ apps' = [apps EXCEPT ![a] = Append(req[r].held[a], In(r).name)]
              \/ Faults /\ UNCHANGED apps
           /\ Becomes(r, IF rest = <<>> THEN Ended(r, TRUE) ELSE [req[r] EXCEPT !.todo = rest])
    /\ UNCHANGED <<projects, crs, namespaces, queue, work>>

-----------------------------------------------------------------------------
(* The operator *)

Active == \E r \in Requests : ~Reached(r, "idle") /\ ~Reached(r, "done")

\* A controller takes up the next object; one that is gone is not its business.
Take(k) ==
    /\ work[k] = Absent
    /\ queue[k] # <<>>
    /\ LET o == <<k, Head(queue[k])>> IN
       work' = [work EXCEPT ![k] = IF Stored(o) = Absent THEN Absent
                                   ELSE [name |-> o[2], seen |-> Stored(o), fresh |-> TRUE, at |-> "label"]]
    /\ queue' = [queue EXCEPT ![k] = Tail(@)]
    /\ UNCHANGED <<projects, crs, apps, namespaces, req>>

Working(k, place) == work[k] # Absent /\ work[k].at = place
Object(k)         == <<k, work[k].name>>
GoesOn(k, place)  == work' = [work EXCEPT ![k].at = place]

\* The round ends with an error, and is made again.
Again(k) ==
    /\ queue' = Enqueue(queue, Object(k))
    /\ work'  = [work EXCEPT ![k] = Absent]

\* The operator writes x over the object it has read, and goes on at the place.
Rewrites(k, x, place) ==
    /\ IF k = "project" THEN projects' = [projects EXCEPT ![work[k].name] = x] /\ UNCHANGED crs
                        ELSE crs' = [crs EXCEPT ![work[k].name] = x] /\ UNCHANGED projects
    /\ req'   = [q \in Requests |-> [req[q] EXCEPT !.fresh = @ \ {Object(k)}]]
    /\ queue' = Enqueue(queue, Object(k))
    /\ work'  = [work EXCEPT ![k] = IF place = Absent THEN Absent
                                    ELSE [@ EXCEPT !.seen = x, !.at = place]]

\* Mutant: a label that is there is right.
LabelOnce(k, x) ==
    IF k = "project" THEN [x EXCEPT !.own = TRUE, !.label = IF @ = Absent THEN x.team ELSE @]
                     ELSE [x EXCEPT !.label = IF @ = Absent THEN x.project ELSE @]

Labelled(k, x) ==
    IF k = "project" THEN [x EXCEPT !.own = TRUE, !.label = IF x.team = Absent THEN @ ELSE x.team]
                     ELSE [x EXCEPT !.label = x.project]

Label(k) ==
    /\ Working(k, "label")
    /\ LET x    == work[k].seen
           next == IF k = "project" THEN "status" ELSE "namespace"
       IN  IF Labelled(k, x) = x THEN GoesOn(k, next) /\ UNCHANGED <<projects, crs, req, queue>>
           ELSE IF work[k].fresh THEN Rewrites(k, Labelled(k, x), next)
           ELSE Again(k) /\ UNCHANGED <<projects, crs, req>>
    /\ UNCHANGED <<apps, namespaces>>

\* CreateOrUpdate of the namespace of the environment as it was read.
EnsureNamespace ==
    /\ Working("environment", "namespace")
    /\ namespaces' = namespaces \cup {<<work["environment"].seen.project, work["environment"].name>>}
    /\ GoesOn("environment", "status")
    /\ UNCHANGED <<projects, crs, apps, req, queue>>

\* The environments that carry the label of the project; the applications of the project
\* that name the environment, or none at all.
Counted(k, x) ==
    IF k = "project"
    THEN Cardinality({n \in Names : crs[n] # Absent /\ crs[n].label = work[k].name})
    ELSE Cardinality({a \in Apps : Home[a] = x.project /\ (apps[a] = <<>> \/ HasEnv(apps[a], work[k].name))})

Status(k) ==
    /\ Working(k, "status")
    /\ LET x == work[k].seen
           y == [x EXCEPT !.count = Counted(k, x)]
       IN  IF ~work[k].fresh THEN Again(k) /\ UNCHANGED <<projects, crs, req>>
           ELSE IF y = x THEN work' = [work EXCEPT ![k] = Absent] /\ UNCHANGED <<projects, crs, req, queue>>
           ELSE Rewrites(k, y, Absent)
    /\ UNCHANGED <<apps, namespaces>>

\* A write of the operator's is refused.
OperatorFails(k) ==
    /\ Faults /\ Active
    /\ work[k] # Absent
    /\ Again(k)
    /\ UNCHANGED <<projects, crs, apps, namespaces, req>>

\* The work and the queues are lost, and all there is is queued anew.
OperatorRestarts ==
    /\ Faults /\ Active
    /\ \E k \in Controllers : work[k] # Absent
    /\ work'  = [k \in Controllers |-> Absent]
    /\ queue' = [k \in Controllers |->
                    IF k = "project"
                    THEN Only(ProjectOrder, {i \in DOMAIN ProjectOrder : projects[ProjectOrder[i]] # Absent})
                    ELSE Only(NameOrder, {i \in DOMAIN NameOrder : crs[NameOrder[i]] # Absent})]
    /\ UNCHANGED <<projects, crs, apps, namespaces, req>>

-----------------------------------------------------------------------------
\* The operator has seen what was stored before, unless the start says otherwise.
InitEnvironments ==
    /\ \E start \in Starts :
          /\ projects = [p \in Projects |-> start.projects[p]]
          /\ crs      = [n \in Names |-> start.crs[n]]
          /\ apps     = start.apps
          /\ queue    = start.queue
          /\ req      = [r \in Requests |-> Asks(start.asked[r])]
    /\ namespaces = {<<crs[n].project, n>> : n \in {n \in Names : crs[n] # Absent}}
    /\ work       = [k \in Controllers |-> Absent]

Step(r) ==
    \/ CreateProject(r)
    \/ DeleteProject(r)
    \/ GetProject(r)
    \/ PutProject(r)
    \/ CreateCR(r)
    \/ GetCR(r)
    \/ PutCR(r)
    \/ DeleteCR(r)
    \/ ListApps(r)
    \/ PatchApp(r)

Reconcile(k) == Take(k) \/ Label(k) \/ Status(k)

NextEnvironments ==
    \/ \E r \in Requests : Begin(r) \/ Step(r)
    \/ \E k \in Controllers : Reconcile(k) \/ OperatorFails(k)
    \/ EnsureNamespace
    \/ OperatorRestarts

\* Requests are served, and each controller works off its queue.
Fairness ==
    /\ \A r \in Requests : WF_environmentVars(Step(r))
    /\ \A k \in Controllers : WF_environmentVars(Reconcile(k))
    /\ WF_environmentVars(EnsureNamespace)

SpecEnvironments == InitEnvironments /\ [][NextEnvironments]_environmentVars /\ Fairness

-----------------------------------------------------------------------------
(* Properties *)

Places == {"idle", "new", "end", "get", "put", "make", "find", "change", "drop", "list", "patch", "done"}

\* What a request holds: the object it will write, or the applications it has listed.
HeldAt(place) ==
    CASE place = "put"    -> VestaProject
      [] place = "change" -> VestaEnvironment
      [] place = "patch"  -> [Apps -> Seq(Names)]
      [] OTHER            -> {Absent}

RequestOK(x) ==
    /\ DOMAIN x = {"input", "at", "held", "todo", "fresh", "ok"}
    /\ IsAsked(x.input)
    /\ x.at \in Places /\ x.held \in HeldAt(x.at)
    /\ x.todo \in Seq(Apps) /\ (x.at = "patch" => x.todo # <<>>)
    /\ x.fresh \subseteq Resources
    /\ x.ok \in BOOLEAN

\* Objects, requests and controllers are what they may be; an object is queued once; a clone
\* has an application to go on to, and an environment counts no more of them than there are.
EnvironmentsTypeOK ==
    /\ projects \in [Projects -> VestaProject \cup {Absent}]
    /\ crs \in [Names -> VestaEnvironment \cup {Absent}]
    /\ apps \in [Apps -> Seq(Names)]
    /\ namespaces \subseteq Projects \X Names
    /\ DOMAIN req = Requests /\ \A r \in Requests : RequestOK(req[r])
    /\ DOMAIN queue = Controllers
    /\ \A k \in Controllers : queue[k] \in Seq(NamesOf(k)) /\ Once(queue[k])
    /\ DOMAIN work = Controllers /\ \A k \in Controllers : work[k] \in Work(k) \cup {Absent}

\* A project update that was taken had the name twice in its list.
Doubled(p, n) ==
    \E r \in Requests :
       /\ Reached(r, "done") /\ req[r].ok
       /\ In(r).op = "updateProject" /\ In(r).project = p
       /\ "envs" \in DOMAIN In(r).body /\ Twice(In(r).body.envs, n)

\* A project lists two environments by one name only where an update of the whole project
\* gave it a list that has the name twice (UpdateProject takes any).  However creates, clones,
\* updates and removals meet, they add none: each looks for the name in a list it has read
\* before (CreateEnvironment, CloneEnvironment).
EnvsUnique ==
    \A p \in Projects, n \in Names :
       projects[p] # Absent /\ Twice(projects[p].envs, n) => Doubled(p, n)

\* The settings a step may change in the entry or the object of an environment.
May(r, x, y) == \A f \in Settings \ DOMAIN In(r).change : x[f] = y[f]

\* r writes its project.
WritesProject(r, p) == Reached(r, "put") /\ req'[r].at # "put" /\ In(r).project = p

EntriesKept(p) ==
    projects[p] # Absent /\ projects'[p] # Absent /\ projects'[p].envs # projects[p].envs =>
    \E r \in Requests :
       /\ WritesProject(r, p)
       /\ \/ /\ In(r).op = "updateProject" /\ "envs" \in DOMAIN In(r).body
             /\ projects'[p].envs = In(r).body.envs
          \/ /\ In(r).op \in {"create", "clone", "update", "delete"}
             /\ Others(projects'[p].envs, In(r).name) = Others(projects[p].envs, In(r).name)
             /\ In(r).op = "update" =>
                   May(r, EntryOf(projects[p].envs, In(r).name), EntryOf(projects'[p].envs, In(r).name))

TeamKept(p) ==
    projects[p] # Absent /\ projects'[p] # Absent /\ projects'[p].team # projects[p].team =>
    \E r \in Requests :
       /\ WritesProject(r, p)
       /\ In(r).op = "updateProject" /\ "team" \in DOMAIN In(r).body
       /\ projects'[p].team = In(r).body.team /\ projects'[p].label = projects[p].label
       /\ "envs" \in DOMAIN In(r).body \/ projects'[p].envs = projects[p].envs

ObjectKept(n) ==
    crs[n] # Absent /\ crs'[n] # Absent /\ crs'[n] # crs[n] =>
    \/ \A f \in {"project", "branch", "auto"} : crs'[n][f] = crs[n][f]
    \/ \E r \in Requests :
          /\ Reached(r, "change") /\ req'[r].at # "change" /\ In(r).name = n
          /\ May(r, crs[n], crs'[n])
          /\ \A f \in {"project", "label", "count"} : crs'[n][f] = crs[n][f]

\* What a handler has read of a project or a VestaEnvironment is never put back over what
\* came since.  A request about an environment leaves the entries of the others in its project
\* as the last write has them, and of its own the settings it does not name; an update of the
\* project sets the keys it has and no others, though when it has a list of environments it
\* replaces all of them, whoever wrote them.  A VestaEnvironment is changed by the requests
\* that name it, of whichever project, since it is found by its name alone; only the operator
\* writes labels and counts.
EditsKept ==
    [][/\ \A p \in Projects : EntriesKept(p) /\ TeamKept(p)
       /\ \A n \in Names : ObjectKept(n)]_environmentVars

\* An object has the labels by which it is listed, and an environment its namespace.
Settled(o) ==
    IF o[1] = "project" THEN ProjectLabelled(projects[o[2]])
    ELSE EnvironmentLabelled(crs[o[2]]) /\ <<crs[o[2]].project, o[2]>> \in namespaces

Awaits(o) ==
    \/ \E i \in DOMAIN queue[o[1]] : queue[o[1]][i] = o[2]
    \/ work[o[1]] # Absent /\ work[o[1]].name = o[2]

\* The operator overlooks nothing: an object that is neither in a queue nor in a controller's
\* hands has its labels and its namespace, as it is now, whatever was written, refused,
\* deleted, made anew or restarted since it was read.
NoneOverlooked == \A o \in Resources : Stored(o) # Absent => Awaits(o) \/ Settled(o)

\* Whatever fails or restarts on the way, each VestaEnvironment comes to carry the label of
\* its project and to have its namespace, and each project that has a team comes to carry
\* the label by which the projects of the team are listed.
LabelsFollow == <>[](\A o \in Resources : Stored(o) # Absent => Settled(o))

=============================================================================
