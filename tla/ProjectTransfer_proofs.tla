---------------------- MODULE ProjectTransfer_proofs ----------------------
(***************************************************************************)
(* Proofs about ProjectTransfer: for any source, any number of requests    *)
(* and any edits, an installation has one identity, a project is the work  *)
(* of one import, and an import that ends well has brought everything.     *)
(***************************************************************************)
EXTENDS ProjectTransfer, FiniteSetTheorems, TLAPS

-----------------------------------------------------------------------------
(* Transfers *)

Fields     == {"at", "key", "todo", "has", "bundle", "into", "clean", "quiet"}
Identified == {"known", "done", "check", "apply", "make"}
Exporting  == {"apps", "config", "registry", "done"}

Frames == DOMAIN req = Requests /\ \A r \in Requests : DOMAIN req[r] = Fields

\* What is stored, and who made it.
World ==
    /\ <<"project">> \in DOMAIN source
    /\ \A o \in DOMAIN source : WellFormed(o, source[o])
    /\ \A n \in DOMAIN target : WellPlaced(n, target[n])
    /\ DOMAIN maker = DOMAIN target
    /\ \A o \in DOMAIN maker : maker[o] \in Imports \cup {None}
    /\ key \in Imports \cup Readers \cup {None}
    /\ users \in 0..MaxUser

\* The key a request has is its own until one is stored, and then the one that is stored.
Identity(r) ==
    /\ req[r].at \in {"idle", "store", "reread", "failed"} \cup Identified
    /\ req[r].at = "store" => req[r].key = r
    /\ req[r].at \in {"reread"} \cup Identified => key # None
    /\ req[r].at \in Identified => req[r].key = key

KeyTyped(r) == req[r].key \in Imports \cup Readers \cup {None} \cup Elsewhere

\* What an export has is well formed, and what it has to read is configuration.
ToRead(t) == \E k \in Config, e \in Elements(EnvOrder) :
                t[1] \in DOMAIN NameOrder /\ t[2] = <<k, NameOrder[t[1]], e>>

Holding(x) ==
    /\ req[x].at \in {"idle", "failed"} \cup Exporting
    /\ req[x].at \in Exporting => <<"project">> \in DOMAIN req[x].has
    /\ \A o \in DOMAIN req[x].has : WellFormed(o, req[x].has[o])
    /\ \A t \in req[x].todo : ToRead(t)

Same(x, o) == o \in DOMAIN req[x].has /\ req[x].has[o] = source[o]

\* What a clean and quiet export has so far is what is stored.
Complete(x) ==
    req[x].clean /\ req[x].quiet =>
       /\ req[x].at \in Exporting => Same(x, <<"project">>)
       /\ req[x].at \in Exporting \ {"apps"} => \A o \in Of(source, "app") : Same(x, o)
       /\ \A o \in DOMAIN source : o[1] \in Config /\ Belongs(o) =>
             /\ req[x].at = "config" => Same(x, o) \/ \E t \in req[x].todo : t[2] = o
             /\ req[x].at \in {"registry", "done"} => Same(x, o)
       /\ req[x].at \in {"registry", "done"} => Of(source, "shared") \subseteq DOMAIN req[x].has
       /\ req[x].at = "done" =>
             \A o \in Of(source, "registry") : Belongs(o) => o \in DOMAIN req[x].has

\* An import is of a bundle that is sealed.
Bound(i) ==
    req[i].at # "idle" =>
       req[i].bundle \in Exports /\ At(req[i].bundle, "done") /\ req[i].into \in As

IsSpace(n, p) == n = <<"namespace", n[2], p>> /\ n[2] \in Elements(EnvOrder)

\* What an import may have to create: credentials come first, and then the project.
Task(i, t) ==
    /\ t[1] \in Nat
    /\ t[1] \in {0, 1} => t[2][1] = "registry"
    /\ t[1] = 2 => t[2] = <<"project", req[i].into>>
    /\ \/ IsSpace(t[2], req[i].into)
       \/ \E o \in DOMAIN Payload(i) : t[2] = NameIn(o, req[i].into)

Tasks(i) ==
    /\ req[i].at \in {"idle", "store", "reread", "known", "check", "done"} => req[i].todo = {}
    /\ \A t \in req[i].todo : Task(i, t)

\* The project is still to be created, or it is this import that has.
Opened(i) ==
    req[i].at \in {"apply", "make"} =>
       \/ <<2, <<"project", req[i].into>>>> \in req[i].todo
       \/ /\ <<"project", req[i].into>> \in DOMAIN target
          /\ maker[<<"project", req[i].into>>] = i

\* Every object of the bundle is there or still to be created.
Brought(i, o) ==
    LET n == NameIn(o, req[i].into) IN
    /\ n \in DOMAIN target
    /\ o[1] \notin {"registry", "shared"} => target[n] = ContentIn(o, Payload(i)[o], req[i].into)

Left(i) ==
    req[i].at \in {"apply", "make", "done"} =>
       \A o \in DOMAIN Payload(i) :
          Brought(i, o) \/ \E t \in req[i].todo : t[2] = NameIn(o, req[i].into)

Exported(x) == Holding(x) /\ Complete(x)
Imported(i) == Bound(i) /\ Tasks(i) /\ Opened(i) /\ Left(i)

IInv ==
    /\ Frames /\ World /\ ProjectOfOne
    /\ \A r \in Requests : KeyTyped(r)
    /\ \A r \in Imports \cup Readers : Identity(r)
    /\ \A x \in Exports : Exported(x)
    /\ \A i \in Imports : Imported(i)

-----------------------------------------------------------------------------
(* One request moves *)

Only(r) ==
    /\ DOMAIN req' = Requests /\ DOMAIN req'[r] = Fields
    /\ \A s \in Requests \ {r} : req'[s] = req[s]

\* Nothing that is stored at the target changes, and a key that is stored stays.
Grows ==
    /\ DOMAIN target \subseteq DOMAIN target'
    /\ \A o \in DOMAIN target : target'[o] = target[o] /\ maker'[o] = maker[o]
    /\ key # None => key' = key

\* Bundles that are sealed stay as they are.
Stay == \A x \in Exports : At(x, "done") => At(x, "done")' /\ req'[x].has = req[x].has

LEMMA Moves ==
    ASSUME Frames, NEW r \in Requests, NEW z, DOMAIN z = Fields, Becomes(r, z)
    PROVE  Only(r) /\ req'[r] = z
  BY DEF Frames, Becomes, Only

LEMMA RefusalMoves ==
    ASSUME Frames, NEW r \in Requests, NEW z, DOMAIN z = Fields, Refused(r, z)
    PROVE  Only(r) /\ req'[r] = [z EXCEPT !.clean = FALSE]
  BY Moves DEF Refused, Fields

LEMMA SameExport ==
    ASSUME NEW x \in Exports, Exported(x), req'[x] = req[x], source' = source
    PROVE  Exported(x)'
  BY DEF Exported, Holding, Complete, Same, Of, Belongs, Runs, WellFormed, Named, Holds, IsApp, IsProject

LEMMA SameTask ==
    ASSUME NEW i \in Imports, Payload(i)' = Payload(i), req'[i].into = req[i].into,
           NEW t, Task(i, t)
    PROVE  Task(i, t)'
  BY DEF Task, IsSpace, NameIn

LEMMA SameImport ==
    ASSUME NEW i \in Imports, Imported(i), req'[i] = req[i], Grows, Stay
    PROVE  Imported(i)'
  <1>1. Bound(i)'
    BY DEF Imported, Bound, Stay, At
  <1>2. req[i].at # "idle" => Payload(i)' = Payload(i)
    BY DEF Imported, Bound, Stay, Payload
  <1>3. Tasks(i)'
    <2>1. CASE req[i].at = "idle"
      BY <2>1 DEF Imported, Tasks
    <2>2. CASE req[i].at # "idle"
      BY <1>2, <2>2, SameTask DEF Imported, Tasks
    <2>3. QED
      BY <2>1, <2>2
  <1>4. Opened(i)'
    BY DEF Imported, Opened, Grows
  <1>5. Left(i)'
    <2>1. ASSUME req[i].at # "idle", NEW o \in DOMAIN Payload(i), Brought(i, o)
          PROVE  Brought(i, o)'
      BY <1>2, <2>1 DEF Brought, NameIn, ContentIn, Grows
    <2>2. QED
      BY <1>2, <2>1 DEF Imported, Left, NameIn
  <1>6. QED
    BY <1>1, <1>3, <1>4, <1>5 DEF Imported

LEMMA SameIdentity ==
    ASSUME NEW r \in Requests, Identity(r), req'[r] = req[r], key # None => key' = key
    PROVE  Identity(r)'
  BY DEF Identity, Identified

\* What is to be shown of a step of request r.
LEMMA OneMoves ==
    ASSUME IInv, NEW r \in Requests, Only(r), UNCHANGED source, Grows,
           World', ProjectOfOne', KeyTyped(r)',
           r \in Imports \cup Readers => Identity(r)',
           r \in Exports => ~At(r, "done") /\ Exported(r)',
           r \in Imports => (Stay => Imported(r)')
    PROVE  IInv'
  <1>1. Frames'
    BY DEF IInv, Frames, Only
  <1>2. \A s \in Requests : KeyTyped(s)'
    BY DEF IInv, KeyTyped, Only
  <1>3. ASSUME NEW s \in Imports \cup Readers PROVE Identity(s)'
    <2>1. CASE s = r
      BY <2>1
    <2>2. CASE s # r
      BY <2>2, SameIdentity DEF IInv, Only, Requests, Grows
    <2>3. QED
      BY <2>1, <2>2
  <1>4. ASSUME NEW x \in Exports PROVE Exported(x)'
    <2>1. CASE x = r
      BY <2>1
    <2>2. CASE x # r
      BY <2>2, SameExport DEF IInv, Only, Requests, Grows
    <2>3. QED
      BY <2>1, <2>2
  <1>5. Stay
    BY DEF Stay, At, Only, Requests
  <1>6. ASSUME NEW i \in Imports PROVE Imported(i)'
    <2>1. CASE i = r
      BY <1>5, <2>1
    <2>2. CASE i # r
      BY <1>5, <2>2, SameImport DEF IInv, Only, Requests
    <2>3. QED
      BY <2>1, <2>2
  <1>7. QED
    BY <1>1, <1>2, <1>3, <1>4, <1>6 DEF IInv

LEMMA SameWorld ==
    ASSUME World, ProjectOfOne, UNCHANGED <<source, target, maker, users>>,
           key' \in Imports \cup Readers \cup {None}
    PROVE  World' /\ ProjectOfOne'
  BY DEF World, WellFormed, WellPlaced, Placed, Named, Holds, IsApp, IsProject, ProjectOfOne, InProject

-----------------------------------------------------------------------------
(* The identity *)

\* An import that has created nothing yet.
LEMMA NotYet ==
    ASSUME NEW i \in Imports, Bound(i)', req'[i].todo = {},
           req'[i].at \in {"idle", "store", "reread", "known", "check", "failed"}
    PROVE  Imported(i)'
  BY DEF Imported, Tasks, Opened, Left

\* A step of a request on its way to the key.
LEMMA Identifies ==
    ASSUME IInv, NEW r \in Imports \cup Readers, Only(r), UNCHANGED <<source, target, maker, users>>,
           req[r].at \in {"idle", "store", "reread"},
           key' \in Imports \cup Readers \cup {None}, key # None => key' = key,
           KeyTyped(r)', Identity(r)', req'[r].at \in {"store", "reread", "known", "failed"},
           req'[r].todo = req[r].todo,
           r \in Imports => /\ req'[r].bundle \in Exports /\ At(req'[r].bundle, "done")
                            /\ req'[r].into \in As
    PROVE  IInv'
  <1>1. World' /\ ProjectOfOne' /\ Grows
    BY SameWorld DEF IInv, Grows
  <1>2. r \in Requests /\ r \notin Exports
    BY TransferAssumption DEF Requests
  <1>3. ASSUME r \in Imports, Stay PROVE Imported(r)'
    <2>1. Bound(r)'
      BY <1>3 DEF Bound, Stay, At
    <2>2. req[r].todo = {}
      BY <1>3 DEF IInv, Imported, Tasks
    <2>3. QED
      BY <1>3, <2>1, <2>2, NotYet
  <1>4. QED
    BY <1>1, <1>2, <1>3, OneMoves

LEMMA ReadsIdentity ==
    ASSUME IInv, NEW r \in Imports \cup Readers, ReadIdentity(r)
    PROVE  IInv'
  <1>1. r \in Requests /\ Frames /\ DOMAIN req[r] = Fields
    BY DEF Requests, IInv, Frames
  <1>2. PICK x \in IF r \in Imports THEN Sealed ELSE {None}, n \in IF r \in Imports THEN As ELSE {None} :
           LET new == [req[r] EXCEPT !.bundle = x, !.into = n] IN
           \/ Becomes(r, IF key = None THEN [new EXCEPT !.at = "store", !.key = r]
                         ELSE [new EXCEPT !.at = "known", !.key = key])
           \/ Refused(r, [new EXCEPT !.at = "failed"])
    BY DEF ReadIdentity
  <1> DEFINE new == [req[r] EXCEPT !.bundle = x, !.into = n]
  <1>3. DOMAIN new = Fields /\ new.bundle = x /\ new.into = n /\ new.todo = req[r].todo /\ new.key = req[r].key
    BY <1>1 DEF Fields
  <1>4. r \in Imports => x \in Exports /\ At(x, "done") /\ n \in As
    BY DEF Sealed
  <1>5. UNCHANGED <<source, target, maker, key, users>> /\ req[r].at = "idle"
    BY DEF ReadIdentity, At
  <1> HIDE DEF new
  <1>6. CASE Becomes(r, [new EXCEPT !.at = "store", !.key = r]) /\ key = None
    <2>1. Only(r) /\ req'[r] = [new EXCEPT !.at = "store", !.key = r]
      BY <1>1, <1>3, <1>6, Moves
    <2>2. /\ req'[r].at = "store" /\ req'[r].key = r /\ req'[r].bundle = x /\ req'[r].into = n
          /\ req'[r].todo = req[r].todo
      BY <1>3, <2>1 DEF Fields
    <2>3. KeyTyped(r)' /\ Identity(r)'
      BY <2>2 DEF KeyTyped, Identity, Identified
    <2>4. QED
      BY <1>4, <1>5, <2>1, <2>2, <2>3, Identifies DEF IInv, World
  <1>7. CASE Becomes(r, [new EXCEPT !.at = "known", !.key = key]) /\ key # None
    <2>1. Only(r) /\ req'[r] = [new EXCEPT !.at = "known", !.key = key]
      BY <1>1, <1>3, <1>7, Moves
    <2>2. /\ req'[r].at = "known" /\ req'[r].key = key /\ req'[r].bundle = x /\ req'[r].into = n
          /\ req'[r].todo = req[r].todo
      BY <1>3, <2>1 DEF Fields
    <2>3. KeyTyped(r)' /\ Identity(r)'
      BY <1>5, <1>7, <2>2 DEF KeyTyped, Identity, Identified, IInv, World
    <2>4. QED
      BY <1>4, <1>5, <2>1, <2>2, <2>3, Identifies DEF IInv, World
  <1>8. CASE Refused(r, [new EXCEPT !.at = "failed"])
    <2> DEFINE z == [new EXCEPT !.at = "failed"]
    <2>1. /\ DOMAIN z = Fields /\ z.at = "failed" /\ z.bundle = x /\ z.into = n /\ z.todo = req[r].todo
          /\ z.key = req[r].key
      BY <1>3 DEF Fields
    <2> HIDE DEF z
    <2>2. Only(r) /\ req'[r] = [z EXCEPT !.clean = FALSE]
      BY <1>1, <1>8, <2>1, RefusalMoves DEF z
    <2>3. /\ req'[r].at = "failed" /\ req'[r].bundle = x /\ req'[r].into = n /\ req'[r].todo = req[r].todo
          /\ req'[r].key = req[r].key
      BY <2>1, <2>2 DEF Fields
    <2>4. KeyTyped(r)' /\ Identity(r)'
      BY <1>1, <2>3 DEF KeyTyped, Identity, Identified, IInv
    <2>5. QED
      BY <1>4, <1>5, <2>2, <2>3, <2>4, Identifies DEF IInv, World
  <1>9. QED
    BY <1>2, <1>6, <1>7, <1>8 DEF new

\* A request that only goes to another place.
Leaves(r, place) ==
    /\ Only(r) /\ req'[r].at = place /\ req'[r].key = req[r].key /\ req'[r].todo = req[r].todo
    /\ req'[r].has = req[r].has /\ req'[r].bundle = req[r].bundle /\ req'[r].into = req[r].into
    /\ req'[r].quiet = req[r].quiet

LEMMA PlaceMoves ==
    ASSUME Frames, NEW r \in Requests, NEW place, Becomes(r, Place(r, place))
    PROVE  Leaves(r, place) /\ req'[r].clean = req[r].clean
  <1>1. DOMAIN req[r] = Fields
    BY DEF Frames
  <1> DEFINE z == [req[r] EXCEPT !.at = place]
  <1>2. /\ DOMAIN z = Fields /\ z.at = place /\ z.key = req[r].key /\ z.todo = req[r].todo
        /\ z.has = req[r].has /\ z.bundle = req[r].bundle
    BY <1>1 DEF Fields
  <1>3. z.into = req[r].into /\ z.clean = req[r].clean /\ z.quiet = req[r].quiet
    BY <1>1 DEF Fields
  <1>4. Becomes(r, z)
    BY DEF Place
  <1> HIDE DEF z
  <1>5. QED
    BY <1>2, <1>3, <1>4, Moves DEF Leaves

LEMMA PlaceRefused ==
    ASSUME Frames, NEW r \in Requests, NEW place, Refused(r, Place(r, place))
    PROVE  Leaves(r, place) /\ req'[r].clean = FALSE
  <1>1. DOMAIN req[r] = Fields
    BY DEF Frames
  <1> DEFINE z == [[req[r] EXCEPT !.at = place] EXCEPT !.clean = FALSE]
  <1>2. /\ DOMAIN z = Fields /\ z.at = place /\ z.key = req[r].key /\ z.todo = req[r].todo
        /\ z.has = req[r].has /\ z.bundle = req[r].bundle
    BY <1>1 DEF Fields
  <1>3. z.into = req[r].into /\ z.clean = FALSE /\ z.quiet = req[r].quiet
    BY <1>1 DEF Fields
  <1>4. Becomes(r, z)
    BY DEF Place, Refused
  <1> HIDE DEF z
  <1>5. QED
    BY <1>2, <1>3, <1>4, Moves DEF Leaves

\* A request gives up: what it leaves behind is of no consequence.
LEMMA GivesUp ==
    ASSUME IInv, NEW r \in Requests, Refused(r, Place(r, "failed")) \/ Becomes(r, Place(r, "failed")),
           ~At(r, "done"), ~At(r, "idle"), UNCHANGED <<source, target, maker, key, users>>
    PROVE  IInv'
  <1>1. Leaves(r, "failed")
    BY PlaceMoves, PlaceRefused DEF IInv
  <1>2. World' /\ ProjectOfOne' /\ Grows
    BY SameWorld DEF IInv, Grows, World
  <1>3. KeyTyped(r)' /\ (r \in Imports \cup Readers => Identity(r)')
    BY <1>1 DEF IInv, KeyTyped, Leaves, Identity, Identified
  <1>4. r \in Exports => Exported(r)'
    BY <1>1 DEF IInv, Leaves, Exported, Holding, ToRead, Complete, Exporting,
                WellFormed, Named, Holds, IsApp, IsProject
  <1>5. ASSUME r \in Imports, Stay PROVE Imported(r)'
    <2>1. Bound(r)
      BY <1>5 DEF IInv, Imported
    <2>2. Bound(r)' /\ Payload(r)' = Payload(r)
      BY <1>1, <1>5, <2>1 DEF Bound, Leaves, Stay, At, Payload
    <2>3. Tasks(r)'
      BY <1>1, <1>5, <2>2, SameTask DEF IInv, Imported, Leaves, Tasks
    <2>4. QED
      BY <1>1, <2>2, <2>3 DEF Imported, Opened, Left, Leaves
  <1>6. QED
    BY <1>1, <1>2, <1>3, <1>4, <1>5, OneMoves DEF Leaves

LEMMA StoresIdentity ==
    ASSUME IInv, NEW r \in Imports \cup Readers, StoreIdentity(r)
    PROVE  IInv'
  <1>1. r \in Requests /\ Frames /\ DOMAIN req[r] = Fields
    BY DEF Requests, IInv, Frames
  <1>2. req[r].at = "store" /\ req[r].key = r /\ UNCHANGED <<source, target, maker, users>>
    BY DEF StoreIdentity, At, IInv, Identity
  <1>3. /\ r \in Imports => /\ req[r].bundle \in Exports /\ At(req[r].bundle, "done")
                            /\ req[r].into \in As
        /\ key \in Imports \cup Readers \cup {None}
    BY <1>2 DEF IInv, Imported, Bound, World
  <1>4. r # None
    BY <1>1, TransferAssumption
  <1>5. CASE key = None /\ key' = r /\ Becomes(r, Place(r, "known"))
    <2>1. Leaves(r, "known")
      BY <1>1, <1>5, PlaceMoves
    <2>2. KeyTyped(r)' /\ Identity(r)'
      BY <1>2, <1>4, <1>5, <2>1 DEF Leaves, KeyTyped, Identity, Identified
    <2>3. QED
      BY <1>2, <1>3, <1>5, <2>1, <2>2, Identifies DEF Leaves
  <1>6. CASE key # None /\ Becomes(r, Rereads(r)) /\ UNCHANGED key
    <2> DEFINE z == [[req[r] EXCEPT !.at = "reread"] EXCEPT !.key = None]
    <2>1. /\ DOMAIN z = Fields /\ z.at = "reread" /\ z.key = None /\ z.todo = req[r].todo
          /\ z.bundle = req[r].bundle /\ z.into = req[r].into
      BY <1>1 DEF Fields
    <2>2. Becomes(r, z)
      BY <1>6 DEF Rereads, Place
    <2> HIDE DEF z
    <2>3. Only(r) /\ req'[r] = z
      BY <1>1, <2>1, <2>2, Moves
    <2>4. KeyTyped(r)' /\ Identity(r)'
      BY <1>6, <2>1, <2>3 DEF KeyTyped, Identity, Identified
    <2>5. QED
      BY <1>2, <1>3, <1>6, <2>1, <2>3, <2>4, Identifies
  <1>7. CASE Refused(r, Place(r, "failed")) /\ UNCHANGED key
    BY <1>1, <1>2, <1>7, GivesUp DEF At
  <1>8. QED
    BY <1>5, <1>6, <1>7 DEF StoreIdentity

LEMMA RereadsIdentity ==
    ASSUME IInv, NEW r \in Imports \cup Readers, RereadIdentity(r)
    PROVE  IInv'
  <1>1. r \in Requests /\ Frames /\ DOMAIN req[r] = Fields
    BY DEF Requests, IInv, Frames
  <1>2. req[r].at = "reread" /\ key # None /\ UNCHANGED <<source, target, maker, key, users>>
    BY DEF RereadIdentity, At, IInv, Identity
  <1>3. /\ r \in Imports => /\ req[r].bundle \in Exports /\ At(req[r].bundle, "done")
                            /\ req[r].into \in As
        /\ key \in Imports \cup Readers \cup {None}
    BY <1>2 DEF IInv, Imported, Bound, World
  <1>4. CASE Becomes(r, [Place(r, "known") EXCEPT !.key = key])
    <2> DEFINE z == [[req[r] EXCEPT !.at = "known"] EXCEPT !.key = key]
    <2>1. /\ DOMAIN z = Fields /\ z.at = "known" /\ z.key = key /\ z.todo = req[r].todo
          /\ z.bundle = req[r].bundle /\ z.into = req[r].into
      BY <1>1 DEF Fields
    <2>2. Becomes(r, z)
      BY <1>4 DEF Place
    <2> HIDE DEF z
    <2>3. Only(r) /\ req'[r] = z
      BY <1>1, <2>1, <2>2, Moves
    <2>4. KeyTyped(r)' /\ Identity(r)'
      BY <1>2, <1>3, <2>1, <2>3 DEF KeyTyped, Identity, Identified
    <2>5. QED
      BY <1>2, <1>3, <2>1, <2>3, <2>4, Identifies
  <1>5. CASE Refused(r, Place(r, "failed"))
    BY <1>1, <1>2, <1>5, GivesUp DEF At
  <1>6. QED
    BY <1>4, <1>5 DEF RereadIdentity

LEMMA Publishes ==
    ASSUME IInv, NEW g \in Readers, Publish(g)
    PROVE  IInv'
  <1>1. g \in Requests /\ g \notin Exports /\ g \notin Imports /\ Frames
    BY TransferAssumption DEF Requests, IInv
  <1>2. req[g].at = "known" /\ UNCHANGED <<source, target, maker, key, users>>
    BY DEF Publish, At
  <1>3. Leaves(g, "done")
    BY <1>1, PlaceMoves DEF Publish
  <1>4. World' /\ ProjectOfOne' /\ Grows
    BY <1>2, SameWorld DEF IInv, Grows, World
  <1>5. KeyTyped(g)' /\ Identity(g)'
    BY <1>1, <1>2, <1>3 DEF IInv, KeyTyped, Leaves, Identity, Identified
  <1>6. QED
    BY <1>1, <1>2, <1>3, <1>4, <1>5, OneMoves DEF Leaves

-----------------------------------------------------------------------------
(* Exports *)

LEMMA ExportMoves ==
    ASSUME IInv, NEW x \in Exports, Only(x), UNCHANGED <<source, target, maker, key, users>>,
           ~At(x, "done"), KeyTyped(x)', Exported(x)'
    PROVE  IInv'
  <1>1. World' /\ ProjectOfOne' /\ Grows
    BY SameWorld DEF IInv, Grows, World
  <1>2. x \in Requests /\ x \notin Imports \cup Readers
    BY TransferAssumption DEF Requests
  <1>3. QED
    BY <1>1, <1>2, OneMoves

LEMMA ReadsProject ==
    ASSUME IInv, NEW x \in Exports, ReadProject(x)
    PROVE  IInv'
  <1>1. x \in Requests /\ Frames /\ DOMAIN req[x] = Fields
    BY DEF Requests, IInv, Frames
  <1>2. req[x].at = "idle" /\ UNCHANGED <<source, target, maker, key, users>>
    BY DEF ReadProject, At
  <1>3. PICK k \in Published \cup Elsewhere :
          \/ Becomes(x, [Place(x, "apps") EXCEPT
                           !.key = k, !.has = With(Nothing, <<"project">>, source[<<"project">>])])
          \/ Refused(x, Place(x, "failed"))
    BY DEF ReadProject
  <1>4. k \in Imports \cup Readers \cup {None} \cup Elsewhere
    BY DEF Published, IInv, KeyTyped, Requests
  <1> DEFINE has == With(Nothing, <<"project">>, source[<<"project">>])
             z   == [[req[x] EXCEPT !.at = "apps"] EXCEPT !.key = k, !.has = has]
  <1>5. DOMAIN has = {<<"project">>} /\ has[<<"project">>] = source[<<"project">>]
    BY DEF With, Nothing
  <1> HIDE DEF has
  <1>6. CASE Becomes(x, [Place(x, "apps") EXCEPT !.key = k, !.has = has])
    <2>1. DOMAIN z = Fields /\ z.at = "apps" /\ z.key = k /\ z.has = has /\ z.todo = req[x].todo
      BY <1>1 DEF Fields
    <2>2. Becomes(x, z)
      BY <1>6 DEF Place
    <2> HIDE DEF z
    <2>3. Only(x) /\ req'[x] = z
      BY <1>1, <2>1, <2>2, Moves
    <2>4. Exported(x)'
      <3>1. World /\ Holding(x)
        BY DEF IInv, Exported
      <3>2. Holding(x)'
        BY <1>2, <1>5, <2>1, <2>3, <3>1 DEF World, Holding, ToRead, Exporting,
                                            WellFormed, Named, Holds, IsApp, IsProject
      <3>3. Complete(x)'
        BY <1>2, <1>5, <2>1, <2>3 DEF Complete, Same, Exporting
      <3>4. QED
        BY <3>2, <3>3 DEF Exported
    <2>5. QED
      BY <1>2, <1>4, <2>1, <2>3, <2>4, ExportMoves DEF KeyTyped, At
  <1>7. CASE Refused(x, Place(x, "failed"))
    <2>1. Leaves(x, "failed")
      BY <1>1, <1>7, PlaceRefused
    <2>2. KeyTyped(x)' /\ Exported(x)'
      BY <1>1, <2>1 DEF IInv, KeyTyped, Leaves, Exported, Holding, Complete, Exporting
    <2>3. QED
      BY <1>2, <2>1, <2>2, ExportMoves DEF At, Leaves
  <1>8. QED
    BY <1>3, <1>6, <1>7 DEF has

\* What an export has when it has collected what was found.
LEMMA Collection ==
    ASSUME NEW x, DOMAIN req[x] = Fields, NEW found, NEW place
    PROVE  LET z == Collect(x, found, place) IN
           /\ DOMAIN z = Fields /\ z.at = place /\ z.key = req[x].key /\ z.todo = req[x].todo
           /\ z.clean = req[x].clean /\ z.quiet = req[x].quiet
           /\ DOMAIN z.has = DOMAIN req[x].has \cup DOMAIN found
           /\ \A o \in DOMAIN z.has : z.has[o] = IF o \in DOMAIN found THEN found[o] ELSE req[x].has[o]
  <1> DEFINE has == [o \in DOMAIN req[x].has \cup DOMAIN found |->
                       IF o \in DOMAIN found THEN found[o] ELSE req[x].has[o]]
             y   == [req[x] EXCEPT !.at = place]
             z   == [y EXCEPT !.has = has]
  <1>1. /\ DOMAIN y = Fields /\ y.at = place /\ y.key = req[x].key /\ y.todo = req[x].todo
        /\ y.clean = req[x].clean /\ y.quiet = req[x].quiet /\ y.has = req[x].has
    BY DEF Fields
  <1>2. Collect(x, found, place) = z
    BY <1>1 DEF Collect, Place
  <1>3. /\ DOMAIN has = DOMAIN req[x].has \cup DOMAIN found
        /\ \A o \in DOMAIN has : has[o] = IF o \in DOMAIN found THEN found[o] ELSE req[x].has[o]
    OBVIOUS
  <1> HIDE DEF has, y
  <1>4. DOMAIN z = Fields /\ z.at = y.at /\ z.key = y.key /\ z.todo = y.todo
    BY <1>1 DEF Fields
  <1>5. z.clean = y.clean /\ z.quiet = y.quiet /\ z.has = has
    BY <1>1 DEF Fields
  <1> HIDE DEF z
  <1>6. QED
    BY <1>1, <1>2, <1>3, <1>4, <1>5

\* A call is refused and the export goes on without its answer.
LEMMA ExportRefused ==
    ASSUME IInv, NEW x \in Exports, NEW place \in Exporting, req[x].at \in Exporting \ {"done"},
           Refused(x, Place(x, place)), UNCHANGED <<source, target, maker, key, users>>
    PROVE  IInv'
  <1>1. x \in Requests /\ Frames
    BY DEF Requests, IInv
  <1>2. Leaves(x, place) /\ req'[x].clean = FALSE
    BY <1>1, PlaceRefused
  <1>3. KeyTyped(x)' /\ Exported(x)'
    BY <1>1, <1>2 DEF IInv, KeyTyped, Leaves, Exported, Holding, Complete, WellFormed, Named, Holds, IsApp, IsProject
  <1>4. QED
    BY <1>2, <1>3, ExportMoves DEF At, Leaves

LEMMA ListsApps ==
    ASSUME IInv, NEW x \in Exports, ListApps(x)
    PROVE  IInv'
  <1>1. x \in Requests /\ Frames /\ DOMAIN req[x] = Fields /\ Exported(x) /\ World
    BY DEF Requests, IInv, Frames
  <1>2. req[x].at = "apps" /\ UNCHANGED <<source, target, maker, key, users>>
    BY DEF ListApps, At
  <1> DEFINE Envs(a)    == Inherited(source[<<"app", a>>], req[x].has[<<"project">>])
             Reads(i, a) == {<<i, <<k, a, e>>>> : k \in Config, e \in Envs(a)}
             todo       == UNION {Reads(i, NameOrder[i]) : i \in Apps(source)}
             apps       == [o \in Of(source, "app") |-> source[o]]
             y          == Collect(x, apps, "config")
             z          == [y EXCEPT !.todo = todo]
  <1>3. Becomes(x, z) \/ Refused(x, Place(x, "failed"))
    BY DEF ListApps
  <1>4. CASE Becomes(x, z)
    <2>1. DOMAIN apps = Of(source, "app") /\ \A o \in Of(source, "app") : apps[o] = source[o]
      OBVIOUS
    <2>2. ASSUME Same(x, <<"project">>), NEW o \in DOMAIN source, o[1] \in Config, Belongs(o)
          PROVE  \E t \in todo : t[2] = o
      <3>1. <<"app", o[2]>> \in DOMAIN source /\ Runs(o[2], o[3], source) /\ o = <<o[1], o[2], o[3]>>
        BY <1>1, <2>2 DEF Belongs, World, WellFormed, Named, Holds, IsApp, IsProject, Config
      <3>2. PICK i \in DOMAIN NameOrder : NameOrder[i] = o[2]
        <4>1. Named(<<"app", o[2]>>)
          BY <1>1, <3>1 DEF World, WellFormed
        <4>2. o[2] \in Elements(NameOrder)
          BY <4>1 DEF Named, Config
        <4>3. QED
          BY <4>2 DEF Elements
      <3>3. i \in Apps(source) /\ o[3] \in Envs(NameOrder[i])
        BY <2>2, <3>1, <3>2 DEF Apps, Runs, Inherited, Same
      <3>4. <<i, <<o[1], NameOrder[i], o[3]>>>> \in Reads(i, NameOrder[i])
        BY <2>2, <3>3
      <3> HIDE DEF Reads
      <3>5. <<i, <<o[1], NameOrder[i], o[3]>>>> \in todo
        BY <3>3, <3>4
      <3> HIDE DEF todo
      <3>6. QED
        BY <3>1, <3>2, <3>5
    <2>2a. \A t \in todo : ToRead(t)
      <3>1. ASSUME NEW i \in Apps(source) PROVE \A e \in Envs(NameOrder[i]) : e \in Elements(EnvOrder)
        <4>1. IsProject(req[x].has[<<"project">>]) /\ IsApp(source[<<"app", NameOrder[i]>>])
          BY <1>1, <1>2 DEF Exported, Holding, Exporting, World, WellFormed, Holds, Apps
        <4>2. QED
          BY <4>1 DEF IsProject, IsApp, Inherited, Environments, Elements
      <3>2. ASSUME NEW i \in Apps(source), NEW t \in Reads(i, NameOrder[i]) PROVE ToRead(t)
        <4>1. PICK k \in Config, e \in Envs(NameOrder[i]) : t = <<i, <<k, NameOrder[i], e>>>>
          OBVIOUS
        <4>2. e \in Elements(EnvOrder) /\ i \in DOMAIN NameOrder
          BY <3>1 DEF Apps
        <4>3. t[1] = i /\ t[2] = <<k, NameOrder[i], e>>
          BY <4>1
        <4>4. QED
          BY <4>2, <4>3 DEF ToRead
      <3> HIDE DEF Reads
      <3>3. QED
        BY <3>2
    <2> HIDE DEF todo, apps
    <2>3. /\ DOMAIN y = Fields /\ y.at = "config" /\ y.key = req[x].key
          /\ y.clean = req[x].clean /\ y.quiet = req[x].quiet
          /\ DOMAIN y.has = DOMAIN req[x].has \cup DOMAIN apps
          /\ \A o \in DOMAIN y.has : y.has[o] = IF o \in DOMAIN apps THEN apps[o] ELSE req[x].has[o]
      BY <1>1, Collection
    <2> HIDE DEF y
    <2>4. /\ DOMAIN z = Fields /\ z.at = "config" /\ z.key = req[x].key /\ z.todo = todo
          /\ z.clean = req[x].clean /\ z.quiet = req[x].quiet /\ z.has = y.has
      BY <2>3 DEF Fields
    <2> HIDE DEF z
    <2>5. Only(x) /\ req'[x] = z
      BY <1>1, <1>4, <2>4, Moves
    <2>6. Holding(x)'
      <3>1. \A o \in DOMAIN y.has : WellFormed(o, y.has[o])
        BY <1>1, <1>2, <2>1, <2>3 DEF Exported, Holding, Exporting, World, Of
      <3>2. <<"project">> \in DOMAIN y.has
        BY <1>1, <1>2, <2>3 DEF Exported, Holding, Exporting
      <3>3. QED
        BY <2>4, <2>5, <2>2a, <3>1, <3>2 DEF Holding, ToRead, Exporting,
                                            WellFormed, Named, Holds, IsApp, IsProject
    <2>7. Complete(x)'
      <3> SUFFICES ASSUME z.clean, z.quiet PROVE Complete(x)'
        BY <2>5 DEF Complete
      <3>1. Same(x, <<"project">>)
        BY <1>1, <1>2, <2>4 DEF Exported, Complete, Exporting
      <3>2. Same(x, <<"project">>)'
        BY <1>2, <2>1, <2>3, <2>4, <2>5, <3>1 DEF Same, Of
      <3>3. \A o \in Of(source, "app") : Same(x, o)'
        BY <1>2, <2>1, <2>3, <2>4, <2>5 DEF Same, Of
      <3>4. \A o \in DOMAIN source : o[1] \in Config /\ Belongs(o) => \E t \in z.todo : t[2] = o
        BY <2>2, <2>4, <3>1
      <3>5. \A o : Belongs(o)' = Belongs(o)
        BY <1>2 DEF Belongs, Runs
      <3>6. QED
        BY <1>2, <2>4, <2>5, <3>2, <3>3, <3>4, <3>5 DEF Complete, Exporting, Of
    <2>8. QED
      BY <1>1, <1>2, <2>4, <2>5, <2>6, <2>7, ExportMoves DEF KeyTyped, IInv, At, Exported
  <1>5. CASE Refused(x, Place(x, "failed"))
    BY <1>1, <1>2, <1>5, GivesUp DEF At
  <1>6. QED
    BY <1>3, <1>4, <1>5

LEMMA SameBelongs ==
    ASSUME UNCHANGED source, NEW o
    PROVE  Belongs(o)' = Belongs(o)
  BY DEF Belongs, Runs

LEMMA ReadsConfig ==
    ASSUME IInv, NEW x \in Exports, ReadConfig(x)
    PROVE  IInv'
  <1>1. x \in Requests /\ Frames /\ DOMAIN req[x] = Fields /\ Exported(x) /\ World /\ KeyTyped(x)
    BY DEF Requests, IInv, Frames
  <1>2. req[x].at = "config" /\ UNCHANGED <<source, target, maker, key, users>>
    BY DEF ReadConfig, At
  <1>3. PICK t \in First(req[x].todo) :
          \/ Becomes(x, IF t[2] \notin DOMAIN source THEN Through(x, t)
                        ELSE [Through(x, t) EXCEPT !.has = With(@, t[2], source[t[2]])])
          \/ Refused(x, Through(x, t))
    BY DEF ReadConfig
  <1> DEFINE y == Through(x, t)
  <1>4. /\ DOMAIN y = Fields /\ y.at = "config" /\ y.key = req[x].key /\ y.todo = req[x].todo \ {t}
        /\ y.clean = req[x].clean /\ y.quiet = req[x].quiet /\ y.has = req[x].has
    BY <1>1, <1>2 DEF Through, Fields
  <1> HIDE DEF y
  \* Nothing but the object that was read is no longer to be read.
  <1>5. ASSUME NEW z, DOMAIN z = Fields, req'[x] = z, Only(x), z.at = "config", z.key = req[x].key,
               z.todo = req[x].todo \ {t}, z.quiet = req[x].quiet, z.clean => req[x].clean,
               DOMAIN req[x].has \subseteq DOMAIN z.has,
               \A o \in DOMAIN z.has : \/ o \in DOMAIN req[x].has /\ z.has[o] = req[x].has[o]
                                       \/ o \in DOMAIN source /\ z.has[o] = source[o],
               \A o \in DOMAIN source :
                  Same(x, o) => z.has[o] = source[o],
               z.clean /\ t[2] \in DOMAIN source => t[2] \in DOMAIN z.has /\ z.has[t[2]] = source[t[2]]
        PROVE  IInv'
    <2>1. \A o \in DOMAIN z.has : WellFormed(o, z.has[o])
      BY <1>1, <1>2, <1>5 DEF Exported, Holding, Exporting, World
    <2>2. Holding(x)'
      BY <1>1, <1>2, <1>5, <2>1 DEF Exported, Holding, Exporting, WellFormed, Named, Holds, IsApp, IsProject
    <2>3. Complete(x)'
      <3> SUFFICES ASSUME z.clean, z.quiet PROVE Complete(x)'
        BY <1>5 DEF Complete
      <3>1. \A o \in DOMAIN source : Same(x, o) => Same(x, o)'
        BY <1>2, <1>5 DEF Same
      <3>2. /\ Same(x, <<"project">>)
            /\ \A o \in Of(source, "app") : Same(x, o)
            /\ \A o \in DOMAIN source : o[1] \in Config /\ Belongs(o) =>
                  Same(x, o) \/ \E u \in req[x].todo : u[2] = o
        BY <1>1, <1>2, <1>5 DEF Exported, Complete, Exporting
      <3>3. Same(x, <<"project">>)' /\ \A o \in Of(source, "app") : Same(x, o)'
        BY <1>1, <3>1, <3>2 DEF World, Of
      <3>4. \A o \in DOMAIN source : o[1] \in Config /\ Belongs(o) =>
               Same(x, o)' \/ \E u \in z.todo : u[2] = o
        <4>1. \A u \in req[x].todo : u # t => u \in z.todo
          BY <1>5
        <4>2. t[2] \in DOMAIN source => Same(x, t[2])'
          BY <1>2, <1>5 DEF Same
        <4>3. QED
          BY <3>1, <3>2, <4>1, <4>2
      <3>5. QED
        BY <1>2, <1>5, <3>3, <3>4, SameBelongs DEF Complete, Exporting, Of
    <2>4. QED
      BY <1>1, <1>2, <1>5, <2>2, <2>3, ExportMoves DEF KeyTyped, At, Exported
  <1>6. CASE Becomes(x, y) /\ t[2] \notin DOMAIN source
    <2>1. Only(x) /\ req'[x] = y
      BY <1>1, <1>4, <1>6, Moves
    <2>2. QED
      BY <1>4, <1>5, <1>6, <2>1 DEF Same
  <1>7. CASE Becomes(x, [y EXCEPT !.has = With(@, t[2], source[t[2]])]) /\ t[2] \in DOMAIN source
    <2> DEFINE has == With(y.has, t[2], source[t[2]])
               z   == [y EXCEPT !.has = has]
    <2>1. /\ DOMAIN has = DOMAIN req[x].has \cup {t[2]}
          /\ \A o \in DOMAIN has : has[o] = IF o = t[2] THEN source[t[2]] ELSE req[x].has[o]
      BY <1>4 DEF With
    <2>2. Becomes(x, z)
      BY <1>4, <1>7 DEF Fields
    <2> HIDE DEF has
    <2>3. /\ DOMAIN z = Fields /\ z.at = "config" /\ z.key = req[x].key /\ z.todo = req[x].todo \ {t}
          /\ z.clean = req[x].clean /\ z.quiet = req[x].quiet /\ z.has = has
      BY <1>4 DEF Fields
    <2> HIDE DEF z
    <2>4. Only(x) /\ req'[x] = z
      BY <1>1, <2>2, <2>3, Moves
    <2>5. QED
      BY <1>5, <1>7, <2>1, <2>3, <2>4 DEF Same
  <1>8. CASE Refused(x, y)
    <2> DEFINE z == [y EXCEPT !.clean = FALSE]
    <2>1. /\ DOMAIN z = Fields /\ z.at = "config" /\ z.key = req[x].key /\ z.todo = req[x].todo \ {t}
          /\ z.clean = FALSE /\ z.quiet = req[x].quiet /\ z.has = req[x].has
      BY <1>4 DEF Fields
    <2>2. Only(x) /\ req'[x] = z
      BY <1>1, <1>4, <1>8, RefusalMoves
    <2> HIDE DEF z
    <2>3. QED
      BY <1>5, <2>1, <2>2 DEF Same
  <1>9. QED
    BY <1>3, <1>6, <1>7, <1>8 DEF y

\* An export that collects the last things of a kind and goes on.
LEMMA Collects ==
    ASSUME IInv, NEW x \in Exports, NEW found, NEW place \in {"registry", "done"},
           Becomes(x, Collect(x, found, place)), UNCHANGED <<source, target, maker, key, users>>,
           \/ req[x].at = "config" /\ req[x].todo = {} /\ place = "registry"
           \/ req[x].at = "registry" /\ place = "done",
           \A o \in DOMAIN found : /\ o \in DOMAIN source /\ o[1] \in {"shared", "registry"}
                                   /\ o[1] = "registry" => found[o] = source[o],
           req[x].at = "config" => Of(source, "shared") \subseteq DOMAIN found,
           req[x].at = "registry" =>
              \A o \in Of(source, "registry") : o[2] \in Referenced(req[x].has) => o \in DOMAIN found
    PROVE  IInv'
  <1>1. x \in Requests /\ Frames /\ DOMAIN req[x] = Fields /\ Exported(x) /\ World /\ KeyTyped(x)
    BY DEF Requests, IInv, Frames
  <1> DEFINE z == Collect(x, found, place)
  <1>2. /\ DOMAIN z = Fields /\ z.at = place /\ z.key = req[x].key
        /\ z.clean = req[x].clean /\ z.quiet = req[x].quiet
        /\ DOMAIN z.has = DOMAIN req[x].has \cup DOMAIN found /\ z.todo = req[x].todo
        /\ \A o \in DOMAIN z.has : z.has[o] = IF o \in DOMAIN found THEN found[o] ELSE req[x].has[o]
    BY <1>1, Collection
  <1> HIDE DEF z
  <1>3. Only(x) /\ req'[x] = z
    BY <1>1, <1>2, Moves DEF z
  <1>4. \A o \in DOMAIN z.has : WellFormed(o, z.has[o])
    <2>1. \A o \in DOMAIN found : Named(o) /\ o[1] \notin {"project", "app"}
      BY <1>1 DEF World, WellFormed
    <2>2. \A o \in DOMAIN found : WellFormed(o, found[o])
      BY <2>1 DEF WellFormed, Holds
    <2>3. QED
      BY <1>1, <1>2, <2>2 DEF Exported, Holding, Exporting
  <1>5. Holding(x)'
    BY <1>1, <1>2, <1>3, <1>4 DEF Exported, Holding, ToRead, Exporting, WellFormed, Named, Holds, IsApp, IsProject
  <1>6. Complete(x)'
    <2> SUFFICES ASSUME z.clean, z.quiet PROVE Complete(x)'
      BY <1>3 DEF Complete
    <2>1. \A o : o \notin DOMAIN found /\ Same(x, o) => Same(x, o)'
      BY <1>2, <1>3 DEF Same
    <2>2. /\ Same(x, <<"project">>)
          /\ \A o \in Of(source, "app") : Same(x, o)
          /\ \A o \in DOMAIN source : o[1] \in Config /\ Belongs(o) => Same(x, o)
          /\ req[x].at = "registry" => Of(source, "shared") \subseteq DOMAIN req[x].has
      BY <1>1, <1>2 DEF Exported, Complete, Exporting
    <2>3. /\ Same(x, <<"project">>)'
          /\ \A o \in Of(source, "app") : Same(x, o)'
          /\ \A o \in DOMAIN source : o[1] \in Config /\ Belongs(o) => Same(x, o)'
      BY <2>1, <2>2 DEF Of, Config
    <2>4. Of(source, "shared") \subseteq DOMAIN z.has
      BY <1>2, <2>2
    <2>5. ASSUME req[x].at = "registry", NEW o \in Of(source, "registry"), Belongs(o)
          PROVE  o \in DOMAIN z.has
      <3>1. PICK y \in DOMAIN source : y[1] \in {"project", "app"} /\ o[2] \in source[y].pull
        <4>1. o[1] = "registry"
          BY DEF Of
        <4>2. Pulls(o[2], source) /\ ~Overlooked(o[2], source)
          BY <2>5, <4>1 DEF Belongs, Config
        <4>3. Refers(o[2], source) # {}
          BY <4>2 DEF Overlooked
        <4>4. QED
          BY <4>3 DEF Refers
      <3>2. y = <<"project">> \/ y \in Of(source, "app")
        BY <1>1, <3>1 DEF World, WellFormed, Named, Holds, IsApp, IsProject, Of, Config
      <3>3. Same(x, y)
        BY <2>2, <3>2
      <3>4. o[2] \in Referenced(req[x].has)
        BY <3>1, <3>2, <3>3 DEF Referenced, Same, Of
      <3>5. QED
        BY <1>2, <2>5, <3>4
    <2>6. QED
      BY <1>2, <1>3, <2>3, <2>4, <2>5, SameBelongs DEF Complete, Exporting, Of
  <1>7. QED
    BY <1>1, <1>2, <1>3, <1>5, <1>6, ExportMoves DEF KeyTyped, At, Exported

LEMMA ListsShared ==
    ASSUME IInv, NEW x \in Exports, ListShared(x)
    PROVE  IInv'
  <1>1. /\ req[x].at = "config" /\ req[x].todo = {}
        /\ UNCHANGED <<source, target, maker, key, users>>
    BY DEF ListShared, At
  <1> DEFINE found == [o \in Of(source, "shared") |-> FirstData(o)]
  <1>2. DOMAIN found = Of(source, "shared")
    OBVIOUS
  <1>3. Becomes(x, Collect(x, found, "registry")) \/ Refused(x, Place(x, "registry"))
    BY DEF ListShared
  <1> HIDE DEF found
  <1>4. CASE Becomes(x, Collect(x, found, "registry"))
    BY <1>1, <1>2, <1>4, Collects DEF Of
  <1>5. CASE Refused(x, Place(x, "registry"))
    BY <1>1, <1>5, ExportRefused DEF Exporting
  <1>6. QED
    BY <1>3, <1>4, <1>5

LEMMA ListsRegistry ==
    ASSUME IInv, NEW x \in Exports, ListRegistry(x)
    PROVE  IInv'
  <1>1. req[x].at = "registry" /\ UNCHANGED <<source, target, maker, key, users>>
    BY DEF ListRegistry, At
  <1> DEFINE wanted == {o \in Of(source, "registry") : o[2] \in Referenced(req[x].has)}
             found  == [o \in wanted |-> source[o]]
  <1>2. DOMAIN found = wanted /\ \A o \in wanted : found[o] = source[o]
    OBVIOUS
  <1>3. Becomes(x, Collect(x, found, "done")) \/ Refused(x, Place(x, "done"))
    BY DEF ListRegistry
  <1> HIDE DEF found
  <1>4. CASE Becomes(x, Collect(x, found, "done"))
    BY <1>1, <1>2, <1>4, Collects DEF Of
  <1>5. CASE Refused(x, Place(x, "done"))
    BY <1>1, <1>5, ExportRefused DEF Exporting
  <1>6. QED
    BY <1>3, <1>4, <1>5

-----------------------------------------------------------------------------
(* Users *)

LEMMA EditsSource ==
    ASSUME IInv, EditSource
    PROVE  IInv'
  <1>1. Frames /\ World
    BY DEF IInv
  <1>2. PICK x \in Edits : source' = With(source, x[1], x[2])
    BY DEF EditSource
  <1>3. /\ users < MaxUser /\ users' = users + 1 /\ UNCHANGED <<target, maker, key>>
        /\ req' = [r \in Requests |-> IF r \in Exports THEN [req[r] EXCEPT !.quiet = At(r, "idle")] ELSE req[r]]
    BY DEF EditSource
  <1>4. World'
    <2>1. WellFormed(x[1], x[2])
      BY SourceAssumption
    <2>2. /\ DOMAIN source' = DOMAIN source \cup {x[1]}
          /\ \A o \in DOMAIN source' : source'[o] = IF o = x[1] THEN x[2] ELSE source[o]
      BY <1>2 DEF With
    <2>3. \A o \in DOMAIN source' : WellFormed(o, source'[o])
      BY <1>1, <2>1, <2>2 DEF World
    <2>4. users' \in 0..MaxUser
      BY <1>1, <1>3, TransferAssumption DEF World
    <2>5. QED
      BY <1>1, <1>3, <2>2, <2>3, <2>4 DEF World, WellFormed, Named, Holds, IsApp, IsProject
  <1>5. ProjectOfOne'
    BY <1>3 DEF IInv, ProjectOfOne, InProject
  <1>6. ASSUME NEW y \in Exports
        PROVE  /\ DOMAIN req'[y] = Fields /\ req'[y].at = req[y].at /\ req'[y].key = req[y].key
               /\ req'[y].has = req[y].has /\ req'[y].todo = req[y].todo
               /\ req'[y].quiet = At(y, "idle")
    <2>1. y \in Requests /\ DOMAIN req[y] = Fields
      BY <1>1 DEF Requests, Frames
    <2>2. req'[y] = [req[y] EXCEPT !.quiet = At(y, "idle")]
      BY <1>3, <2>1
    <2>3. QED
      BY <2>1, <2>2 DEF Fields
  <1>7. \A r \in Requests \ Exports : req'[r] = req[r]
    BY <1>3
  <1>8. Frames'
    BY <1>1, <1>3, <1>6, <1>7 DEF Frames
  <1>9. ASSUME NEW r \in Requests PROVE KeyTyped(r)'
    BY <1>6, <1>7 DEF IInv, KeyTyped
  <1>10. ASSUME NEW r \in Imports \cup Readers PROVE Identity(r)'
    BY <1>3, <1>7, TransferAssumption DEF IInv, Identity, Requests
  <1>11. ASSUME NEW y \in Exports PROVE Exported(y)'
    <2>1. Holding(y)'
      BY <1>6 DEF IInv, Exported, Holding, ToRead, WellFormed, Named, Holds, IsApp, IsProject
    <2>2. Complete(y)'
      BY <1>6 DEF Complete, At, Exporting
    <2>3. QED
      BY <2>1, <2>2 DEF Exported
  <1>12. ASSUME NEW i \in Imports PROVE Imported(i)'
    <2>1. req'[i] = req[i]
      BY <1>7, TransferAssumption DEF Requests
    <2>2. Stay
      BY <1>6 DEF Stay, At
    <2>3. Imported(i)
      BY DEF IInv
    <2>4. QED
      BY <1>3, <2>1, <2>2, <2>3, SameImport DEF Grows
  <1>13. QED
    BY <1>4, <1>5, <1>8, <1>9, <1>10, <1>11, <1>12 DEF IInv

\* What is created is new, and whatever there was stays as it is.
LEMMA Adds ==
    ASSUME World, NEW n, n \notin DOMAIN target, NEW c, NEW i \in Imports \cup {None},
           target' = With(target, n, c), maker' = With(maker, n, i)
    PROVE  /\ DOMAIN target' = DOMAIN target \cup {n} /\ DOMAIN maker' = DOMAIN target'
           /\ \A o \in DOMAIN target : target'[o] = target[o] /\ maker'[o] = maker[o]
           /\ target'[n] = c /\ maker'[n] = i
           /\ \A o \in DOMAIN maker' : maker'[o] \in Imports \cup {None}
  BY DEF World, With

LEMMA CreatesTarget ==
    ASSUME IInv, CreateTarget
    PROVE  IInv'
  <1>1. Frames /\ World
    BY DEF IInv
  <1>2. PICK x \in Creates : /\ Creatable(x[1])
                             /\ target' = With(target, x[1], x[2])
                             /\ maker'  = With(maker, x[1], None)
    BY DEF CreateTarget
  <1>3. users < MaxUser /\ users' = users + 1 /\ UNCHANGED <<source, key, req>>
    BY DEF CreateTarget
  <1>4. /\ DOMAIN target' = DOMAIN target \cup {x[1]} /\ DOMAIN maker' = DOMAIN target'
        /\ \A o \in DOMAIN target : target'[o] = target[o] /\ maker'[o] = maker[o]
        /\ maker'[x[1]] = None
        /\ \A o \in DOMAIN maker' : maker'[o] \in Imports \cup {None}
    BY <1>1, <1>2, Adds DEF Creatable
  <1>5. World'
    <2>1. users' \in 0..MaxUser
      BY <1>1, <1>3, TransferAssumption DEF World
    <2>2. \A n \in DOMAIN target' : WellPlaced(n, target'[n])
      <3>1. WellPlaced(x[1], x[2]) /\ target'[x[1]] = x[2]
        BY <1>1, <1>2, Adds, SourceAssumption DEF Creatable
      <3>2. QED
        BY <1>1, <1>4, <3>1 DEF World
    <2>3. QED
      BY <1>1, <1>3, <1>4, <2>1, <2>2 DEF World, WellFormed, WellPlaced, Placed, Named,
                                          Holds, IsApp, IsProject
  <1>6. ProjectOfOne'
    <2>1. x[1] \notin DOMAIN target
      BY <1>2 DEF Creatable
    <2>2. ASSUME NEW o \in DOMAIN target', NEW p \in As, InProject(o, p)', maker'[o] # None
          PROVE  /\ <<"project", p>> \in DOMAIN target'
                 /\ maker'[<<"project", p>>] = maker'[o]
      <3>1. o \in DOMAIN target /\ InProject(o, p) /\ maker[o] # None
        BY <1>4, <2>2 DEF InProject
      <3>2. <<"project", p>> \in DOMAIN target /\ maker[<<"project", p>>] = maker[o]
        BY <3>1 DEF IInv, ProjectOfOne
      <3>3. QED
        BY <1>4, <3>1, <3>2
    <2>3. QED
      BY <2>2 DEF ProjectOfOne
  <1>7. \A i \in Imports : Imported(i)'
    <2>1. Stay
      BY <1>3 DEF Stay, At
    <2>2. QED
      BY <1>3, <1>4, <2>1, SameImport DEF IInv, Grows, World
  <1>8. \A y \in Exports : Exported(y)'
    BY <1>3, SameExport DEF IInv
  <1>9. \A r \in Imports \cup Readers : Identity(r)'
    BY <1>3, SameIdentity DEF IInv, Requests
  <1>10. Frames' /\ \A r \in Requests : KeyTyped(r)'
    BY <1>3 DEF IInv, Frames, KeyTyped
  <1>11. QED
    BY <1>5, <1>6, <1>7, <1>8, <1>9, <1>10 DEF IInv

-----------------------------------------------------------------------------
(* The plan of an import *)

LEMMA Names ==
    ASSUME NEW o, Named(o), NEW q, Named(q), NEW p, NameIn(o, p) = NameIn(q, p)
    PROVE  o = q
  BY DEF Named, NameIn, Config

\* The plan has every object of the bundle, credentials and then the project before the rest.
LEMMA PlanIsComplete ==
    ASSUME NEW has, NEW p, \A o \in DOMAIN has : WellFormed(o, has[o]), <<"project">> \in DOMAIN has
    PROVE  /\ \A t \in Plan(has, p) :
                /\ t[1] \in Nat \ {0}
                /\ t[1] = 1 => t[2][1] = "registry"
                /\ t[1] = 2 => t[2] = <<"project", p>>
                /\ \/ IsSpace(t[2], p)
                   \/ \E o \in DOMAIN has : t[2] = NameIn(o, p)
           /\ <<2, <<"project", p>>>> \in Plan(has, p)
           /\ \A o \in DOMAIN has : \E t \in Plan(has, p) : t[2] = NameIn(o, p)
  <1> DEFINE Turn(k, S)     == {k} \X S
             All(k)         == {NameIn(o, p) : o \in Of(has, k)}
             App(i)         == <<"app", NameOrder[i]>>
             Shared(i, j)   == <<"shared", NameOrder[i], EnvOrder[j]>>
             AtApp(i)       == Turn(2 * i + 2, {App(i)}) \cup Turn(2 * i + 3, Spaces(has[App(i)].envs, p))
             config         == 2 * Len(NameOrder) + 4
             turn(i, j)     == config + 2 * (i * Len(EnvOrder) + j)
             AtShared(i, j) == Turn(turn(i, j), Spaces(<<EnvOrder[j]>>, p))
                               \cup Turn(turn(i, j) + 1, {NameIn(Shared(i, j), p)})
             SharedEnvs(i)  == {n \in DOMAIN EnvOrder : Shared(i, n) \in DOMAIN has}
             apps           == UNION {AtApp(i) : i \in Apps(has)}
             shared         == UNION {UNION {AtShared(i, j) : j \in SharedEnvs(i)} : i \in DOMAIN NameOrder}
             plan           == Turn(1, All("registry")) \cup Turn(2, All("project"))
                               \cup Turn(3, Spaces(has[<<"project">>].envs, p)) \cup apps
                               \cup Turn(config, All("vars")) \cup Turn(config + 1, All("secret"))
                               \cup shared
             Fits(t)        == /\ t[1] \in Nat \ {0}
                               /\ t[1] = 1 => t[2][1] = "registry"
                               /\ t[1] = 2 => t[2] = <<"project", p>>
                               /\ \/ IsSpace(t[2], p)
                                  \/ \E o \in DOMAIN has : t[2] = NameIn(o, p)
  <1>1. Plan(has, p) = plan
    BY DEF Plan
  <1>2. /\ Len(NameOrder) \in Nat /\ DOMAIN NameOrder = 1 .. Len(NameOrder)
        /\ Len(EnvOrder) \in Nat /\ DOMAIN EnvOrder = 1 .. Len(EnvOrder)
    BY SourceAssumption
  <1>3. config \in Nat /\ config > 3
    BY <1>2
  <1>4. \A i \in DOMAIN NameOrder, j \in DOMAIN EnvOrder : turn(i, j) \in Nat /\ turn(i, j) > 3
    <2>1. ASSUME NEW i \in Nat, NEW j \in Nat PROVE i * Len(EnvOrder) + j \in Nat
      BY <1>2
    <2> HIDE DEF config
    <2>2. QED
      BY <1>2, <1>3, <2>1
  <1>5. \A k : \A t \in Turn(k, All("registry")) :
           t[1] = k /\ t[2][1] = "registry" /\ \E o \in DOMAIN has : t[2] = NameIn(o, p)
    BY DEF Of, NameIn
  <1>6. \A t \in Turn(2, All("project")) :
           t[1] = 2 /\ t[2] = <<"project", p>> /\ \E o \in DOMAIN has : t[2] = NameIn(o, p)
    BY DEF Of, NameIn
  <1>7. \A k, s : \A t \in Turn(k, All(s)) :
           t[1] = k /\ \E o \in DOMAIN has : t[2] = NameIn(o, p)
    BY DEF Of
  <1>8. \A k : \A e \in Environments : \A t \in Turn(k, Spaces(e, p)) : t[1] = k /\ IsSpace(t[2], p)
    <2>1. ASSUME NEW e \in Environments, NEW n \in Spaces(e, p) PROVE IsSpace(n, p)
      <3>1. PICK x \in Elements(e) : n = <<"namespace", x, p>>
        BY <2>1 DEF Spaces
      <3>2. x \in Elements(EnvOrder)
        BY <2>1 DEF Elements, Environments
      <3>3. QED
        BY <3>1, <3>2 DEF IsSpace
    <2>2. QED
      BY <2>1
  <1>8a. /\ has[<<"project">>].envs \in Environments
         /\ \A i \in Apps(has) : has[App(i)].envs \in Environments
         /\ \A j \in DOMAIN EnvOrder : <<EnvOrder[j]>> \in Environments
    <2>1. IsProject(has[<<"project">>])
      BY DEF WellFormed, Holds
    <2>2. ASSUME NEW i \in Apps(has) PROVE IsApp(has[App(i)])
      BY DEF WellFormed, Holds, Apps
    <2>3. ASSUME NEW j \in DOMAIN EnvOrder PROVE <<EnvOrder[j]>> \in Environments
      <3>1. EnvOrder[j] \in Elements(EnvOrder)
        BY DEF Elements
      <3>2. QED
        BY <3>1 DEF Environments
    <2>4. QED
      BY <2>1, <2>2, <2>3 DEF IsProject, IsApp
  <1>9. ASSUME NEW i \in Apps(has), NEW t \in AtApp(i) PROVE Fits(t)
    <2>1. i \in Nat /\ i > 0 /\ App(i) \in DOMAIN has
      BY <1>2 DEF Apps
    <2>2. CASE t \in Turn(2 * i + 2, {App(i)})
      <3>1. t[1] = 2 * i + 2 /\ t[2] = NameIn(App(i), p)
        BY <2>2 DEF NameIn
      <3>2. QED
        BY <2>1, <3>1
    <2>3. CASE t \in Turn(2 * i + 3, Spaces(has[App(i)].envs, p))
      <3> HIDE DEF Turn, App
      <3>1. t[1] = 2 * i + 3 /\ IsSpace(t[2], p)
        BY <2>3, <1>8, <1>8a
      <3>2. QED
        BY <2>1, <3>1
    <2>4. QED
      BY <2>2, <2>3
  <1>10. ASSUME NEW i \in DOMAIN NameOrder, NEW j \in SharedEnvs(i), NEW t \in AtShared(i, j) PROVE Fits(t)
    <2>1. turn(i, j) \in Nat /\ turn(i, j) > 3 /\ Shared(i, j) \in DOMAIN has
      BY <1>4
    <2> HIDE DEF turn
    <2>2. CASE t \in Turn(turn(i, j), Spaces(<<EnvOrder[j]>>, p))
      <3> HIDE DEF Turn
      <3>1. t[1] = turn(i, j) /\ IsSpace(t[2], p)
        BY <2>2, <1>8, <1>8a
      <3>2. QED
        BY <2>1, <3>1
    <2>3. CASE t \in Turn(turn(i, j) + 1, {NameIn(Shared(i, j), p)})
      <3>1. t[1] = turn(i, j) + 1 /\ t[2] = NameIn(Shared(i, j), p)
        BY <2>3
      <3> HIDE DEF Shared
      <3>2. QED
        BY <2>1, <3>1
    <2>4. QED
      BY <2>2, <2>3
  <1>11. \A t \in plan : Fits(t)
    <2> SUFFICES ASSUME NEW t \in plan PROVE Fits(t)
      OBVIOUS
    <2>1. CASE t \in apps
      <3>1. PICK i \in Apps(has) : t \in AtApp(i)
        BY <2>1
      <3>2. QED
        BY <1>9, <3>1
    <2>2. CASE t \in shared
      <3>1. PICK i \in DOMAIN NameOrder : \E j \in SharedEnvs(i) : t \in AtShared(i, j)
        BY <2>2
      <3>2. QED
        BY <1>10, <3>1
    <2>3. CASE \/ t \in Turn(1, All("registry")) \/ t \in Turn(2, All("project"))
               \/ t \in Turn(3, Spaces(has[<<"project">>].envs, p))
      <3> HIDE DEF Turn
      <3>1. QED
        BY <2>3, <1>5, <1>6, <1>8, <1>8a
    <2>4. CASE t \in Turn(config, All("vars")) \/ t \in Turn(config + 1, All("secret"))
      <3> HIDE DEF Turn, config
      <3> HIDE DEF plan, apps, shared, All
      <3>1. (t[1] = config \/ t[1] = config + 1) /\ \E o \in DOMAIN has : t[2] = NameIn(o, p)
        BY <2>4, <1>7
      <3>2. t[1] \in Nat /\ t[1] > 3
        BY <1>3, <3>1
      <3>3. QED
        BY <3>1, <3>2
    <2> HIDE DEF Fits, Turn, All, apps, shared, config
    <2>5. QED
      BY <2>1, <2>2, <2>3, <2>4
  <1>12. <<2, <<"project", p>>>> \in plan
    <2>1. NameIn(<<"project">>, p) = <<"project", p>>
      BY DEF NameIn
    <2>2. <<2, <<"project", p>>>> \in Turn(2, All("project"))
      BY <2>1 DEF Of
    <2>3. QED
      BY <2>2
  <1>13. ASSUME NEW o \in DOMAIN has PROVE \E t \in plan : t[2] = NameIn(o, p)
    <2> DEFINE Has(k) == <<k, NameIn(o, p)>>
    <2>1. \A k : Has(k)[2] = NameIn(o, p)
      OBVIOUS
    <2>2. CASE o = <<"project">>
      <3>1. Has(2) \in Turn(2, All("project"))
        BY <2>2 DEF Of
      <3>2. QED
        BY <2>1, <3>1
    <2>3. CASE o[1] = "registry"
      <3>1. Has(1) \in Turn(1, All("registry"))
        BY <2>3 DEF Of
      <3>2. QED
        BY <2>1, <3>1
    <2>4. CASE o[1] = "vars"
      <3>1. Has(config) \in Turn(config, All("vars"))
        BY <2>4 DEF Of
      <3>2. QED
        BY <2>1, <3>1
    <2>5. CASE o[1] = "secret"
      <3>1. Has(config + 1) \in Turn(config + 1, All("secret"))
        BY <2>5 DEF Of
      <3>2. QED
        BY <2>1, <3>1
    <2>6. CASE o[1] = "app" /\ o = <<"app", o[2]>> /\ o[2] \in Elements(NameOrder)
      <3>1. PICK i \in DOMAIN NameOrder : o[2] = NameOrder[i]
        BY <2>6 DEF Elements
      <3>2. i \in Apps(has) /\ o = App(i) /\ NameIn(o, p) = o
        BY <2>6, <3>1 DEF Apps, NameIn
      <3>3. Has(2 * i + 2) \in AtApp(i)
        BY <3>2
      <3>4. Has(2 * i + 2) \in apps
        BY <3>2, <3>3
      <3>5. QED
        BY <2>1, <3>4
    <2>7. CASE /\ o[1] = "shared" /\ o = <<"shared", o[2], o[3]>>
               /\ o[2] \in Elements(NameOrder) /\ o[3] \in Elements(EnvOrder)
      <3>1. PICK i \in DOMAIN NameOrder : o[2] = NameOrder[i]
        BY <2>7 DEF Elements
      <3>2. PICK j \in DOMAIN EnvOrder : o[3] = EnvOrder[j]
        BY <2>7 DEF Elements
      <3>3. j \in SharedEnvs(i) /\ o = Shared(i, j)
        BY <2>7, <3>1, <3>2
      <3>4. Has(turn(i, j) + 1) \in AtShared(i, j)
        BY <3>3
      <3>5. Has(turn(i, j) + 1) \in shared
        BY <3>3, <3>4
      <3>6. QED
        BY <2>1, <3>5
    <2>8. QED
      BY <2>2, <2>3, <2>4, <2>5, <2>6, <2>7 DEF WellFormed, Named, Config
  <1> HIDE DEF plan
  <1>14. QED
    BY <1>1, <1>11, <1>12, <1>13

-----------------------------------------------------------------------------
(* Imports *)

\* The bundle of an import is well formed.
LEMMA Bundles ==
    ASSUME IInv, NEW i \in Imports, req[i].at # "idle"
    PROVE  /\ req[i].bundle \in Exports /\ req[i].into \in As
           /\ <<"project">> \in DOMAIN Payload(i)
           /\ \A o \in DOMAIN Payload(i) : WellFormed(o, Payload(i)[o])
  <1>1. req[i].bundle \in Exports /\ At(req[i].bundle, "done") /\ req[i].into \in As
    BY DEF IInv, Imported, Bound
  <1>2. QED
    BY <1>1 DEF IInv, Exported, Holding, Exporting, At, Payload

LEMMA ImportMoves ==
    ASSUME IInv, NEW i \in Imports, Only(i), UNCHANGED <<source, key, users>>, Grows,
           World', ProjectOfOne',
           req[i].at \in Identified \ {"done"}, req'[i].at \in Identified \cup {"failed"},
           req'[i].key = req[i].key, req'[i].bundle = req[i].bundle, req'[i].into = req[i].into,
           Payload(i)' = Payload(i) => Tasks(i)' /\ Opened(i)' /\ Left(i)'
    PROVE  IInv'
  <1>1. i \in Requests /\ i \notin Exports
    BY TransferAssumption DEF Requests
  <1>2. req[i].at # "idle" /\ req[i].bundle \in Exports /\ Imported(i)
    BY Bundles DEF Identified, IInv
  <1>3. Payload(i)' = Payload(i)
    BY <1>1, <1>2 DEF Payload, Only, Requests
  <1>4. KeyTyped(i)' /\ Identity(i)'
    BY <1>1 DEF IInv, KeyTyped, Identity, Identified
  <1>5. Stay => Bound(i)'
    BY <1>2 DEF Imported, Bound, Stay, At
  <1>6. QED
    BY <1>1, <1>3, <1>4, <1>5, OneMoves DEF Imported

LEMMA Opens ==
    ASSUME IInv, NEW i \in Imports, Open(i)
    PROVE  IInv'
  <1>1. i \in Requests /\ Frames /\ req[i].at = "known" /\ UNCHANGED <<source, target, maker, key, users>>
    BY DEF Requests, IInv, Open, At
  <1>2. Becomes(i, Place(i, "failed")) \/ Becomes(i, Place(i, "check"))
    BY DEF Open
  <1>3. CASE Becomes(i, Place(i, "failed"))
    BY <1>1, <1>3, GivesUp DEF At
  <1>4. CASE Becomes(i, Place(i, "check"))
    <2>1. Leaves(i, "check")
      BY <1>1, <1>4, PlaceMoves
    <2>2. World' /\ ProjectOfOne' /\ Grows
      BY <1>1, SameWorld DEF IInv, Grows, World
    <2>3. req[i].todo = {}
      BY <1>1 DEF IInv, Imported, Tasks
    <2>4. Tasks(i)' /\ Opened(i)' /\ Left(i)'
      BY <2>1, <2>3 DEF Leaves, Tasks, Opened, Left
    <2>5. QED
      BY <1>1, <2>1, <2>2, <2>4, ImportMoves DEF Leaves, Identified
  <1>5. QED
    BY <1>2, <1>3, <1>4

LEMMA ChecksName ==
    ASSUME IInv, NEW i \in Imports, CheckName(i)
    PROVE  IInv'
  <1>1. /\ i \in Requests /\ Frames /\ DOMAIN req[i] = Fields
        /\ req[i].at = "check" /\ UNCHANGED <<source, target, maker, key, users>>
    BY DEF Requests, IInv, Frames, CheckName, At
  <1> DEFINE plan == Plan(Payload(i), req[i].into)
             go   == [[req[i] EXCEPT !.at = "apply"] EXCEPT !.todo = plan]
  <1>2. /\ DOMAIN go = Fields /\ go.at = "apply" /\ go.key = req[i].key /\ go.todo = plan
        /\ go.bundle = req[i].bundle /\ go.into = req[i].into
    BY <1>1 DEF Fields
  <1>3. Becomes(i, Place(i, "failed")) \/ Becomes(i, go) \/ Refused(i, go)
    BY DEF CheckName, Place
  <1> HIDE DEF go
  <1>4. CASE Becomes(i, Place(i, "failed"))
    BY <1>1, <1>4, GivesUp DEF At
  <1>5. CASE Becomes(i, go) \/ Refused(i, go)
    <2>1. /\ Only(i) /\ req'[i].at = "apply" /\ req'[i].key = req[i].key /\ req'[i].todo = plan
          /\ req'[i].bundle = req[i].bundle /\ req'[i].into = req[i].into
      <3>1. CASE Becomes(i, go)
        BY <1>1, <1>2, <3>1, Moves
      <3>2. CASE Refused(i, go)
        <4>1. Only(i) /\ req'[i] = [go EXCEPT !.clean = FALSE]
          BY <1>1, <1>2, <3>2, RefusalMoves
        <4>2. QED
          BY <1>2, <4>1 DEF Fields
      <3>3. QED
        BY <1>5, <3>1, <3>2
    <2>2. World' /\ ProjectOfOne' /\ Grows
      BY <1>1, SameWorld DEF IInv, Grows, World
    <2>3. /\ \A t \in plan : /\ t[1] \in Nat \ {0}
                             /\ t[1] = 1 => t[2][1] = "registry"
                             /\ t[1] = 2 => t[2] = <<"project", req[i].into>>
                             /\ \/ IsSpace(t[2], req[i].into)
                                \/ \E o \in DOMAIN Payload(i) : t[2] = NameIn(o, req[i].into)
          /\ <<2, <<"project", req[i].into>>>> \in plan
          /\ \A o \in DOMAIN Payload(i) : \E t \in plan : t[2] = NameIn(o, req[i].into)
      BY <1>1, Bundles, PlanIsComplete
    <2> HIDE DEF plan
    <2>4. ASSUME Payload(i)' = Payload(i) PROVE Tasks(i)' /\ Opened(i)' /\ Left(i)'
      <3>1. \A t \in plan : Task(i, t)
        BY <2>3 DEF Task
      <3>2. Tasks(i)'
        BY <2>1, <2>4, <3>1, SameTask DEF Tasks
      <3>3. Opened(i)' /\ Left(i)'
        BY <2>1, <2>3, <2>4 DEF Opened, Left, NameIn
      <3>4. QED
        BY <3>2, <3>3
    <2>5. QED
      BY <1>1, <2>1, <2>2, <2>4, ImportMoves DEF Identified
  <1>6. QED
    BY <1>3, <1>4, <1>5

LEMMA NameKind ==
    ASSUME NEW o, Named(o), NEW p
    PROVE  /\ NameIn(o, p)[1] = o[1] /\ o[1] # "namespace"
           /\ o[1] \in Kept => NameIn(o, p)[4] = p
  BY DEF Named, NameIn, Config, Kept

\* An import is through with t: what t stood for is there.
LEMMA IsThrough ==
    ASSUME IInv, NEW i \in Imports, req[i].at \in {"apply", "make"}, NEW t \in req[i].todo,
           Grows, Payload(i)' = Payload(i), req'[i].todo = req[i].todo \ {t},
           req'[i].into = req[i].into, req'[i].at = "apply",
           t = <<2, <<"project", req[i].into>>>> =>
              <<"project", req[i].into>> \in DOMAIN target' /\ maker'[<<"project", req[i].into>>] = i,
           \A o \in DOMAIN Payload(i) : t[2] = NameIn(o, req[i].into) => Brought(i, o)'
    PROVE  Tasks(i)' /\ Opened(i)' /\ Left(i)'
  <1>1. Tasks(i) /\ Opened(i) /\ Left(i)
    BY DEF IInv, Imported
  <1>2. Tasks(i)'
    BY <1>1, SameTask DEF Tasks
  <1>3. Opened(i)'
    BY <1>1 DEF Opened, Grows
  <1>4. ASSUME NEW o \in DOMAIN Payload(i), Brought(i, o) PROVE Brought(i, o)'
    BY <1>4 DEF Brought, NameIn, ContentIn, Grows
  <1>5. \A o \in DOMAIN Payload(i) :
           Brought(i, o)' \/ \E u \in req'[i].todo : u[2] = NameIn(o, req[i].into)
    BY <1>1, <1>4 DEF Left
  <1>6. Left(i)'
    BY <1>5 DEF Left, NameIn
  <1>7. QED
    BY <1>2, <1>3, <1>6

LEMMA LooksRegistry ==
    ASSUME IInv, NEW i \in Imports, LookRegistry(i)
    PROVE  IInv'
  <1>1. /\ i \in Requests /\ Frames /\ DOMAIN req[i] = Fields
        /\ req[i].at = "apply" /\ UNCHANGED <<source, target, maker, key, users>>
    BY DEF Requests, IInv, Frames, LookRegistry, At
  <1>2. PICK t \in First(req[i].todo) :
          LET make == [Place(i, "make") EXCEPT !.todo = (@ \ {t}) \cup {<<0, t[2]>>}] IN
          /\ t[2][1] = "registry"
          /\ Becomes(i, IF t[2] \in DOMAIN target THEN Through(i, t) ELSE make) \/ Refused(i, make)
    BY DEF LookRegistry
  <1>3. t \in req[i].todo /\ t[2][1] = "registry" /\ Task(i, t)
    BY <1>2 DEF First, IInv, Imported, Tasks
  <1> DEFINE make == [[req[i] EXCEPT !.at = "make"] EXCEPT !.todo = (req[i].todo \ {t}) \cup {<<0, t[2]>>}]
             past == [req[i] EXCEPT !.todo = req[i].todo \ {t}]
  <1>4. /\ DOMAIN make = Fields /\ make.at = "make" /\ make.key = req[i].key
        /\ make.todo = (req[i].todo \ {t}) \cup {<<0, t[2]>>}
        /\ make.bundle = req[i].bundle /\ make.into = req[i].into
    BY <1>1 DEF Fields
  <1>5. /\ DOMAIN past = Fields /\ past.at = "apply" /\ past.key = req[i].key
        /\ past.todo = req[i].todo \ {t}
        /\ past.bundle = req[i].bundle /\ past.into = req[i].into
    BY <1>1 DEF Fields
  <1>6. (Becomes(i, past) /\ t[2] \in DOMAIN target) \/ Becomes(i, make) \/ Refused(i, make)
    <2>1. [Place(i, "make") EXCEPT !.todo = (@ \ {t}) \cup {<<0, t[2]>>}] = make
      BY <1>1 DEF Place, Fields
    <2>2. Through(i, t) = past
      BY DEF Through
    <2>3. QED
      BY <1>2, <2>1, <2>2
  <1> HIDE DEF make, past
  <1>7. World' /\ ProjectOfOne' /\ Grows
    BY <1>1, SameWorld DEF IInv, Grows, World
  <1>8. CASE Becomes(i, past) /\ t[2] \in DOMAIN target
    <2>1. Only(i) /\ req'[i] = past
      BY <1>1, <1>5, <1>8, Moves
    <2>2. ASSUME Payload(i)' = Payload(i), NEW o \in DOMAIN Payload(i), t[2] = NameIn(o, req[i].into)
          PROVE  Brought(i, o)'
      <3>1. o[1] = "registry"
        BY <1>1, <1>3, <2>2, Bundles, NameKind DEF WellFormed
      <3>2. QED
        BY <1>1, <1>5, <1>8, <2>1, <2>2, <3>1 DEF Brought, NameIn
    <2>3. ASSUME Payload(i)' = Payload(i) PROVE Tasks(i)' /\ Opened(i)' /\ Left(i)'
      <3>1. t # <<2, <<"project", req[i].into>>>>
        BY <1>3
      <3>2. \A o \in DOMAIN Payload(i) : t[2] = NameIn(o, req[i].into) => Brought(i, o)'
        BY <2>2, <2>3
      <3>3. QED
        BY <1>1, <1>3, <1>5, <1>7, <2>1, <2>3, <3>1, <3>2, IsThrough
    <2>4. QED
      BY <1>1, <1>5, <1>7, <2>1, <2>3, ImportMoves DEF Identified
  <1>9. CASE Becomes(i, make) \/ Refused(i, make)
    <2>1. /\ Only(i) /\ req'[i].at = "make" /\ req'[i].key = req[i].key
          /\ req'[i].todo = (req[i].todo \ {t}) \cup {<<0, t[2]>>}
          /\ req'[i].bundle = req[i].bundle /\ req'[i].into = req[i].into
      <3>1. CASE Becomes(i, make)
        BY <1>1, <1>4, <3>1, Moves
      <3>2. CASE Refused(i, make)
        <4>1. Only(i) /\ req'[i] = [make EXCEPT !.clean = FALSE]
          BY <1>1, <1>4, <3>2, RefusalMoves
        <4>2. QED
          BY <1>4, <4>1 DEF Fields
      <3>3. QED
        BY <1>9, <3>1, <3>2
    <2>2. ASSUME Payload(i)' = Payload(i) PROVE Tasks(i)' /\ Opened(i)' /\ Left(i)'
      <3>1. Task(i, <<0, t[2]>>)
        BY <1>3 DEF Task
      <3>2. Tasks(i) /\ Opened(i) /\ Left(i)
        BY DEF IInv, Imported
      <3>3. Tasks(i)'
        BY <2>1, <2>2, <3>1, <3>2, SameTask DEF Tasks
      <3>4. Opened(i)'
        BY <1>1, <1>3, <2>1, <3>2 DEF Opened
      <3>5. ASSUME NEW o \in DOMAIN Payload(i), Brought(i, o) PROVE Brought(i, o)'
        BY <1>1, <2>1, <2>2, <3>5 DEF Brought, NameIn, ContentIn
      <3>6. \A o \in DOMAIN Payload(i) :
               Brought(i, o)' \/ \E u \in req'[i].todo : u[2] = NameIn(o, req[i].into)
        <4>1. \A u \in req[i].todo : \E v \in req'[i].todo : v[2] = u[2]
          <5>1. <<0, t[2]>>[2] = t[2] /\ <<0, t[2]>> \in req'[i].todo
            BY <2>1
          <5>2. \A u \in req[i].todo : u # t => u \in req'[i].todo
            BY <2>1
          <5>3. QED
            BY <5>1, <5>2
        <4>2. QED
          BY <1>1, <3>2, <3>5, <4>1 DEF Left
      <3>7. Left(i)'
        BY <2>1, <2>2, <3>6 DEF Left, NameIn
      <3>8. QED
        BY <3>3, <3>4, <3>7
    <2>3. QED
      BY <1>1, <1>7, <2>1, <2>2, ImportMoves DEF Identified
  <1>10. QED
    BY <1>6, <1>8, <1>9

\* What is made under a name is the object of the bundle that has this name.
LEMMA ContentIs ==
    ASSUME IInv, NEW i \in Imports, req[i].at # "idle", NEW o \in DOMAIN Payload(i)
    PROVE  ContentOf(i, NameIn(o, req[i].into)) = ContentIn(o, Payload(i)[o], req[i].into)
  <1> DEFINE p == req[i].into
  <1>1. \A q \in DOMAIN Payload(i) : Named(q)
    BY Bundles DEF WellFormed
  <1>2. \A q \in DOMAIN Payload(i) : NameIn(q, p) = NameIn(o, p) => q = o
    BY <1>1, Names
  <1>3. (CHOOSE x \in DOMAIN Payload(i) : NameIn(x, p) = NameIn(o, p)) = o
    BY <1>2
  <1>4. NameIn(o, p)[1] # "namespace"
    BY <1>1, NameKind
  <1>5. QED
    BY <1>3, <1>4 DEF ContentOf

\* What an import has to create has a place and, created, what belongs there.
LEMMA IsPlaced ==
    ASSUME IInv, NEW i \in Imports, req[i].at # "idle", NEW t, Task(i, t)
    PROVE  WellPlaced(t[2], ContentOf(i, t[2]))
  <1> DEFINE n == t[2]
             p == req[i].into
  <1>1. CASE IsSpace(n, p)
    <2>1. n[1] = "namespace" /\ n = <<"namespace", n[2], n[3]>> /\ n[2] \in Elements(EnvOrder)
      BY <1>1 DEF IsSpace
    <2>2. Placed(n)
      BY <2>1 DEF Placed
    <2>3. QED
      BY <2>1, <2>2 DEF WellPlaced, Holds
  <1>2. ASSUME NEW o \in DOMAIN Payload(i), n = NameIn(o, p) PROVE WellPlaced(n, ContentOf(i, n))
    <2>1. WellFormed(o, Payload(i)[o])
      BY Bundles
    <2>2. ContentOf(i, n) = ContentIn(o, Payload(i)[o], p)
      BY <1>2, ContentIs
    <2> DEFINE c == Payload(i)[o]
    <2> HIDE DEF n, p, c
    <2>3. Placed(n) /\ n[1] = o[1]
      BY <1>2, <2>1 DEF WellFormed, Named, NameIn, Placed, Config, Kept
    <2>4. Holds(n, ContentIn(o, c, p))
      BY <2>1, <2>3 DEF WellFormed, Holds, ContentIn, IsApp, IsProject, c
    <2>5. QED
      BY <2>2, <2>3, <2>4 DEF WellPlaced, c
  <1>3. QED
    BY <1>1, <1>2 DEF Task

\* An import has gone on past t.
LEMMA GoesOn ==
    ASSUME NEW i \in Requests, Frames, NEW t, Becomes(i, [Through(i, t) EXCEPT !.at = "apply"])
    PROVE  /\ Only(i) /\ req'[i].at = "apply" /\ req'[i].key = req[i].key
           /\ req'[i].todo = req[i].todo \ {t}
           /\ req'[i].bundle = req[i].bundle /\ req'[i].into = req[i].into
  <1>1. DOMAIN req[i] = Fields
    BY DEF Frames
  <1> DEFINE z == [[req[i] EXCEPT !.todo = req[i].todo \ {t}] EXCEPT !.at = "apply"]
  <1>2. /\ DOMAIN z = Fields /\ z.at = "apply" /\ z.key = req[i].key
        /\ z.todo = req[i].todo \ {t}
        /\ z.bundle = req[i].bundle /\ z.into = req[i].into
    BY <1>1 DEF Fields
  <1>3. Becomes(i, z)
    BY DEF Through
  <1> HIDE DEF z
  <1>4. QED
    BY <1>2, <1>3, Moves

\* The first thing to be created of a project is the project itself.
LEMMA ProjectComesFirst ==
    ASSUME IInv, NEW i \in Imports, req[i].at \in {"apply", "make"}, NEW t \in First(req[i].todo)
    PROVE  \/ t[2][1] \in {"registry", "project"}
           \/ /\ <<"project", req[i].into>> \in DOMAIN target
              /\ maker[<<"project", req[i].into>>] = i
  <1> DEFINE first == <<2, <<"project", req[i].into>>>>
  <1>1. t \in req[i].todo /\ Task(i, t)
    BY DEF First, IInv, Imported, Tasks
  <1>2. CASE first \in req[i].todo
    <2>1. first[1] = 2
      OBVIOUS
    <2> HIDE DEF first
    <2>2. t[1] <= 2 /\ t[1] \in Nat
      BY <1>1, <1>2, <2>1 DEF First, Task
    <2>3. t[1] \in {0, 1} \/ t[1] = 2
      BY <2>2
    <2>4. QED
      BY <1>1, <2>3 DEF Task
  <1>3. CASE first \notin req[i].todo
    BY <1>3 DEF IInv, Imported, Opened
  <1>4. QED
    BY <1>2, <1>3

\* What an import creates is of its own project.
LEMMA CreatesOwn ==
    ASSUME IInv, NEW i \in Imports, req[i].at \in {"apply", "make"}, NEW t \in First(req[i].todo),
           t[2] \notin DOMAIN target,
           target' = With(target, t[2], ContentOf(i, t[2])), maker' = With(maker, t[2], i)
    PROVE  ProjectOfOne'
  <1> DEFINE n == t[2]
             p == req[i].into
  <1>1. World /\ ProjectOfOne /\ t \in req[i].todo /\ Task(i, t)
    BY DEF First, IInv, Imported, Tasks
  <1>2. /\ DOMAIN target' = DOMAIN target \cup {n}
        /\ \A o \in DOMAIN target : target'[o] = target[o] /\ maker'[o] = maker[o]
        /\ target'[n] = ContentOf(i, n) /\ maker'[n] = i
    <2>1. /\ n \notin DOMAIN target
          /\ target' = With(target, n, ContentOf(i, n)) /\ maker' = With(maker, n, i)
      OBVIOUS
    <2>2. DOMAIN maker = DOMAIN target /\ \A o \in DOMAIN maker : maker[o] \in Imports \cup {None}
      BY <1>1 DEF World
    <2> HIDE DEF n
    <2>3. QED
      BY <1>1, <2>1, <2>2, Adds
  <1>3. ASSUME NEW q \in As, InProject(n, q)'
        PROVE  q = p /\ n[1] \notin {"registry", "project"}
    <2>1. n[1] \in {"app"} \cup Kept
      BY <1>3 DEF InProject
    <2>2. ~IsSpace(n, p)
      BY <2>1 DEF IsSpace, Kept, Config
    <2>3. PICK o \in DOMAIN Payload(i) : n = NameIn(o, p)
      BY <1>1, <2>2 DEF Task
    <2>4. WellFormed(o, Payload(i)[o])
      BY Bundles
    <2>5. n[1] = o[1] /\ (o[1] \in Kept => n[4] = p)
      BY <2>3, <2>4, NameKind DEF WellFormed
    <2>6. CASE n[1] = "app"
      <3>1. target'[n] = ContentIn(o, Payload(i)[o], p)
        BY <1>2, <2>3, ContentIs
      <3>2. target'[n].project = p
        BY <2>4, <2>5, <2>6, <3>1 DEF ContentIn, WellFormed, Holds, IsApp
      <3>3. QED
        BY <1>3, <2>6, <3>2 DEF InProject, Kept, Config
    <2>7. CASE n[1] \in Kept
      BY <1>3, <2>5, <2>7 DEF InProject, Kept, Config
    <2>8. QED
      BY <2>1, <2>6, <2>7
  <1> HIDE DEF n
  <1>4. ASSUME NEW o \in DOMAIN target', NEW q \in As, InProject(o, q)', maker'[o] # None
        PROVE  /\ <<"project", q>> \in DOMAIN target'
               /\ maker'[<<"project", q>>] = maker'[o]
    <2>1. CASE o = n
      <3>1. q = p /\ n[1] \notin {"registry", "project"}
        BY <1>3, <1>4, <2>1
      <3>2. <<"project", p>> \in DOMAIN target /\ maker[<<"project", p>>] = i
        BY <3>1, ProjectComesFirst DEF n
      <3>3. QED
        BY <1>2, <2>1, <3>1, <3>2
    <2>2. CASE o # n
      <3>1. o \in DOMAIN target /\ InProject(o, q) /\ maker[o] # None
        BY <1>2, <1>4, <2>2 DEF InProject
      <3>2. <<"project", q>> \in DOMAIN target /\ maker[<<"project", q>>] = maker[o]
        BY <1>1, <3>1 DEF ProjectOfOne
      <3>3. QED
        BY <1>2, <3>1, <3>2
    <2>3. QED
      BY <2>1, <2>2
  <1>5. QED
    BY <1>4 DEF ProjectOfOne

LEMMA CreatesObject ==
    ASSUME IInv, NEW i \in Imports, Create(i)
    PROVE  IInv'
  <1>1. /\ i \in Requests /\ Frames /\ World /\ UNCHANGED <<source, key, users>>
        /\ req[i].at \in {"apply", "make"}
    BY DEF Requests, IInv, Create, At
  <1>2. PICK t \in First(req[i].todo) :
          LET n == t[2]
              goesOn == [Through(i, t) EXCEPT !.at = "apply"]
          IN  \/ /\ Creatable(n)
                 /\ target' = IF n \in DOMAIN target THEN target ELSE With(target, n, ContentOf(i, n))
                 /\ maker'  = IF n \in DOMAIN target THEN maker ELSE With(maker, n, i)
                 /\ Becomes(i, goesOn)
              \/ /\ Found(n) /\ Becomes(i, goesOn) /\ UNCHANGED <<target, maker>>
              \/ /\ ~Creatable(n) /\ ~Found(n)
                 /\ Becomes(i, Place(i, "failed")) /\ UNCHANGED <<target, maker>>
              \/ Refused(i, Place(i, "failed")) /\ UNCHANGED <<target, maker>>
    BY DEF Create
  <1> DEFINE n      == t[2]
             goesOn == [Through(i, t) EXCEPT !.at = "apply"]
  <1>3. t \in req[i].todo /\ Task(i, t) /\ req[i].at # "idle"
    BY <1>1 DEF First, IInv, Imported, Tasks
  <1>4. CASE /\ Creatable(n)
             /\ target' = IF n \in DOMAIN target THEN target ELSE With(target, n, ContentOf(i, n))
             /\ maker'  = IF n \in DOMAIN target THEN maker ELSE With(maker, n, i)
             /\ Becomes(i, goesOn)
    <2>1. /\ n \notin DOMAIN target
          /\ target' = With(target, n, ContentOf(i, n)) /\ maker' = With(maker, n, i)
      BY <1>4 DEF Creatable
    <2>2. /\ DOMAIN target' = DOMAIN target \cup {n} /\ DOMAIN maker' = DOMAIN target'
          /\ \A o \in DOMAIN target : target'[o] = target[o] /\ maker'[o] = maker[o]
          /\ target'[n] = ContentOf(i, n) /\ maker'[n] = i
          /\ \A o \in DOMAIN maker' : maker'[o] \in Imports \cup {None}
      BY <1>1, <2>1, Adds
    <2>3. ProjectOfOne'
      BY <1>1, <2>1, CreatesOwn
    <2>4. World' /\ Grows
      <3>1. WellPlaced(n, ContentOf(i, n))
        BY <1>3, IsPlaced
      <3>2. \A m \in DOMAIN target' : WellPlaced(m, target'[m])
        BY <1>1, <2>2, <3>1 DEF World
      <3> HIDE DEF n
      <3>3. QED
        BY <1>1, <2>2, <3>2 DEF World, Grows, WellFormed, WellPlaced, Placed, Named,
                                Holds, IsApp, IsProject
    <2>5. /\ Only(i) /\ req'[i].at = "apply" /\ req'[i].key = req[i].key
          /\ req'[i].todo = req[i].todo \ {t}
          /\ req'[i].bundle = req[i].bundle /\ req'[i].into = req[i].into
      BY <1>1, <1>4, GoesOn
    <2>6. ASSUME Payload(i)' = Payload(i) PROVE Tasks(i)' /\ Opened(i)' /\ Left(i)'
      <3>1. t = <<2, <<"project", req[i].into>>>> => n = <<"project", req[i].into>>
        OBVIOUS
      <3>2. ASSUME NEW o \in DOMAIN Payload(i), n = NameIn(o, req[i].into) PROVE Brought(i, o)'
        <4>1. target'[n] = ContentIn(o, Payload(i)[o], req[i].into)
          BY <1>3, <2>2, <3>2, ContentIs
        <4> HIDE DEF n
        <4>2. QED
          BY <2>2, <2>5, <2>6, <3>2, <4>1 DEF Brought, NameIn, ContentIn
      <3>3. QED
        BY <1>1, <1>3, <2>2, <2>4, <2>5, <2>6, <3>1, <3>2, IsThrough
    <2>7. QED
      BY <1>1, <2>3, <2>4, <2>5, <2>6, ImportMoves DEF Identified
  <1>5. CASE Found(n) /\ Becomes(i, goesOn) /\ UNCHANGED <<target, maker>>
    <2>1. World' /\ ProjectOfOne' /\ Grows
      BY <1>1, <1>5, SameWorld DEF IInv, Grows, World
    <2>2. /\ Only(i) /\ req'[i].at = "apply" /\ req'[i].key = req[i].key
          /\ req'[i].todo = req[i].todo \ {t}
          /\ req'[i].bundle = req[i].bundle /\ req'[i].into = req[i].into
      BY <1>1, <1>5, GoesOn
    <2>3. n[1] = "namespace"
      BY <1>5 DEF Found
    <2>4. \A o \in DOMAIN Payload(i) : n # NameIn(o, req[i].into)
      BY <1>3, <2>3, Bundles, NameKind DEF WellFormed
    <2>5. t # <<2, <<"project", req[i].into>>>>
      BY <2>3
    <2>6. ASSUME Payload(i)' = Payload(i) PROVE Tasks(i)' /\ Opened(i)' /\ Left(i)'
      BY <1>1, <1>3, <2>1, <2>2, <2>4, <2>5, <2>6, IsThrough
    <2>7. QED
      BY <1>1, <2>1, <2>2, <2>6, ImportMoves DEF Identified
  <1>6. CASE /\ Becomes(i, Place(i, "failed")) \/ Refused(i, Place(i, "failed"))
             /\ UNCHANGED <<target, maker>>
    BY <1>1, <1>6, GivesUp DEF At
  <1>7. QED
    BY <1>2, <1>4, <1>5, <1>6

LEMMA Finishes ==
    ASSUME IInv, NEW i \in Imports, Finish(i)
    PROVE  IInv'
  <1>1. /\ i \in Requests /\ Frames /\ req[i].at = "apply" /\ req[i].todo = {}
        /\ UNCHANGED <<source, target, maker, key, users>>
    BY DEF Requests, IInv, Finish, At
  <1>2. Leaves(i, "done")
    BY <1>1, PlaceMoves DEF Finish
  <1>3. World' /\ ProjectOfOne' /\ Grows
    BY <1>1, SameWorld DEF IInv, Grows, World
  <1>4. ASSUME Payload(i)' = Payload(i) PROVE Tasks(i)' /\ Opened(i)' /\ Left(i)'
    <2>1. Left(i)
      BY DEF IInv, Imported
    <2>2. ASSUME NEW o \in DOMAIN Payload(i) PROVE Brought(i, o)'
      <3>1. Brought(i, o)
        BY <1>1, <2>1 DEF Left
      <3>2. QED
        BY <1>1, <1>2, <1>4, <3>1 DEF Leaves, Brought, NameIn, ContentIn
    <2>3. QED
      BY <1>1, <1>2, <1>4, <2>2 DEF Leaves, Tasks, Opened, Left
  <1>5. QED
    BY <1>1, <1>2, <1>3, <1>4, ImportMoves DEF Leaves, Identified

-----------------------------------------------------------------------------
(* The invariant holds *)

LEMMA InitInv == Init => IInv
  <1> SUFFICES ASSUME Init PROVE IInv
    OBVIOUS
  <1>1. PICK s \in Starts : /\ source = s.source /\ target = s.target
                            /\ maker = [o \in DOMAIN s.target |-> None]
    BY DEF Init
  <1>2. key = None /\ req = [r \in Requests |-> NewRequest] /\ users = 0
    BY DEF Init
  <1>3. /\ DOMAIN NewRequest = Fields /\ NewRequest.at = "idle" /\ NewRequest.key = None
        /\ NewRequest.todo = {} /\ DOMAIN NewRequest.has = {}
    BY DEF NewRequest, Fields, Nothing
  <1>4. Frames /\ \A r \in Requests : req[r] = NewRequest
    BY <1>2, <1>3 DEF Frames
  <1>5. World
    BY <1>1, <1>2, SourceAssumption, TransferAssumption DEF World
  <1>6. ProjectOfOne
    BY <1>1 DEF ProjectOfOne
  <1>7. \A r \in Requests : KeyTyped(r) /\ Identity(r)
    BY <1>3, <1>4 DEF KeyTyped, Identity, Identified
  <1>8. \A x \in Exports : Exported(x)
    BY <1>3, <1>4 DEF Requests, Exported, Holding, Complete, Exporting
  <1>9. \A i \in Imports : Imported(i)
    BY <1>3, <1>4 DEF Requests, Imported, Bound, Tasks, Opened, Left
  <1>10. QED
    BY <1>4, <1>5, <1>6, <1>7, <1>8, <1>9 DEF IInv, Requests

\* Nothing moves.
LEMMA Stutters == IInv /\ UNCHANGED vars => IInv'
  <1> SUFFICES ASSUME IInv, UNCHANGED vars PROVE IInv'
    OBVIOUS
  <1>1. UNCHANGED <<source, target, maker, key, req, users>>
    BY DEF vars
  <1>2. Frames' /\ World' /\ ProjectOfOne'
    BY <1>1, SameWorld DEF IInv, Frames, World
  <1>3. \A r \in Requests : KeyTyped(r)'
    BY <1>1 DEF IInv, KeyTyped
  <1>4. \A r \in Imports \cup Readers : Identity(r)'
    BY <1>1, SameIdentity DEF IInv, Requests
  <1>5. \A x \in Exports : Exported(x)'
    BY <1>1, SameExport DEF IInv
  <1>6. Grows /\ Stay
    BY <1>1 DEF Grows, Stay, At
  <1>7. \A i \in Imports : Imported(i)'
    BY <1>1, <1>6, SameImport DEF IInv
  <1>8. QED
    BY <1>2, <1>3, <1>4, <1>5, <1>7 DEF IInv

LEMMA NextInv == IInv /\ [Next]_vars => IInv'
  <1> SUFFICES ASSUME IInv, [Next]_vars PROVE IInv'
    OBVIOUS
  <1>1. ASSUME NEW r \in Imports \cup Readers, Identify(r) PROVE IInv'
    BY <1>1, ReadsIdentity, StoresIdentity, RereadsIdentity DEF Identify
  <1>2. ASSUME NEW g \in Readers, Publish(g) PROVE IInv'
    BY <1>2, Publishes
  <1>3. ASSUME NEW x \in Exports, ExportStep(x) PROVE IInv'
    BY <1>3, ReadsProject, ListsApps, ReadsConfig, ListsShared, ListsRegistry DEF ExportStep
  <1>4. ASSUME NEW i \in Imports, ImportStep(i) PROVE IInv'
    BY <1>4, Opens, ChecksName, LooksRegistry, CreatesObject, Finishes DEF ImportStep
  <1>5. CASE EditSource
    BY <1>5, EditsSource
  <1>6. CASE CreateTarget
    BY <1>6, CreatesTarget
  <1>7. CASE UNCHANGED vars
    BY <1>7, Stutters
  <1>8. QED
    BY <1>1, <1>2, <1>3, <1>4, <1>5, <1>6, <1>7 DEF Next

\* The invariant: what is stored, the keys of requests, what exports have collected, and what
\* imports have brought or have still to bring.
THEOREM TransferIsSound == Spec => []IInv
  <1>1. QED
    BY InitInv, NextInv, PTL DEF Spec

\* The source and the target hold well-formed objects, those of the target with a maker; keys are
\* of who may generate one; what an export has collected is well formed, and so is the bundle an
\* import is of; what an export has to read is configuration of a listed application, and what an
\* import has to create has a place under the name it takes.
THEOREM TypeCorrect == Spec => []TypeOK
  <1>1. IInv => TypeOK
    <2> SUFFICES ASSUME IInv PROVE TypeOK
      OBVIOUS
    <2>1. ASSUME NEW i \in Imports, NEW t \in req[i].todo
          PROVE  t[1] \in Nat /\ (t[2][1] \in {"app", "registry"} \/ t[2][Len(t[2])] = req[i].into)
      <3>1. Task(i, t)
        BY DEF IInv, Imported, Tasks
      <3>2. req[i].at # "idle"
        BY DEF IInv, Imported, Tasks
      <3>3. CASE IsSpace(t[2], req[i].into)
        <4> DEFINE e == t[2][2]
                   p == req[i].into
        <4>1. t[2] = <<"namespace", e, p>>
          BY <3>3 DEF IsSpace
        <4> HIDE DEF e, p
        <4>2. Len(<<"namespace", e, p>>) = 3 /\ <<"namespace", e, p>>[3] = p
          OBVIOUS
        <4>3. QED
          BY <3>1, <4>1, <4>2 DEF Task, p
      <3>4. ASSUME NEW o \in DOMAIN Payload(i), t[2] = NameIn(o, req[i].into)
            PROVE  t[2][1] \in {"app", "registry"} \/ t[2][Len(t[2])] = req[i].into
        <4>1. WellFormed(o, Payload(i)[o])
          BY <3>2, Bundles
        <4>2. CASE o[1] = "project"
          BY <3>4, <4>2 DEF NameIn
        <4>3. CASE o[1] \in {"app", "registry"}
          BY <3>4, <4>3 DEF NameIn
        <4>4. CASE o[1] \notin {"project", "app", "registry"}
          BY <3>4, <4>4 DEF NameIn
        <4>5. QED
          BY <4>2, <4>3, <4>4
      <3>5. QED
        BY <3>1, <3>3, <3>4 DEF Task
    <2>2. ASSUME NEW i \in Imports, NEW t \in req[i].todo PROVE Placed(t[2])
      BY IsPlaced DEF IInv, Imported, Tasks, WellPlaced
    <2>3. \A r \in Imports \cup Readers :
             req[r].at \in {"idle", "store", "reread", "known", "check", "apply", "make", "done", "failed"}
      BY DEF IInv, Identity, Identified
    <2>4. \A x \in Exports :
             /\ req[x].at \in {"idle", "apps", "config", "registry", "done", "failed"}
             /\ req[x].at \notin {"idle", "failed"} => <<"project">> \in DOMAIN req[x].has
             /\ \A o \in DOMAIN req[x].has : WellFormed(o, req[x].has[o])
             /\ \A t \in req[x].todo : \E k \in Config, e \in Elements(EnvOrder) :
                   t[1] \in DOMAIN NameOrder /\ t[2] = <<k, NameOrder[t[1]], e>>
      BY DEF IInv, Exported, Holding, Exporting, ToRead
    <2>5. \A i \in Imports : req[i].at # "idle" =>
             At(req[i].bundle, "done") /\ req[i].bundle \in Exports /\ req[i].into \in As
      BY DEF IInv, Imported, Bound
    <2>6. QED
      BY <2>1, <2>2, <2>3, <2>4, <2>5 DEF TypeOK, IInv, World, Frames, KeyTyped
  <1>2. QED
    BY <1>1, TransferIsSound, PTL

\* An installation has one key: it is the one that it stores, that it publishes, and that imports
\* open bundles with, however many requests find none and generate one (InstanceIdentity).
THEOREM IdentityIsOne == Spec => []OneIdentity
  <1>1. IInv => OneIdentity
    BY DEF IInv, OneIdentity, Identity, Identified, At
  <1>2. QED
    BY <1>1, TransferIsSound, PTL

\* All that imports have made of a project was made by the import that made the project
\* (applyPayload creates it before anything that is in it).
THEOREM ProjectsAreOfOne == Spec => []ProjectOfOne
  <1>1. IInv => ProjectOfOne
    BY DEF IInv
  <1>2. QED
    BY <1>1, TransferIsSound, PTL

\* An import that ends well has brought all that belongs to the project, if its export was not
\* refused anything and the source stayed as it was (collectProject, applyPayload).
THEOREM ImportsCarryAll == Spec => []CarriesAll
  <1>1. IInv => CarriesAll
    <2> SUFFICES ASSUME IInv, NEW i \in Imports, At(i, "done"),
                        req[req[i].bundle].clean, req[req[i].bundle].quiet,
                        NEW o \in DOMAIN source, Belongs(o)
                 PROVE  Arrived(o, req[i].into)
      BY DEF CarriesAll
    <2> DEFINE x == req[i].bundle
    <2>1. req[i].at = "done" /\ x \in Exports /\ req[x].at = "done"
      BY DEF At, IInv, Imported, Bound
    <2>2. \A b \in DOMAIN Payload(i) : Brought(i, b)
      BY <2>1 DEF IInv, Imported, Left, Tasks
    <2>3. Complete(x) /\ Payload(i) = req[x].has
      BY <2>1 DEF IInv, Exported, Payload
    <2>4. Named(o)
      BY DEF IInv, World, WellFormed
    <2> HIDE DEF x
    <2>5. CASE o[1] \in {"shared", "registry"}
      <3>1. o \in DOMAIN Payload(i)
        BY <2>1, <2>3, <2>5 DEF Complete, Of, x
      <3>2. QED
        BY <2>2, <2>5, <3>1 DEF Brought, Arrived
    <2>6. CASE o[1] \in {"project", "app"} \cup Config
      <3>1. Same(x, o)
        BY <2>1, <2>3, <2>4, <2>6 DEF Complete, Of, Named, Exporting, Config, Kept, x
      <3>2. o \in DOMAIN Payload(i) /\ Payload(i)[o] = source[o]
        BY <2>3, <3>1 DEF Same
      <3>3. o[1] \notin {"registry", "shared"}
        BY <2>6 DEF Config
      <3>4. QED
        BY <2>2, <3>2, <3>3 DEF Brought, Arrived
    <2>7. QED
      BY <2>4, <2>5, <2>6 DEF Named
  <1>2. QED
    BY <1>1, TransferIsSound, PTL

=============================================================================
