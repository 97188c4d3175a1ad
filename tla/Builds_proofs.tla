----------------------------- MODULE Builds_proofs -----------------------------
(***************************************************************************)
(* For any number of builds, commits, environments and faults, and however *)
(* the names of Jobs collide: what is pinned is the tag of an image that   *)
(* was pushed, or of a build whose Job was deleted and replaced, and two   *)
(* builds wait for one Job only after a cancellation.                      *)
(***************************************************************************)
EXTENDS Builds, TLAPS

Asked  == [env : Envs, commit : Commits]
Row    == [status : {"pending", "running"} \cup Settled, in : Asked, dest : Images]
Job    == [state : {"active", "complete", "failed"}, image : Images]
Places == {"create", "mark", "watch", "pin", "over"}

-----------------------------------------------------------------------------
(* The inductive invariant *)

\* A build that was asked for.
Made(b) == build[b] # Absent

\* A Job was made for a build that has its name, and a complete one has pushed its image.
JobsNamed ==
    \A n \in Names : job[n] # NoJob =>
        /\ \E d \in BuildIds : Made(d) /\ Name(d) = n /\ Dest(d) = job[n].image
        /\ job[n].state = "complete" => job[n].image \in pushed

\* A build that goes on to pin its image has seen it pushed, or was led astray.
PinsPushed == \A b \in BuildIds : pc[b] = "pin" => Pushed(b)

\* The Job a build waits for is there and is its own, unless one of its name was deleted.
JobsKept ==
    \A b \in BuildIds : Waiting(b) /\ Name(b) \notin deleted =>
        job[Name(b)] # NoJob /\ job[Name(b)].image = Dest(b)

\* A tag pinned to an environment is that of such a build for the environment.
PinOf(e, tag) ==
    \E b \in BuildIds :
        Made(b) /\ build[b].in.env = e /\ Pushed(b) /\ tag = AfterColon(Dest(b))
PinsOwn == \A e \in Envs : pinned[e] # None => PinOf(e, pinned[e])

SuccessPushed == \A b \in BuildIds : build[b].status = "success" => Pushed(b)

IInv == TypeOK /\ JobsNamed /\ PinsPushed /\ JobsKept /\ PinsOwn /\ SuccessPushed /\ JobsShared

-----------------------------------------------------------------------------
(* Lemmas *)

\* What the types say of a build that is under way, and of a Job.
LEMMA Fields ==
    ASSUME TypeOK
    PROVE  /\ \A b \in BuildIds : build[b] \in Row \/ build[b] = Absent
           /\ \A b \in BuildIds : pc[b] # "over" \/ cancel[b] # "idle" => build[b] \in Row
           /\ \A b \in BuildIds : build[b] \in Row =>
                 /\ build[b].in \in Asked /\ build[b].in.commit \in Commits
                 /\ Name(b) \in Names /\ Dest(b) \in Images
           /\ \A n \in Names : job[n] \in Job \/ job[n] = NoJob
           /\ NoJob \notin Job
  <1>1. \A b \in BuildIds : build[b] \in Row \/ build[b] = Absent
    BY DEF TypeOK, Row, Asked
  <1>2. \A r \in Row : /\ r.in \in Asked /\ r.in.commit \in Commits
                       /\ JobName[r.in.commit] \in Names /\ r.dest \in Images
    BY BuildsAssumption DEF Row, Asked
  <1>3. \A n \in Names : job[n] \in Job \/ job[n] = NoJob
    BY DEF TypeOK, Job
  <1>4. NoJob \notin Job
    BY DEF NoJob, Job
  <1>5. QED
    BY <1>1, <1>2, <1>3, <1>4 DEF TypeOK, Name, Dest

LEMMA InitInv == Init => IInv
  <1> SUFFICES ASSUME Init PROVE IInv
    OBVIOUS
  <1> USE DEF Init
  <1>1. TypeOK
    BY BuildsAssumption DEF TypeOK
  <1>2. JobsNamed /\ PinsPushed /\ JobsKept
    BY DEF JobsNamed, PinsPushed, JobsKept, Waiting
  <1>3. PinsOwn /\ SuccessPushed /\ JobsShared
    BY DEF PinsOwn, SuccessPushed, JobsShared, Waiting, Absent
  <1>4. QED
    BY <1>1, <1>2, <1>3 DEF IInv

\* A new status is all that changes in a row.
LEMMA StatusKeeps ==
    ASSUME TypeOK, NEW b \in BuildIds, build[b] \in Row,
           NEW s \in {"pending", "running"} \cup Settled, SetStatus(b, s)
    PROVE  /\ build' \in [BuildIds -> Row \cup {Absent}]
           /\ build'[b].status = s /\ build'[b] \in Row
           /\ build'[b].in = build[b].in /\ build'[b].dest = build[b].dest
           /\ \A d \in BuildIds \ {b} : build'[d] = build[d]
  <1>1. build \in [BuildIds -> Row \cup {Absent}]
    BY DEF TypeOK, Row, Asked
  <1> DEFINE new == [build[b] EXCEPT !.status = s]
  <1>2. new \in Row /\ new.status = s /\ new.in = build[b].in /\ new.dest = build[b].dest
    BY DEF Row
  <1>3. build' = [build EXCEPT ![b] = new]
    BY DEF SetStatus
  <1> HIDE DEF new
  <1>4. QED
    BY <1>1, <1>2, <1>3

\* A row that is there is not absent.
LEMMA RowsAreThere == Absent \notin Row
  BY DEF Absent, Row, Settled

-----------------------------------------------------------------------------
(* What is pushed stays so *)

\* Rows keep what was asked for and where it goes; images and deletions are remembered.
Grows ==
    /\ \A d \in BuildIds : Made(d) =>
         Made(d)' /\ build'[d].in = build[d].in /\ build'[d].dest = build[d].dest
    /\ pushed \subseteq pushed' /\ deleted \subseteq deleted'

LEMMA PushedStays ==
    ASSUME Grows, NEW b \in BuildIds, Made(b), Pushed(b)
    PROVE  Pushed(b)'
  <1>1. Name(b)' = Name(b) /\ Dest(b)' = Dest(b)
    BY DEF Grows, Name, Dest
  <1>2. CASE Dest(b) \in pushed
    BY <1>1, <1>2 DEF Grows, Pushed
  <1>3. CASE Dest(b) \notin pushed
    <2>1. PICK d \in BuildIds \ {b} : Made(d) /\ Name(d) = Name(b) /\ Dest(d) \in pushed
      BY <1>3 DEF Pushed, Made
    <2>2. Made(d)' /\ Name(d)' = Name(d) /\ Dest(d)' = Dest(d)
      BY <2>1 DEF Grows, Name, Dest
    <2>3. Name(b) \in deleted /\ Name(b) \in deleted' /\ Dest(d) \in pushed'
      BY <1>3, <2>1 DEF Pushed, Grows
    <2>4. \E f \in BuildIds \ {b} :
            build'[f] # Absent /\ Name(f)' = Name(b)' /\ Dest(f)' \in pushed'
      BY <1>1, <2>1, <2>2, <2>3 DEF Made
    <2>5. QED
      BY <1>1, <2>3, <2>4 DEF Pushed
  <1>4. QED
    BY <1>2, <1>3

LEMMA PinOfStays ==
    ASSUME Grows, NEW e \in Envs, NEW tag, PinOf(e, tag)
    PROVE  PinOf(e, tag)'
  <1>1. PICK b \in BuildIds :
          Made(b) /\ build[b].in.env = e /\ Pushed(b) /\ tag = AfterColon(Dest(b))
    BY DEF PinOf
  <1>2. Made(b)' /\ build'[b].in.env = e /\ Dest(b)' = Dest(b) /\ Pushed(b)'
    BY <1>1, PushedStays DEF Grows, Dest
  <1>3. tag = AfterColon(Dest(b))'
    BY <1>1, <1>2 DEF AfterColon
  <1>4. QED
    BY <1>2, <1>3 DEF PinOf

LEMMA PinsStay == ASSUME Grows, PinsOwn, UNCHANGED pinned PROVE PinsOwn'
  <1> SUFFICES ASSUME NEW e \in Envs, pinned[e] # None PROVE PinOf(e, pinned[e])'
    BY DEF PinsOwn
  <1>1. PICK t : t = pinned[e]
    OBVIOUS
  <1>2. PinOf(e, t)'
    BY <1>1, PinOfStays DEF PinsOwn
  <1>3. QED
    BY <1>1, <1>2 DEF PinOf

LEMMA AllStay ==
    ASSUME TypeOK, Grows, PinsPushed, PinsOwn, SuccessPushed, UNCHANGED <<pc, pinned>>,
           \A d \in BuildIds : build'[d].status = "success" => build[d].status = "success"
    PROVE  PinsPushed' /\ PinsOwn' /\ SuccessPushed'
  <1>1. \A d \in BuildIds : pc[d] = "pin" => Made(d)
    BY DEF TypeOK, Made
  <1>2. \A d \in BuildIds : build[d].status = "success" => Made(d)
    BY DEF Made, Absent
  <1>3. PinsPushed' /\ SuccessPushed'
    BY <1>1, <1>2, PushedStays DEF PinsPushed, SuccessPushed
  <1>4. QED
    BY <1>3, PinsStay

\* What comes after a colon is a tag.
LEMMA ColonTags == \A image \in Images : AfterColon(image) \in Tags
  <1> SUFFICES ASSUME NEW image \in Images PROVE AfterColon(image) \in Tags
    OBVIOUS
  <1>1. image.repository \in Repositories /\ image.tag \in Tags
    BY DEF Images
  <1>2. \A r \in Ported : [image.tag EXCEPT !.port = r] \in Tags
    BY <1>1 DEF Tags
  <1>3. QED
    BY <1>1, <1>2 DEF AfterColon

-----------------------------------------------------------------------------
(* The steps of one build *)

\* A step that leaves the Jobs alone: no build begins to wait, and it only pins or succeeds
\* with what was pushed.
LEMMA BuildStep ==
    ASSUME IInv, TypeOK', Grows, UNCHANGED <<job, deleted, pushed>>,
           \A b \in BuildIds : Waiting(b)' => Waiting(b),
           \A b \in BuildIds : pc'[b] = "pin" => Made(b) /\ Pushed(b),
           \A b \in BuildIds : build'[b].status = "success" => Made(b) /\ Pushed(b),
           \A e \in Envs : pinned'[e] # None => PinOf(e, pinned'[e])
    PROVE  IInv'
  <1> USE DEF IInv
  <1>1. \A b \in BuildIds : Made(b) => Name(b)' = Name(b) /\ Dest(b)' = Dest(b)
    BY DEF Grows, Name, Dest
  <1>2. JobsNamed'
    <2> SUFFICES ASSUME NEW n \in Names, job[n] # NoJob
                 PROVE  \E d \in BuildIds : Made(d)' /\ Name(d)' = n /\ Dest(d)' = job[n].image
      BY DEF JobsNamed
    <2>1. PICK d \in BuildIds : Made(d) /\ Name(d) = n /\ Dest(d) = job[n].image
      BY DEF JobsNamed
    <2>2. QED
      BY <1>1, <2>1 DEF Grows
  <1>3. PinsPushed' /\ SuccessPushed'
    BY PushedStays DEF PinsPushed, SuccessPushed
  <1>4. PinsOwn'
    <2> SUFFICES ASSUME NEW e \in Envs, pinned'[e] # None PROVE PinOf(e, pinned[e])'
      BY DEF PinsOwn
    <2>1. PICK t : t = pinned'[e]
      OBVIOUS
    <2>2. PinOf(e, t)'
      BY <2>1, PinOfStays
    <2>3. QED
      BY <2>1, <2>2 DEF PinOf
  <1>5. \A b \in BuildIds : Waiting(b)' => Waiting(b) /\ Name(b)' = Name(b) /\ Dest(b)' = Dest(b)
    <2>1. \A b \in BuildIds : Waiting(b) => Made(b)
      BY DEF Waiting, TypeOK, Made
    <2>2. QED
      BY <1>1, <2>1
  <1>6. JobsKept'
    BY <1>5 DEF JobsKept
  <1>7. JobsShared'
    BY <1>5 DEF JobsShared
  <1>8. QED
    BY <1>2, <1>3, <1>4, <1>6, <1>7

\* The types as sets that need no expanding.
Types ==
    /\ repository \in Repositories
    /\ build \in [BuildIds -> Row \cup {Absent}]
    /\ pc \in [BuildIds -> Places]
    /\ \A b \in BuildIds : pc[b] # "over" \/ cancel[b] # "idle" => build[b] # Absent
    /\ job \in [Names -> Job \cup {NoJob}]
    /\ cancel \in [BuildIds -> {"idle", "delete", "mark"}]
    /\ pinned \in [Envs -> Tags \cup {None}]
    /\ pushed \in SUBSET Images
    /\ deleted \in SUBSET Names
    /\ faults \in 0 .. MaxFaults

LEMMA SameTypes == (TypeOK <=> Types) /\ (TypeOK' <=> Types')
  BY DEF TypeOK, Types, Row, Asked, Places, Job

LEMMA FaultTypes == ASSUME TypeOK, Fault PROVE faults' \in 0 .. MaxFaults
  BY BuildsAssumption DEF TypeOK, Fault

\* A step of a goroutine keeps the types.
LEMMA GoTypes ==
    ASSUME TypeOK, NEW b \in BuildIds, NEW place \in Places, Go(b, place),
           \/ build' = build /\ build[b] # Absent
           \/ \E s \in {"pending", "running"} \cup Settled : SetStatus(b, s) /\ build[b] # Absent,
           job' \in [Names -> Job \cup {NoJob}], pinned' \in [Envs -> Tags \cup {None}],
           UNCHANGED <<repository, cancel, pushed, deleted>>, faults' \in 0 .. MaxFaults
    PROVE  TypeOK'
  <1>1. Types
    BY SameTypes
  <1>2. pc' = [pc EXCEPT ![b] = place]
    BY DEF Go
  <1>3. /\ build' \in [BuildIds -> Row \cup {Absent}]
        /\ \A d \in BuildIds : build[d] # Absent => build'[d] # Absent
    <2>1. CASE build' = build
      BY <1>1, <2>1 DEF Types
    <2>2. CASE build' # build
      <3>1. build[b] \in Row
        BY <2>2, Fields
      <3>2. QED
        BY <2>2, <3>1, StatusKeeps, RowsAreThere
    <2>3. QED
      BY <2>1, <2>2
  <1>4. Types'
    BY <1>1, <1>2, <1>3 DEF Types
  <1>5. QED
    BY <1>4, SameTypes

\* So does one of a cancellation.
LEMMA CancelTypes ==
    ASSUME TypeOK, NEW b \in BuildIds, NEW place \in {"idle", "delete", "mark"},
           cancel' = [cancel EXCEPT ![b] = place], build[b] # Absent,
           build' = build \/ SetStatus(b, "cancelled"),
           UNCHANGED <<job, deleted>> \/ DeleteJob(b),
           UNCHANGED <<repository, pc, pinned, pushed>>, faults' \in 0 .. MaxFaults
    PROVE  TypeOK'
  <1>1. Types /\ build[b] \in Row /\ Name(b) \in Names
    BY SameTypes, Fields
  <1>2. /\ build' \in [BuildIds -> Row \cup {Absent}]
        /\ \A d \in BuildIds : build[d] # Absent => build'[d] # Absent
    <2>1. CASE build' = build
      BY <1>1, <2>1 DEF Types
    <2>2. CASE build' # build
      BY <1>1, <2>2, StatusKeeps, RowsAreThere DEF Settled
    <2>3. QED
      BY <2>1, <2>2
  <1>3. job' \in [Names -> Job \cup {NoJob}] /\ deleted' \in SUBSET Names
    BY <1>1 DEF Types, DeleteJob
  <1>4. Types'
    BY <1>1, <1>2, <1>3 DEF Types
  <1>5. QED
    BY <1>4, SameTypes

\* A new Job has the name and the image of its build.
LEMMA CreateTypes ==
    ASSUME TypeOK, NEW b \in BuildIds, build[b] # Absent, Create(b)
    PROVE  /\ job' \in [Names -> Job \cup {NoJob}]
           /\ job[Name(b)] = NoJob
           /\ job'[Name(b)] = [state |-> "active", image |-> Dest(b)]
           /\ job'[Name(b)] \in Job
           /\ \A n \in Names \ {Name(b)} : job'[n] = job[n]
  <1>1. Types /\ Dest(b) \in Images /\ Name(b) \in Names
    BY SameTypes, Fields
  <1> DEFINE new == [state |-> "active", image |-> Dest(b)]
  <1>2. new \in Job
    BY <1>1 DEF Job
  <1>3. job' = [job EXCEPT ![Name(b)] = new]
    BY DEF Create
  <1> HIDE DEF new
  <1>4. QED
    BY <1>1, <1>2, <1>3 DEF Types, Create, NameIsFree, new

-----------------------------------------------------------------------------
(* The steps *)

\* A build is asked for.
LEMMA TriggerStep == ASSUME IInv, NEW b \in BuildIds, Trigger(b) PROVE IInv'
  <1> USE DEF IInv
  <1>1. PICK in \in Inputs : build' = [build EXCEPT ![b] =
            [status |-> "pending", in |-> in, dest |-> ImageDest(in.commit)]]
    BY DEF Trigger
  <1> DEFINE new == [status |-> "pending", in |-> in, dest |-> ImageDest(in.commit)]
  <1>2. new \in Row /\ new.status = "pending"
    <2>1. in \in Asked /\ Sha[in.commit] \in Shas /\ repository \in Repositories
      BY BuildsAssumption DEF Asked, TypeOK
    <2>2. ImageDest(in.commit) \in Images
      BY <2>1 DEF ImageDest, Images, Tags
    <2>3. QED
      BY <2>1, <2>2 DEF Row
  <1>3. build' = [build EXCEPT ![b] = new] /\ pc' = [pc EXCEPT ![b] = "create"]
    BY <1>1 DEF Trigger, Go
  <1> HIDE DEF new
  <1>4. Types /\ UNCHANGED <<repository, job, cancel, pinned, pushed, deleted, faults>>
        /\ ~Made(b)
    <2>1. build[b].status = "absent"
      BY DEF Trigger
    <2>2. build[b] \notin Row
      BY <2>1 DEF Row, Settled
    <2>3. QED
      BY <2>2, SameTypes, Fields DEF Trigger, Made
  <1>5. /\ build' \in [BuildIds -> Row \cup {Absent}] /\ build'[b] = new
        /\ \A d \in BuildIds \ {b} : build'[d] = build[d] /\ pc'[d] = pc[d]
        /\ pc'[b] = "create" /\ pc' \in [BuildIds -> Places]
    BY <1>2, <1>3, <1>4 DEF Types, Places
  <1>6. TypeOK'
    <2>1. Types'
      BY <1>2, <1>4, <1>5, RowsAreThere DEF Types
    <2>2. QED
      BY <2>1, SameTypes
  <1>7. Grows
    BY <1>4, <1>5 DEF Grows, Made
  <1>8. \A d \in BuildIds : Waiting(d)' => Waiting(d)
    BY <1>5 DEF Waiting
  <1>9. /\ \A d \in BuildIds : pc'[d] = "pin" => Made(d) /\ Pushed(d)
        /\ \A d \in BuildIds : build'[d].status = "success" => Made(d) /\ Pushed(d)
    <2>1. \A d \in BuildIds : pc[d] = "pin" => Made(d)
      BY DEF TypeOK, Made
    <2>2. \A d \in BuildIds : build[d].status = "success" => Made(d)
      BY DEF Made, Absent
    <2>3. QED
      BY <1>2, <1>5, <2>1, <2>2 DEF PinsPushed, SuccessPushed
  <1>10. QED
    BY <1>4, <1>6, <1>7, <1>8, <1>9, BuildStep DEF PinsOwn

\* A goroutine goes on, with the Jobs as they are.
LEMMA GoStep ==
    ASSUME IInv, NEW b \in BuildIds, NEW place \in {"over", "watch", "pin"}, Go(b, place),
           build[b] # Absent, place = "watch" => Waiting(b), place = "pin" => Pushed(b),
           \/ build' = build
           \/ \E s \in {"pending", "running"} \cup Settled :
                 SetStatus(b, s) /\ (s = "success" => Pushed(b)),
           pinned' \in [Envs -> Tags \cup {None}],
           \A e \in Envs : pinned'[e] # None => PinOf(e, pinned'[e]),
           UNCHANGED <<repository, job, cancel, pushed, deleted>>, faults' \in 0 .. MaxFaults
    PROVE  IInv'
  <1> USE DEF IInv
  <1>1. Types /\ build[b] \in Row /\ place \in Places
    BY SameTypes, Fields DEF Places
  <1>2. TypeOK'
    <2>1. job' \in [Names -> Job \cup {NoJob}]
      BY <1>1 DEF Types
    <2>2. QED
      BY <1>1, <2>1, GoTypes
  <1>3. pc'[b] = place /\ \A d \in BuildIds \ {b} : pc'[d] = pc[d]
    BY <1>1 DEF Go, Types
  <1>4. /\ Grows
        /\ \A d \in BuildIds \ {b} : build'[d] = build[d]
        /\ build'[b].status = "success" => Pushed(b)
    <2>1. CASE build' = build
      BY <2>1 DEF SuccessPushed, Grows, Made
    <2>2. CASE build' # build
      BY <1>1, <2>2, StatusKeeps, RowsAreThere DEF Grows, Made
    <2>3. QED
      BY <2>1, <2>2
  <1>5. \A d \in BuildIds : Waiting(d)' => Waiting(d)
    BY <1>3 DEF Waiting
  <1>6. \A d \in BuildIds : pc'[d] = "pin" => Made(d) /\ Pushed(d)
    <2>1. \A d \in BuildIds : pc[d] = "pin" => Made(d)
      BY DEF TypeOK, Made
    <2>2. QED
      BY <1>3, <2>1 DEF PinsPushed, Made
  <1>7. \A d \in BuildIds : build'[d].status = "success" => Made(d) /\ Pushed(d)
    <2>1. \A d \in BuildIds : build[d].status = "success" => Made(d)
      BY DEF Made, Absent
    <2>2. QED
      BY <1>4, <2>1 DEF SuccessPushed, Made
  <1>8. QED
    BY <1>2, <1>4, <1>5, <1>6, <1>7, BuildStep

\* A build gets its Job and waits for it, or its creation fails with or without a Job.
LEMMA CreateStep ==
    ASSUME IInv, NEW b \in BuildIds, pc[b] = "create", Create(b),
           \/ Go(b, "mark") /\ build' = build
           \/ Go(b, "over") /\ (SetStatus(b, "failed") \/ build' = build),
           UNCHANGED <<repository, cancel, pinned, pushed, deleted>>, faults' \in 0 .. MaxFaults
    PROVE  IInv'
  <1> USE DEF IInv
  <1>1. Types /\ build[b] \in Row /\ build[b] # Absent
    BY SameTypes, Fields DEF TypeOK
  <1>2. /\ job[Name(b)] = NoJob
        /\ job'[Name(b)] = [state |-> "active", image |-> Dest(b)]
        /\ job'[Name(b)] \in Job /\ job' \in [Names -> Job \cup {NoJob}]
        /\ \A n \in Names \ {Name(b)} : job'[n] = job[n]
    BY <1>1, CreateTypes
  <1>3. TypeOK'
    <2>1. pinned' \in [Envs -> Tags \cup {None}]
      BY <1>1 DEF Types
    <2>2. PICK place \in Places : Go(b, place)
      BY DEF Places
    <2>3. build' = build \/ SetStatus(b, "failed")
      OBVIOUS
    <2>4. QED
      BY <1>1, <1>2, <2>1, <2>2, <2>3, GoTypes DEF Settled
  <1>4. /\ \A d \in BuildIds : build'[d].in = build[d].in /\ build'[d].dest = build[d].dest
        /\ \A d \in BuildIds \ {b} : build'[d] = build[d]
        /\ build'[b].status = "success" => build[b].status = "success"
        /\ Grows
    <2>1. CASE build' = build
      BY <2>1 DEF Grows, Made
    <2>2. CASE build' # build
      BY <1>1, <2>2, StatusKeeps, RowsAreThere DEF Settled, Grows, Made
    <2>3. QED
      BY <2>1, <2>2
  <1>5. /\ \A d \in BuildIds \ {b} : pc'[d] = pc[d]
        /\ pc'[b] \in {"mark", "over"}
    BY <1>1 DEF Go, Types
  <1>6. /\ Name(b) \in Names /\ NoJob \notin Job
        /\ \A d \in BuildIds : Name(d)' = Name(d) /\ Dest(d)' = Dest(d)
    BY <1>1, <1>4, Fields DEF Name, Dest
  <1>7. JobsNamed'
    <2> SUFFICES ASSUME NEW n \in Names, job'[n] # NoJob
                 PROVE  /\ \E d \in BuildIds : Made(d)' /\ Name(d)' = n /\ Dest(d)' = job'[n].image
                        /\ job'[n].state = "complete" => job'[n].image \in pushed
      BY DEF JobsNamed
    <2>1. CASE n = Name(b)
      <3>1. job'[n].image = Dest(b) /\ job'[n].state # "complete"
        BY <1>2, <2>1
      <3>2. Made(b)' /\ Name(b)' = n /\ Dest(b)' = job'[n].image
        BY <1>1, <1>4, <1>6, <2>1, <3>1 DEF Grows, Made
      <3>3. QED
        BY <3>1, <3>2
    <2>2. CASE n # Name(b)
      <3>1. job'[n] = job[n]
        BY <1>2, <2>2
      <3>2. PICK d \in BuildIds : Made(d) /\ Name(d) = n /\ Dest(d) = job[n].image
        BY <3>1 DEF JobsNamed
      <3>3. QED
        BY <1>4, <1>6, <3>1, <3>2 DEF JobsNamed, Grows
    <2>3. QED
      BY <2>1, <2>2
  <1>8. \A d \in BuildIds : pc[d] = "pin" => Made(d)
    BY DEF TypeOK, Made
  <1>9. PinsPushed'
    <2>1. \A d \in BuildIds : pc'[d] = "pin" => pc[d] = "pin"
      BY <1>5
    <2>2. QED
      BY <1>4, <1>8, <2>1, PushedStays DEF PinsPushed
  <1>10. \A d \in BuildIds : pc[d] # "over" => Name(d) \in Names
    BY Fields
  <1>11. JobsKept'
    <2> SUFFICES ASSUME NEW d \in BuildIds, Waiting(d)', Name(d) \notin deleted
                 PROVE  job'[Name(d)] # NoJob /\ job'[Name(d)].image = Dest(d)
      BY <1>6 DEF JobsKept
    <2>1. CASE d = b
      BY <1>2, <1>6, <2>1
    <2>2. CASE d # b
      <3>1. Waiting(d) /\ job[Name(d)] # NoJob /\ job[Name(d)].image = Dest(d)
        BY <1>5, <2>2 DEF Waiting, JobsKept
      <3>2. Name(d) # Name(b) /\ Name(d) \in Names
        BY <1>2, <1>10, <3>1 DEF Waiting
      <3>3. QED
        BY <1>2, <3>1, <3>2
    <2>3. QED
      BY <2>1, <2>2
  <1>12. PinsOwn' /\ SuccessPushed'
    <2>1. SuccessPushed'
      <3>1. \A d \in BuildIds : build'[d].status = "success" => build[d].status = "success"
        BY <1>4
      <3>2. \A d \in BuildIds : build[d].status = "success" => Made(d)
        BY DEF Made, Absent
      <3>3. QED
        BY <1>4, <3>1, <3>2, PushedStays DEF SuccessPushed
    <2>2. QED
      BY <1>4, <2>1, PinsStay
  <1>13. JobsShared'
    <2>1. \A d \in BuildIds \ {b} : Waiting(d)' /\ Name(d) = Name(b) => Name(b) \in deleted
      BY <1>2, <1>5 DEF Waiting, JobsKept
    <2>2. QED
      BY <1>5, <1>6, <2>1 DEF JobsShared, Waiting
  <1>14. QED
    BY <1>3, <1>7, <1>9, <1>11, <1>12, <1>13

\* A Job ends, or a finished one that nobody waits for is removed.
LEMMA JobStep == ASSUME IInv, NEW n \in Names, JobEnds(n) \/ JobExpires(n) PROVE IInv'
  <1> USE DEF IInv
  <1>1. Types /\ UNCHANGED <<repository, build, pc, cancel, pinned, deleted, faults>>
    BY SameTypes DEF JobEnds, JobExpires
  <1>2. /\ job[n] \in Job /\ NoJob \notin Job
        /\ \E v : job' = [job EXCEPT ![n] = v]
    <2>1. NoJob.state = "absent"
      BY DEF NoJob
    <2>2. QED
      BY <2>1, Fields DEF JobEnds, JobExpires
  <1>3. \A m \in Names \ {n} : job'[m] = job[m]
    BY <1>1, <1>2 DEF Types
  <1>4. /\ pushed \subseteq pushed' /\ pushed' \subseteq Images
        /\ \/ job'[n] \in Job /\ job'[n].image = job[n].image
              /\ (job'[n].state = "complete" => job[n].image \in pushed')
           \/ job'[n] = NoJob /\ \A b \in BuildIds : Waiting(b) => Name(b) # n
    <2>1. CASE JobEnds(n)
      <3>1. PICK s \in {"complete", "failed"} :
               /\ job' = [job EXCEPT ![n] = [job[n] EXCEPT !.state = s]]
               /\ IF s = "complete" THEN pushed' = pushed \cup {job[n].image} ELSE pushed' = pushed
        BY <2>1 DEF JobEnds
      <3> DEFINE new == [job[n] EXCEPT !.state = s]
      <3>2. new \in Job /\ new.image = job[n].image /\ new.state = s
        BY <1>2 DEF Job
      <3>3. job' = [job EXCEPT ![n] = new] /\ job[n].image \in Images
        BY <1>2, <3>1 DEF Job
      <3> HIDE DEF new
      <3>4. job'[n] = new
        BY <1>1, <3>3 DEF Types
      <3>5. QED
        BY <1>1, <3>1, <3>2, <3>3, <3>4 DEF Types
    <2>2. CASE JobExpires(n)
      BY <1>1, <2>2 DEF JobExpires, Waiting, Types
    <2>3. QED
      BY <2>1, <2>2
  <1>5. TypeOK'
    <2>1. job' \in [Names -> Job \cup {NoJob}]
      BY <1>1, <1>2, <1>3, <1>4 DEF Types
    <2>2. Types'
      BY <1>1, <1>4, <2>1 DEF Types
    <2>3. QED
      BY <2>2, SameTypes
  <1>6. /\ \A b \in BuildIds : Waiting(b)' = Waiting(b) /\ Made(b)' = Made(b)
        /\ \A b \in BuildIds : Name(b)' = Name(b) /\ Dest(b)' = Dest(b)
    BY <1>1 DEF Waiting, Name, Made, Dest
  <1>7. JobsNamed'
    <2> SUFFICES ASSUME NEW m \in Names, job'[m] # NoJob
                 PROVE  /\ \E d \in BuildIds : Made(d) /\ Name(d) = m /\ Dest(d) = job'[m].image
                        /\ job'[m].state = "complete" => job'[m].image \in pushed'
      BY <1>6 DEF JobsNamed
    <2>1. job[m] # NoJob /\ job'[m].image = job[m].image
      BY <1>2, <1>3, <1>4
    <2>2. \E d \in BuildIds : Made(d) /\ Name(d) = m /\ Dest(d) = job[m].image
      BY <2>1 DEF JobsNamed
    <2>3. job'[m].state = "complete" => job'[m].image \in pushed'
      BY <1>3, <1>4, <2>1 DEF JobsNamed
    <2>4. QED
      BY <2>1, <2>2, <2>3
  <1>8. PinsPushed' /\ PinsOwn' /\ SuccessPushed'
    BY <1>1, <1>4, <1>6, AllStay DEF Grows
  <1>9. \A b \in BuildIds : Waiting(b) => Name(b) \in Names
    BY Fields DEF Waiting
  <1>10. JobsKept'
    <2> SUFFICES ASSUME NEW d \in BuildIds, Waiting(d), Name(d) \notin deleted
                 PROVE  job'[Name(d)] # NoJob /\ job'[Name(d)].image = Dest(d)
      BY <1>1, <1>6 DEF JobsKept
    <2>1. job[Name(d)] # NoJob /\ job[Name(d)].image = Dest(d) /\ Name(d) \in Names
      BY <1>9 DEF JobsKept
    <2>2. QED
      BY <1>2, <1>3, <1>4, <2>1
  <1>11. JobsShared'
    BY <1>1, <1>6 DEF JobsShared
  <1>12. QED
    BY <1>5, <1>7, <1>8, <1>10, <1>11

\* A cancellation deletes a Job, at most, and remembers its name.
LEMMA CancelStep ==
    ASSUME IInv, NEW b \in BuildIds,
           CancelRead(b) \/ CancelDelete(b) \/ CancelMark(b) \/ CancelFails(b)
    PROVE  IInv'
  <1> USE DEF IInv
  <1>1. Types /\ build[b] # Absent /\ build[b] \in Row /\ Name(b) \in Names
    <2>1. ~Cancellable(Absent.status)
      BY DEF Cancellable, Absent
    <2>2. build[b] # Absent
      BY <2>1 DEF CancelRead, CancelDelete, CancelMark, CancelFails, TypeOK
    <2>3. QED
      BY <2>2, SameTypes, Fields
  <1>2. /\ UNCHANGED <<repository, pc, pinned, pushed>>
        /\ \E place \in {"idle", "delete", "mark"} : cancel' = [cancel EXCEPT ![b] = place]
        /\ build' = build \/ SetStatus(b, "cancelled")
        /\ UNCHANGED <<job, deleted>> \/ DeleteJob(b)
    BY DEF CancelRead, CancelDelete, CancelMark, CancelFails
  <1>3. faults' \in 0 .. MaxFaults
    <2>1. Fault \/ faults' = faults
      BY DEF CancelRead, CancelDelete, CancelMark, CancelFails
    <2>2. QED
      BY <1>1, <2>1, FaultTypes DEF Types
  <1>4. TypeOK'
    BY <1>1, <1>2, <1>3, CancelTypes
  <1>5. /\ \A d \in BuildIds : build'[d].in = build[d].in /\ build'[d].dest = build[d].dest
        /\ \A d \in BuildIds : Made(d) => Made(d)'
        /\ \A d \in BuildIds : build'[d].status = "success" => build[d].status = "success"
    <2>1. CASE build' = build
      BY <2>1 DEF Made
    <2>2. CASE build' # build
      BY <1>1, <1>2, <2>2, StatusKeeps, RowsAreThere DEF Settled, Made
    <2>3. QED
      BY <2>1, <2>2
  <1>6. \A d \in BuildIds : /\ Waiting(d)' = Waiting(d)
                            /\ Name(d)' = Name(d) /\ Dest(d)' = Dest(d)
    BY <1>2, <1>5 DEF Waiting, Name, Dest
  <1>7. /\ deleted \subseteq deleted'
        /\ \A n \in Names : job'[n] = job[n] \/ (job'[n] = NoJob /\ n \in deleted')
    BY <1>1, <1>2 DEF DeleteJob, Types
  <1>8. JobsNamed'
    <2> SUFFICES ASSUME NEW m \in Names, job'[m] # NoJob
                 PROVE  /\ \E d \in BuildIds : Made(d)' /\ Name(d)' = m /\ Dest(d)' = job'[m].image
                        /\ job'[m].state = "complete" => job'[m].image \in pushed
      BY <1>2 DEF JobsNamed
    <2>1. job'[m] = job[m]
      BY <1>7
    <2>2. PICK d \in BuildIds : Made(d) /\ Name(d) = m /\ Dest(d) = job[m].image
      BY <2>1 DEF JobsNamed
    <2>3. QED
      BY <1>5, <1>6, <2>1, <2>2 DEF JobsNamed
  <1>9. PinsPushed' /\ PinsOwn' /\ SuccessPushed'
    BY <1>2, <1>5, <1>7, AllStay DEF Grows
  <1>10. \A d \in BuildIds : Waiting(d) => Name(d) \in Names
    BY Fields DEF Waiting
  <1>11. JobsKept'
    <2> SUFFICES ASSUME NEW d \in BuildIds, Waiting(d), Name(d) \notin deleted'
                 PROVE  job'[Name(d)] # NoJob /\ job'[Name(d)].image = Dest(d)
      BY <1>6 DEF JobsKept
    <2>1. job[Name(d)] # NoJob /\ job[Name(d)].image = Dest(d) /\ Name(d) \in Names
      BY <1>7, <1>10 DEF JobsKept
    <2>2. QED
      BY <1>7, <2>1
  <1>12. JobsShared'
    BY <1>6, <1>7 DEF JobsShared
  <1>13. QED
    BY <1>4, <1>8, <1>9, <1>11, <1>12

\* The server dies.
LEMMA CrashStep == ASSUME IInv, Crash PROVE IInv'
  <1> USE DEF IInv
  <1>1. TypeOK'
    <2>1. Types /\ faults' \in 0 .. MaxFaults
      BY SameTypes, FaultTypes DEF Crash
    <2>2. Types'
      BY <2>1 DEF Types, Crash, Places
    <2>3. QED
      BY <2>2, SameTypes
  <1>2. \A b \in BuildIds : pc'[b] = "over"
    BY DEF Crash
  <1>3. Grows /\ \A b \in BuildIds : build[b].status = "success" => Made(b)
    BY DEF Crash, Grows, Made, Absent
  <1>4. QED
    BY <1>1, <1>2, <1>3, BuildStep DEF Crash, Waiting, PinsOwn, SuccessPushed

\* The app's repository is edited.
LEMMA UpdateStep == ASSUME IInv, UpdateApp PROVE IInv'
  <1> USE DEF IInv
  <1>1. TypeOK' /\ UNCHANGED <<build, pc, job, cancel, pinned, pushed, deleted, faults>>
    BY DEF UpdateApp, TypeOK
  <1>2. Grows /\ \A b \in BuildIds : Waiting(b)' = Waiting(b)
    BY <1>1 DEF Grows, Made, Waiting
  <1>3. /\ \A b \in BuildIds : build[b].status = "success" => Made(b)
        /\ \A b \in BuildIds : pc[b] = "pin" => Made(b)
    BY DEF Made, Absent, TypeOK
  <1>4. QED
    BY <1>1, <1>2, <1>3, BuildStep DEF PinsOwn, PinsPushed, SuccessPushed

\* The goroutine of a build, and what may go wrong in it.
LEMMA ProceedStep ==
    ASSUME IInv, NEW b \in BuildIds,
           Proceed(b) \/ CreateFails(b) \/ MarkLost(b) \/ PinFails(b)
    PROVE  IInv'
  <1> USE DEF IInv
  <1>1. build[b] # Absent /\ build[b] \in Row /\ Types
    <2>1. pc[b] # "over"
      BY DEF Proceed, CreateJob, MarkRunning, Poll, Timeout, Impatient, Pin, CreateFails,
         MarkLost, PinFails
    <2>2. QED
      BY <2>1, Fields, SameTypes DEF TypeOK
  <1>2. /\ pinned \in [Envs -> Tags \cup {None}]
        /\ \A e \in Envs : pinned[e] # None => PinOf(e, pinned[e])
        /\ faults \in 0 .. MaxFaults
    BY <1>1 DEF Types, PinsOwn
  <1>3. ASSUME Fault PROVE faults' \in 0 .. MaxFaults
    BY <1>3, FaultTypes
  <1>4. CASE CreateJob(b)
    <2>1. CASE NameIsFree(Name(b))
      BY <1>2, <1>4, <2>1, CreateStep DEF CreateJob
    <2>2. CASE ~NameIsFree(Name(b))
      BY <1>1, <1>2, <1>4, <2>2, GoStep DEF CreateJob, Settled
    <2>3. QED
      BY <2>1, <2>2
  <1>5. CASE CreateFails(b)
    <2>1. /\ pc[b] = "create" /\ Go(b, "over") /\ UNCHANGED <<repository, cancel, pinned, pushed, deleted>>
          /\ (SetStatus(b, "failed") \/ build' = build) /\ faults' \in 0 .. MaxFaults
          /\ Create(b) \/ job' = job
      BY <1>3, <1>5 DEF CreateFails
    <2>2. CASE Create(b)
      BY <2>1, <2>2, CreateStep
    <2>3. CASE job' = job
      BY <1>1, <1>2, <2>1, <2>3, GoStep DEF Settled
    <2>4. QED
      BY <2>1, <2>2, <2>3
  <1>6. CASE MarkRunning(b)
    BY <1>1, <1>2, <1>6, GoStep DEF MarkRunning, Waiting
  <1>7. CASE MarkLost(b)
    BY <1>1, <1>2, <1>3, <1>7, GoStep DEF MarkLost, Waiting
  <1>8. CASE Poll(b)
    <2> DEFINE n == Name(b)
               outcome == JobOutcome(job[n].state)
    <2>1. /\ outcome \in {"success", "failed"} /\ SetStatus(b, outcome)
          /\ Go(b, IF outcome = "success" THEN "pin" ELSE "over")
          /\ UNCHANGED <<repository, job, cancel, pinned, pushed, deleted, faults>>
      BY <1>8 DEF Poll, JobOutcome
    <2>2. outcome = "success" => Pushed(b)
      <3> SUFFICES ASSUME outcome = "success" PROVE Pushed(b)
        OBVIOUS
      <3>1. job[n].state = "complete" /\ n \in Names /\ Waiting(b)
        BY <1>1, <1>8, Fields DEF JobOutcome, Poll, Waiting
      <3>2. job[n] # NoJob
        BY <3>1 DEF NoJob
      <3>3. PICK d \in BuildIds : Made(d) /\ Name(d) = n /\ Dest(d) = job[n].image
        BY <3>1, <3>2 DEF JobsNamed
      <3>4. Dest(d) \in pushed
        BY <3>1, <3>2, <3>3 DEF JobsNamed
      <3>5. n \notin deleted => Dest(b) = Dest(d)
        BY <3>1, <3>3 DEF JobsKept
      <3>6. QED
        BY <3>3, <3>4, <3>5 DEF Pushed, Made
    <2> HIDE DEF outcome, n
    <2>3. CASE outcome = "success"
      BY <1>1, <1>2, <2>1, <2>2, <2>3, GoStep DEF Settled
    <2>4. CASE outcome = "failed"
      BY <1>1, <1>2, <2>1, <2>4, GoStep DEF Settled
    <2>5. QED
      BY <2>1, <2>3, <2>4
  <1>9. CASE Timeout(b)
    BY <1>1, <1>2, <1>9, GoStep DEF Timeout, Settled
  <1>10. CASE Pin(b)
    <2>1. PICK e \in Envs : e = build[b].in.env
      BY <1>1, Fields DEF Asked
    <2>2. PICK t \in Tags : t = AfterColon(Dest(b))
      BY <1>1, Fields, ColonTags
    <2>3. /\ pinned' \in [Envs -> Tags \cup {None}]
          /\ \A f \in Envs : pinned'[f] # None => PinOf(f, pinned'[f])
      <3>1. pinned' = [pinned EXCEPT ![e] = t]
        BY <1>10, <2>1, <2>2 DEF Pin
      <3>2. PinOf(e, t)
        BY <1>1, <1>10, <2>1, <2>2 DEF Pin, PinsPushed, PinOf, Made
      <3>3. pinned'[e] = t /\ \A f \in Envs \ {e} : pinned'[f] = pinned[f]
        BY <1>2, <3>1
      <3>4. PinOf(e, pinned'[e])
        BY <3>2, <3>3
      <3>5. ASSUME NEW f \in Envs, f # e, pinned'[f] # None PROVE PinOf(f, pinned'[f])
        BY <1>2, <3>3, <3>5
      <3>6. QED
        BY <1>2, <3>1, <3>4, <3>5
    <2>4. Go(b, "over") /\ UNCHANGED <<repository, build, job, cancel, pushed, deleted, faults>>
      BY <1>10 DEF Pin
    <2>5. QED
      BY <1>1, <1>2, <2>3, <2>4, GoStep
  <1>11. CASE PinFails(b)
    BY <1>1, <1>2, <1>3, <1>11, GoStep DEF PinFails
  <1>12. QED
    BY <1>4, <1>5, <1>6, <1>7, <1>8, <1>9, <1>10, <1>11 DEF Proceed

-----------------------------------------------------------------------------
(* Theorems *)

LEMMA Inductive == Spec => []IInv
  <1>1. IInv /\ UNCHANGED vars => IInv'
    <2> SUFFICES ASSUME IInv, UNCHANGED vars PROVE IInv'
      OBVIOUS
    <2>1. TypeOK'
      BY DEF IInv, vars, TypeOK
    <2>2. Grows /\ \A b \in BuildIds : Waiting(b)' = Waiting(b)
      BY DEF vars, Waiting, Grows, Made
    <2>3. /\ \A b \in BuildIds : build[b].status = "success" => Made(b)
          /\ \A b \in BuildIds : pc[b] = "pin" => Made(b)
      BY DEF Made, Absent, IInv, TypeOK
    <2>4. QED
      BY <2>1, <2>2, <2>3, BuildStep DEF IInv, vars, PinsPushed, PinsOwn, SuccessPushed
  <1>2. IInv /\ [Next]_vars => IInv'
    BY <1>1, TriggerStep, ProceedStep, CancelStep, JobStep, CrashStep, UpdateStep DEF Next
  <1>3. QED
    BY InitInv, <1>2, PTL DEF Spec

\* Builds, Jobs, cancellations and pins are what they may be, and a build that is on its way, or is
\* being cancelled, has its record (TriggerBuild, CancelBuild).
THEOREM BuildsTyped == Spec => []TypeOK
  <1>1. IInv => TypeOK
    BY DEF IInv
  <1>2. QED
    BY <1>1, Inductive, PTL

\* A success is of an image that was pushed, and a pinned tag is that of a build of which this
\* holds, for the environment the build was asked for, whatever commits share the name of a Job:
\* only a Job that was deleted can have another's in its place.  The environment pulls just that
\* image if it pulls from where the build pushed and the address has no port; else its tag is what
\* the code cuts off the address (watchBuild, onBuildSuccess).
THEOREM PinnedIsPushed == Spec => []OnlyBuilt
  <1>1. IInv => OnlyBuilt
    <2> SUFFICES ASSUME IInv PROVE OnlyBuilt
      OBVIOUS
    <2>1. ASSUME NEW e \in Envs, pinned[e] # None
          PROVE  \E b \in BuildIds :
                   /\ build[b] # Absent /\ build[b].in.env = e /\ Pushed(b)
                   /\ IF Source(e) = Dest(b).repository /\ Source(e) \notin Ported
                      THEN Pulled(e) = Dest(b)
                      ELSE pinned[e] = AfterColon(Dest(b))
      <3>1. PICK b \in BuildIds : /\ Made(b) /\ build[b].in.env = e /\ Pushed(b)
                                  /\ pinned[e] = AfterColon(Dest(b))
        BY <2>1 DEF IInv, PinsOwn, PinOf
      <3>2. Dest(b) \in Images
        BY <3>1, Fields DEF IInv, Made
      <3>3. ASSUME Source(e) = Dest(b).repository, Source(e) \notin Ported
            PROVE  Pulled(e) = Dest(b)
        <4>1. pinned[e] = Dest(b).tag
          BY <3>1, <3>3 DEF AfterColon
        <4>2. QED
          BY <3>2, <3>3, <4>1 DEF Pulled, Images
      <3>4. QED
        BY <3>1, <3>3 DEF Made
    <2>2. QED
      BY <2>1 DEF IInv, OnlyBuilt, SuccessPushed
  <1>2. QED
    BY <1>1, Inductive, PTL

\* Two builds never wait for one Job before a cancellation has deleted one of its name: a
\* build waits only after the cluster has taken its Job, and a Job outlives every watch.
THEOREM JobsAreOwn == Spec => []JobsShared
  <1>1. IInv => JobsShared
    BY DEF IInv
  <1>2. QED
    BY <1>1, Inductive, PTL
=============================================================================
