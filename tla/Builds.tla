------------------------------- MODULE Builds -------------------------------
(***************************************************************************)
(* Builds of one app: a row in the database, a Job in the cluster, and the *)
(* goroutine that triggered the build, which goes on to watch the Job and  *)
(* pins a tag to the environment when it is complete.  A Job is named      *)
(* after the app and the commit and the name is cut to a length, so builds *)
(* of one commit, and of commits whose names come out alike, meet at one   *)
(* name.  Cancelling a build deletes its Job and never reaches the         *)
(* goroutine.                                                              *)
(*                                                                         *)
(* Where a pin lands is PinEdit of VestaAppSpec; here an environment just  *)
(* has the tag that was last pinned to it, and pulls it from a repository. *)
(***************************************************************************)
EXTENDS Integers, FiniteSets

CONSTANTS BuildIds,  \* ids of builds
          Envs,      \* environments of the app
          Commits,
          Names,     \* names of Jobs
          JobName,   \* the name of a commit's Job, which other commits may have too
          Shas,      \* the eight characters of a commit that an image is tagged with
          Sha,
          Repositories, \* what spec.image.repository may be
          Ported,    \* those with a colon: "registry:5000/app"
          Own,       \* the repository an environment sets for itself, or None
          Inputs,    \* the builds that may be asked for: [env, commit]
          MaxFaults, \* bound on failed calls and crashes
          None

ASSUME BuildsAssumption ==
    /\ JobName \in [Commits -> Names]
    /\ Sha \in [Commits -> Shas]
    /\ Ported \subseteq Repositories
    /\ Own \in [Envs -> Repositories \cup {None}]
    /\ Inputs \subseteq [env : Envs, commit : Commits]
    /\ MaxFaults \in Nat
    /\ None \notin Repositories

VARIABLES repository, \* spec.image.repository
          build,     \* the rows
          pc,        \* where the goroutine of each build is
          job,       \* the Jobs, by name
          cancel,    \* the handler that cancels each build
          pinned,    \* the tag pinned to each environment
          pushed,    \* the images a Job has pushed
          deleted,   \* the names a cancellation has deleted a Job of
          faults

vars == <<repository, build, pc, job, cancel, pinned, pushed, deleted, faults>>

Settled == {"success", "failed", "cancelled"}
Absent  == [status |-> "absent", in |-> None, dest |-> None]
NoJob   == [state |-> "absent", image |-> None]

\* A tag: the commit's characters, after the registry's port when an address with one was
\* cut at its first colon.
Tags   == [port : Ported \cup {None}, sha : Shas]
Images == [repository : Repositories, tag : Tags]

Init ==
    /\ repository \in Repositories
    /\ build     = [b \in BuildIds |-> Absent]
    /\ pc        = [b \in BuildIds |-> "over"]
    /\ job       = [n \in Names |-> NoJob]
    /\ cancel    = [b \in BuildIds |-> "idle"]
    /\ pinned    = [e \in Envs |-> None]
    /\ pushed    = {}
    /\ deleted   = {}
    /\ faults    = 0

Fault == faults < MaxFaults /\ faults' = faults + 1

Name(b) == JobName[build[b].in.commit]
Dest(b) == build[b].dest

SetStatus(b, status) == build' = [build EXCEPT ![b].status = status]
Go(b, place)         == pc' = [pc EXCEPT ![b] = place]

-----------------------------------------------------------------------------
(* TriggerBuild *)

\* The app's repository is edited.
UpdateApp ==
    /\ \E r \in Repositories : r # repository /\ repository' = r
    /\ UNCHANGED <<build, pc, job, cancel, pinned, pushed, deleted, faults>>

\* Where a commit's image goes: the app's repository, whatever the environment's own.
ImageDest(c) == [repository |-> repository, tag |-> [port |-> None, sha |-> Sha[c]]]

\* A request or a push: the row is inserted.
Trigger(b) ==
    /\ build[b].status = "absent"
    /\ \E in \in Inputs :
         build' = [build EXCEPT ![b] =
                     [status |-> "pending", in |-> in, dest |-> ImageDest(in.commit)]]
    /\ Go(b, "create")
    /\ UNCHANGED <<repository, job, cancel, pinned, pushed, deleted, faults>>

\* Mutant: a Job of that name is taken for the build's own.
AnyName(n) == TRUE

\* The cluster refuses a second Job of a name, whatever the state of the first.
NameIsFree(n) == job[n] = NoJob

Create(b) ==
    /\ NameIsFree(Name(b))
    /\ job' = [job EXCEPT ![Name(b)] = [state |-> "active", image |-> Dest(b)]]

CreateJob(b) ==
    /\ pc[b] = "create"
    /\ IF NameIsFree(Name(b))
       THEN /\ Create(b)
            /\ Go(b, "mark")
            /\ UNCHANGED build
       ELSE /\ SetStatus(b, "failed")
            /\ Go(b, "over")
            /\ UNCHANGED job
    /\ UNCHANGED <<repository, cancel, pinned, pushed, deleted, faults>>

\* The call fails, or only its answer is lost and the Job runs unwatched; a caller who
\* hung up also loses the update that would say so.
CreateFails(b) ==
    /\ pc[b] = "create"
    /\ Fault
    /\ Create(b) \/ UNCHANGED job
    /\ SetStatus(b, "failed") \/ UNCHANGED build
    /\ Go(b, "over")
    /\ UNCHANGED <<repository, cancel, pinned, pushed, deleted>>

\* The row runs, whatever a cancellation has made of it, and the watch begins.
MarkRunning(b) ==
    /\ pc[b] = "mark"
    /\ SetStatus(b, "running")
    /\ Go(b, "watch")
    /\ UNCHANGED <<repository, job, cancel, pinned, pushed, deleted, faults>>

\* That update is lost, its error ignored, and the watch begins all the same.
MarkLost(b) ==
    /\ pc[b] = "mark"
    /\ Fault
    /\ Go(b, "watch")
    /\ UNCHANGED <<repository, build, job, cancel, pinned, pushed, deleted>>

-----------------------------------------------------------------------------
(* Jobs *)

JobEnds(n) ==
    /\ job[n].state = "active"
    /\ \/ /\ job' = [job EXCEPT ![n].state = "complete"]
          /\ pushed' = pushed \cup {job[n].image}
       \/ /\ job' = [job EXCEPT ![n].state = "failed"]
          /\ UNCHANGED pushed
    /\ UNCHANGED <<repository, build, pc, cancel, pinned, deleted, faults>>

\* A finished Job is removed after an hour.  A watch polls every five seconds and lasts
\* thirty minutes, so no watch of that Job is left by then.
JobExpires(n) ==
    /\ job[n].state \in {"complete", "failed"}
    /\ \A b \in BuildIds : pc[b] \in {"mark", "watch"} => Name(b) # n
    /\ job' = [job EXCEPT ![n] = NoJob]
    /\ UNCHANGED <<repository, build, pc, cancel, pinned, pushed, deleted, faults>>

-----------------------------------------------------------------------------
(* watchBuild and onBuildSuccess *)

\* Mutant: any finished Job is a success.
FinishedIsSuccess(state) ==
    IF state \in {"complete", "failed"} THEN "success" ELSE "active"

\* The condition a poll finds: a missing Job is polled again.
JobOutcome(state) ==
    CASE state = "complete" -> "success"
      [] state = "failed"   -> "failed"
      [] OTHER              -> "active"

Poll(b) ==
    /\ pc[b] = "watch"
    /\ LET outcome == JobOutcome(job[Name(b)].state)
       IN  /\ outcome # "active"
           /\ SetStatus(b, outcome)
           /\ Go(b, IF outcome = "success" THEN "pin" ELSE "over")
    /\ UNCHANGED <<repository, job, cancel, pinned, pushed, deleted, faults>>

\* Mutant: a watch never gives up.
NoPatience(b) == FALSE

\* Thirty minutes have passed and the loop is back at its select.
Impatient(b) == pc[b] = "watch"

Timeout(b) ==
    /\ Impatient(b)
    /\ SetStatus(b, "failed")
    /\ Go(b, "over")
    /\ UNCHANGED <<repository, job, cancel, pinned, pushed, deleted, faults>>

\* The tag of an image is taken to be what follows the first colon of its address, a
\* registry's port included.
AfterColon(image) ==
    IF image.repository \in Ported THEN [image.tag EXCEPT !.port = image.repository]
                                   ELSE image.tag

\* Only the tag is written: an environment keeps a repository of its own.
Pin(b) ==
    /\ pc[b] = "pin"
    /\ pinned' = [pinned EXCEPT ![build[b].in.env] = AfterColon(Dest(b))]
    /\ Go(b, "over")
    /\ UNCHANGED <<repository, build, job, cancel, pushed, deleted, faults>>

\* The patch fails, which is logged.
PinFails(b) ==
    /\ pc[b] = "pin"
    /\ Fault
    /\ Go(b, "over")
    /\ UNCHANGED <<repository, build, job, cancel, pinned, pushed, deleted>>

-----------------------------------------------------------------------------
(* CancelBuild *)

Cancellable(status) == status \in {"pending", "running"}

CancelRead(b) ==
    /\ cancel[b] = "idle"
    /\ Cancellable(build[b].status)
    /\ cancel' = [cancel EXCEPT ![b] = "delete"]
    /\ UNCHANGED <<repository, build, pc, job, pinned, pushed, deleted, faults>>

DeleteJob(b) ==
    /\ job' = [job EXCEPT ![Name(b)] = NoJob]
    /\ deleted' = deleted \cup {Name(b)}

\* Without a Job the handler answers with an error and leaves the row alone.
CancelDelete(b) ==
    /\ cancel[b] = "delete"
    /\ IF job[Name(b)] = NoJob
       THEN /\ cancel' = [cancel EXCEPT ![b] = "idle"]
            /\ UNCHANGED <<job, deleted>>
       ELSE /\ cancel' = [cancel EXCEPT ![b] = "mark"]
            /\ DeleteJob(b)
    /\ UNCHANGED <<repository, build, pc, pinned, pushed, faults>>

CancelMark(b) ==
    /\ cancel[b] = "mark"
    /\ SetStatus(b, "cancelled")
    /\ cancel' = [cancel EXCEPT ![b] = "idle"]
    /\ UNCHANGED <<repository, pc, job, pinned, pushed, deleted, faults>>

\* A call of the handler fails, or only its answer is lost; the user is told "cancelled"
\* all the same when it was the last one.
CancelFails(b) ==
    /\ cancel[b] # "idle"
    /\ Fault
    /\ cancel' = [cancel EXCEPT ![b] = "idle"]
    /\ IF cancel[b] = "mark"
       THEN UNCHANGED <<job, deleted>>
       ELSE DeleteJob(b) \/ UNCHANGED <<job, deleted>>
    /\ UNCHANGED <<repository, build, pc, pinned, pushed>>

\* The server dies with its goroutines and handlers; nothing takes the watches up again.
Crash ==
    /\ Fault
    /\ pc'     = [b \in BuildIds |-> "over"]
    /\ cancel' = [b \in BuildIds |-> "idle"]
    /\ UNCHANGED <<repository, build, job, pinned, pushed, deleted>>

Proceed(b) == CreateJob(b) \/ MarkRunning(b) \/ Poll(b) \/ Timeout(b) \/ Pin(b)

Next ==
    \/ \E b \in BuildIds :
         \/ Trigger(b) \/ Proceed(b) \/ CreateFails(b) \/ MarkLost(b) \/ PinFails(b)
         \/ CancelRead(b) \/ CancelDelete(b) \/ CancelMark(b) \/ CancelFails(b)
    \/ \E n \in Names : JobEnds(n) \/ JobExpires(n)
    \/ Crash \/ UpdateApp

Spec == Init /\ [][Next]_vars

\* The goroutine of a build runs on; its timer bounds every wait.
FairSpec == Spec /\ \A b \in BuildIds : WF_vars(Proceed(b))
-----------------------------------------------------------------------------
(* Properties *)

\* Every variable has its type.
TypeOK ==
    /\ repository \in Repositories
    /\ build \in [BuildIds -> [status : {"pending", "running"} \cup Settled,
                               in : [env : Envs, commit : Commits],
                               dest : Images] \cup {Absent}]
    /\ pc \in [BuildIds -> {"create", "mark", "watch", "pin", "over"}]
    /\ \A b \in BuildIds : pc[b] # "over" \/ cancel[b] # "idle" => build[b] # Absent
    /\ job \in [Names -> [state : {"active", "complete", "failed"}, image : Images]
                         \cup {NoJob}]
    /\ cancel \in [BuildIds -> {"idle", "delete", "mark"}]
    /\ pinned \in [Envs -> Tags \cup {None}]
    /\ pushed \in SUBSET Images
    /\ deleted \in SUBSET Names
    /\ faults \in 0 .. MaxFaults

\* A build's image was pushed, or a watch was led astray: a cancellation has deleted a Job
\* of its name and the Job of another build took the name and pushed its own image.
Pushed(b) ==
    \/ Dest(b) \in pushed
    \/ /\ Name(b) \in deleted
       /\ \E d \in BuildIds \ {b} :
            build[d] # Absent /\ Name(d) = Name(b) /\ Dest(d) \in pushed

\* The image an environment comes to pull: the pinned tag at its own repository or the app's.
Source(e) == IF Own[e] = None THEN repository ELSE Own[e]
Pulled(e) == [repository |-> Source(e), tag |-> pinned[e]]

\* A success is of a build whose image was pushed (or whose watch was led astray), and an
\* environment has the tag of such a build for that environment.  It pulls just that image if
\* it pulls from where the build pushed and the address has no port; else what it pulls may
\* never have been pushed, which the code does nothing about.
OnlyBuilt ==
    /\ \A b \in BuildIds : build[b].status = "success" => Pushed(b)
    /\ \A e \in Envs : pinned[e] # None => \E b \in BuildIds :
         /\ build[b] # Absent /\ build[b].in.env = e /\ Pushed(b)
         /\ IF Source(e) = Dest(b).repository /\ Source(e) \notin Ported
            THEN Pulled(e) = Dest(b)
            ELSE pinned[e] = AfterColon(Dest(b))

\* Two builds wait for one Job only when a cancellation has deleted a Job of that name:
\* the cluster refuses a name that is taken.
Waiting(b) == pc[b] \in {"mark", "watch"}
JobsShared ==
    \A b, d \in BuildIds :
        b # d /\ Waiting(b) /\ Waiting(d) /\ Name(b) = Name(d) => Name(b) \in deleted

\* A build that runs comes to an end, cancelled or not, while the server lives (the
\* watch lasts thirty minutes at most).
BuildEnds == \A b \in BuildIds :
    build[b].status = "running" ~> build[b].status \in Settled \/ faults > 0

=============================================================================
