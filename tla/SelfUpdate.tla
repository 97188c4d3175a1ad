----------------------------- MODULE SelfUpdate -----------------------------
(***************************************************************************)
(* Upgrades of Vesta itself.  A request records the upgrade, creates a Job *)
(* that runs helm, and leaves a goroutine behind that watches the Job; but *)
(* the upgrade replaces the server it runs in, so the next server to start *)
(* closes the record or takes the watch up again.                          *)
(*                                                                         *)
(* The Job, and with it the record, is named after the version and the     *)
(* second the request came in.                                             *)
(***************************************************************************)
EXTENDS Integers, Sequences

CONSTANTS Pods,       \* API servers
          Upgrades,   \* calls of TriggerUpdate
          Versions,   \* releases
          MaxTime,    \* bound on the clock of seconds
          MaxUpdates, \* bound on the upgrades asked for
          MaxMishaps, \* bound on failed and lost calls, hang-ups and deaths of servers
          Missing

ASSUME UpdateAssumption ==
    MaxTime \in Nat /\ MaxUpdates \in Nat /\ MaxMishaps \in Nat

VARIABLES now,      \* the clock, in seconds
          records,  \* update_history, in the order of started_at
          job,      \* the Jobs, by name
          done,     \* the Jobs that have upgraded the release
          upgrade,  \* the calls of TriggerUpdate
          pod,      \* the servers: "down", "boot" (reconciling) or "up"
          found,    \* found[p]: the record a starting server has read
          watched,  \* watched[p]: the Jobs server p watches
          spoilt,   \* what may have left a record without anybody to close it
          mishaps

luck == <<spoilt, mishaps>>
updateVars == <<now, records, job, done, upgrade, pod, found, watched, spoilt, mishaps>>

Names   == Versions \X (0 .. MaxTime)
Outcome == {"succeeded", "failed", "unknown"}
Record  == [name : Names, status : Outcome \cup {"running"}]

ASSUME NamesAssumption == Missing \notin Names \cup Outcome

NoCall  == [pc |-> "idle", pod |-> Missing, name |-> Missing]

InitUpdates ==
    /\ now     = 0
    /\ records = <<>>
    /\ job     = [n \in Names |-> "absent"]
    /\ done    = {}
    /\ upgrade = [r \in Upgrades |-> NoCall]
    /\ pod     = [p \in Pods |-> "down"]
    /\ found   = [p \in Pods |-> Missing]
    /\ watched = [p \in Pods |-> {}]
    /\ spoilt  = {}
    /\ mishaps = 0

Tick ==
    /\ now < MaxTime
    /\ now' = now + 1
    /\ UNCHANGED <<records, job, done, upgrade, pod, found, watched, luck>>

Mishap == mishaps < MaxMishaps /\ mishaps' = mishaps + 1

\* A call to the cluster fails, or one to the database.
Fault == Mishap /\ UNCHANGED spoilt
Lost  == Mishap /\ spoilt' = spoilt \cup {"lost"}

-----------------------------------------------------------------------------
(* The table *)

Running == {i \in DOMAIN records : records[i].status = "running"}

\* Mutant: a finished record is written over.
FinishAny(name, status) ==
    records' = [i \in DOMAIN records |->
                  IF records[i].name = name
                  THEN [records[i] EXCEPT !.status = status] ELSE records[i]]

\* FinishUpdateRecord closes every open record of the name.
Finish(name, status) ==
    records' = [i \in DOMAIN records |->
                  IF records[i].name = name /\ i \in Running
                  THEN [records[i] EXCEPT !.status = status] ELSE records[i]]

\* RunningUpdate: the newest open record.
NewestRunning == {i \in Running : \A j \in Running : j <= i}

-----------------------------------------------------------------------------
(* Updater.Start *)

\* The call passes the check that no upgrade is running, which it also does when the
\* check itself fails.
Check(r) ==
    /\ upgrade[r].pc = "idle"
    /\ Len(records) < MaxUpdates
    /\ IF Running = {} THEN UNCHANGED luck ELSE Lost
    /\ \E p \in Pods, v \in Versions :
         /\ pod[p] = "up"
         /\ upgrade' = [upgrade EXCEPT ![r] = [pc |-> "record", pod |-> p, name |-> <<v, now>>]]
    /\ UNCHANGED <<now, records, job, done, pod, found, watched>>

CreateRecord(r) ==
    /\ upgrade[r].pc = "record"
    /\ records' = Append(records, [name |-> upgrade[r].name, status |-> "running"])
    /\ upgrade' = [upgrade EXCEPT ![r].pc = "job"]
    /\ spoilt' = IF Running = {} THEN spoilt ELSE spoilt \cup {"double"}
    /\ UNCHANGED <<now, job, done, pod, found, watched, mishaps>>

End(r) == upgrade' = [upgrade EXCEPT ![r] = NoCall]

Create(name) == job[name] = "absent" /\ job' = [job EXCEPT ![name] = "active"]

\* The Job is created and watched, or its name is taken and the record closed.
CreateJob(r) ==
    /\ upgrade[r].pc = "job"
    /\ LET name == upgrade[r].name
           p    == upgrade[r].pod
       IN  IF job[name] = "absent"
           THEN /\ Create(name)
                /\ watched' = [watched EXCEPT ![p] = @ \cup {name}]
                /\ UNCHANGED records
           ELSE /\ Finish(name, "failed")
                /\ UNCHANGED <<job, watched>>
    /\ End(r)
    /\ UNCHANGED <<now, done, pod, found, luck>>

\* The call fails, or only its answer is lost: the record is closed, the Job not watched.
CreateFails(r) ==
    /\ upgrade[r].pc = "job"
    /\ Fault
    /\ Create(upgrade[r].name) \/ UNCHANGED job
    /\ Finish(upgrade[r].name, "failed")
    /\ End(r)
    /\ UNCHANGED <<now, done, pod, found, watched>>

\* The caller hangs up, which cancels the context of both the Job's creation and the
\* write that would close the record.
HangUp(r) ==
    /\ upgrade[r].pc = "job"
    /\ Mishap
    /\ spoilt' = spoilt \cup {"hangup"}
    /\ Create(upgrade[r].name) \/ UNCHANGED job
    /\ End(r)
    /\ UNCHANGED <<now, records, done, pod, found, watched>>

-----------------------------------------------------------------------------
(* The Job *)

\* helm succeeds or fails; the Job is not retried and is killed after twenty minutes.
JobEnds(n) ==
    /\ job[n] = "active"
    /\ \/ job' = [job EXCEPT ![n] = "complete"] /\ done' = done \cup {n}
       \/ job' = [job EXCEPT ![n] = "failed"] /\ UNCHANGED done
    /\ UNCHANGED <<now, records, upgrade, pod, found, watched, luck>>

\* A day later it is gone, and so is every watch of it.
JobExpires(n) ==
    /\ job[n] \in {"complete", "failed"}
    /\ \A p \in Pods : n \notin watched[p]
    /\ job' = [job EXCEPT ![n] = "absent"]
    /\ UNCHANGED <<now, records, done, upgrade, pod, found, watched, luck>>

-----------------------------------------------------------------------------
(* watch *)

\* Mutant: a finished Job is a success.
AnyEnd(state) == IF state \in {"complete", "failed"} THEN "succeeded" ELSE Missing

JobOutcome(state) ==
    CASE state = "complete" -> "succeeded"
      [] state = "failed"   -> "failed"
      [] OTHER              -> Missing

Unwatch(p, n) == watched' = [watched EXCEPT ![p] = @ \ {n}]

Observe(p, n) ==
    /\ n \in watched[p]
    /\ JobOutcome(job[n]) # Missing
    /\ Finish(n, JobOutcome(job[n]))
    /\ Unwatch(p, n)
    /\ UNCHANGED <<now, job, done, upgrade, pod, found, luck>>

\* Twenty minutes of watching, whatever has become of the Job.
GiveUp(p, n) ==
    /\ n \in watched[p]
    /\ Finish(n, "failed")
    /\ Unwatch(p, n)
    /\ UNCHANGED <<now, job, done, upgrade, pod, found, luck>>

\* The record is not closed and the watch is over all the same.
CloseFails(p, n) ==
    /\ n \in watched[p]
    /\ Lost
    /\ Unwatch(p, n)
    /\ UNCHANGED <<now, records, job, done, upgrade, pod, found>>

-----------------------------------------------------------------------------
(* Servers *)

\* A server serves requests.
Up(p) == /\ pod' = [pod EXCEPT ![p] = "up"]
         /\ found' = [found EXCEPT ![p] = Missing]

\* A server starts: it reads the open record before it serves anything.
Boot(p) ==
    /\ pod[p] = "down"
    /\ \/ Running = {} /\ Up(p)
       \/ \E i \in NewestRunning : /\ pod' = [pod EXCEPT ![p] = "boot"]
                                   /\ found' = [found EXCEPT ![p] = records[i].name]
    /\ UNCHANGED <<now, records, job, done, upgrade, watched, luck>>

\* The open record cannot be read: the server goes on without it.
BootBlind(p) ==
    /\ pod[p] = "down"
    /\ Lost
    /\ pod' = [pod EXCEPT ![p] = "up"]
    /\ UNCHANGED <<now, records, job, done, upgrade, found, watched>>

\* Mutant: a Job that still runs is left alone.
NoResume(p, n) == UNCHANGED watched

Resume(p, n) == watched' = [watched EXCEPT ![p] = @ \cup {n}]

\* ReconcileOnStartup, once it has the record: the Job is gone, over or still running.
Reconcile(p) ==
    /\ pod[p] = "boot"
    /\ LET n == found[p] IN
       CASE job[n] = "absent" -> Finish(n, "unknown") /\ UNCHANGED watched
         [] job[n] = "active" -> Resume(p, n) /\ UNCHANGED records
         [] OTHER             -> Finish(n, JobOutcome(job[n])) /\ UNCHANGED watched
    /\ Up(p)
    /\ UNCHANGED <<now, job, done, upgrade, luck>>

\* The Job cannot be read: that counts as gone.
ReconcileFails(p) ==
    /\ pod[p] = "boot"
    /\ Fault
    /\ Finish(found[p], "unknown")
    /\ Up(p)
    /\ UNCHANGED <<now, job, done, upgrade, watched>>

\* A server dies, replaced by an upgrade or not, with its calls and its watches.
Crash(p) ==
    /\ pod[p] # "down"
    /\ Fault
    /\ pod'     = [pod EXCEPT ![p] = "down"]
    /\ found'   = [found EXCEPT ![p] = Missing]
    /\ watched' = [watched EXCEPT ![p] = {}]
    /\ upgrade' = [r \in Upgrades |->
                     IF upgrade[r].pod = p THEN NoCall ELSE upgrade[r]]
    /\ UNCHANGED <<now, records, job, done>>

Serve(p) == Boot(p) \/ Reconcile(p) \/ \E n \in Names : Observe(p, n) \/ GiveUp(p, n)
Start(r) == CreateRecord(r) \/ CreateJob(r)

NextUpdates ==
    \/ Tick
    \/ \E r \in Upgrades : Check(r) \/ Start(r) \/ CreateFails(r) \/ HangUp(r)
    \/ \E n \in Names : JobEnds(n) \/ JobExpires(n)
    \/ \E p \in Pods : \/ Serve(p) \/ BootBlind(p) \/ ReconcileFails(p) \/ Crash(p)
                       \/ \E n \in Names : CloseFails(p, n)

SpecUpdates == InitUpdates /\ [][NextUpdates]_updateVars

\* Servers are started again, run what they serve, and their timers fire.
FairSpecUpdates ==
    /\ SpecUpdates
    /\ \A p \in Pods : /\ WF_updateVars(Boot(p)) /\ WF_updateVars(Reconcile(p))
                       /\ \A n \in Names : WF_updateVars(Observe(p, n) \/ GiveUp(p, n))
    /\ \A r \in Upgrades : WF_updateVars(Start(r))
-----------------------------------------------------------------------------
(* Properties *)

\* Every variable has its type.
UpdatesTypeOK ==
    /\ now \in 0 .. MaxTime
    /\ records \in Seq(Record)
    /\ job \in [Names -> {"absent", "active", "complete", "failed"}]
    /\ done \in SUBSET Names
    /\ upgrade \in [Upgrades -> [pc : {"idle", "record", "job"},
                                 pod : Pods \cup {Missing}, name : Names \cup {Missing}]]
    /\ pod \in [Pods -> {"down", "boot", "up"}]
    /\ found \in [Pods -> Names \cup {Missing}]
    /\ \A p \in Pods : pod[p] = "boot" <=> found[p] # Missing
    /\ watched \in [Pods -> SUBSET Names]
    /\ spoilt \in SUBSET {"double", "lost", "hangup"}
    /\ mishaps \in 0 .. MaxMishaps

\* A record is closed once: the watches of several servers, timeouts and startups that
\* come later change nothing (finished_at IS NULL in FinishUpdateRecord).
FinishedOnce ==
    [][\A i \in DOMAIN records :
         records[i].status # "running" => records'[i] = records[i]]_updateVars

\* An upgrade is only called a success when its Job completed.
SuccessIsReal ==
    \A i \in DOMAIN records : records[i].status = "succeeded" => records[i].name \in done

\* No record stays open and blocks the upgrades to come ("Close out whatever the previous process
\* left behind", main), unless two requests passed the check together, a call to the database was
\* lost or a caller hung up while the Job was created.
RecordsClose == []<>(Running = {} \/ spoilt # {})

=============================================================================
