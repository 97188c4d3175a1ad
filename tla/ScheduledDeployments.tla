------------------------ MODULE ScheduledDeployments ------------------------
(***************************************************************************)
(* The table of scheduled deployments, the users who fill it and cancel    *)
(* rows, and the worker of every replica of the API server that carries    *)
(* them out.  Nothing elects a leader: each worker lists the due rows,     *)
(* then takes them one by one through status updates and one write of the  *)
(* VestaApp.  What that write does to the spec is ScheduleEdit of          *)
(* VestaAppSpec; here only whether and when it happens counts.             *)
(*                                                                         *)
(* fresh[w] says that the app has not been written since w read it, which  *)
(* is all that its resourceVersion decides.                                *)
(***************************************************************************)
EXTENDS Integers, Sequences

CONSTANTS Rows,       \* ids of rows
          At,         \* when each row is scheduled for
          Workers,    \* the replicas' workers
          MaxTime,    \* bound on the clock
          MaxFaults,  \* bound on failed calls, lost status writes and crashes
          None

ASSUME ScheduleAssumption ==
    /\ At \in [Rows -> Nat]
    /\ MaxTime \in Nat /\ MaxFaults \in Nat
    /\ None \notin Rows

VARIABLES now,      \* the clock
          status,   \* the rows, "absent" before they are inserted
          unlisted, \* the rows cancelled before any worker had listed them
          worker,   \* each replica's worker
          fresh,    \* fresh[w]: the app has not been written since w read it
          deployed, \* the app's writes by the scheduler: which row, which worker
          skipped,  \* rows a worker listed but could not mark as running
          faults

vars == <<now, status, unlisted, worker, fresh, deployed, skipped, faults>>

Settled == {"completed", "failed", "cancelled"}
Status  == {"absent", "pending", "running"} \cup Settled

\* pc "next" is the head of the loop over the listed rows, "done" and "failed" the
\* final status update of the current one.
Idle   == [pc |-> "idle", todo |-> {}, row |-> None]
Worker == [pc : {"idle", "next", "get", "put", "done", "failed"},
           todo : SUBSET Rows, row : Rows \cup {None}]

Init ==
    /\ now      = 0
    /\ status   = [r \in Rows |-> "absent"]
    /\ unlisted     = {}
    /\ worker   = [w \in Workers |-> Idle]
    /\ fresh    = [w \in Workers |-> FALSE]
    /\ deployed = <<>>
    /\ skipped  = {}
    /\ faults   = 0

Tick ==
    /\ now < MaxTime
    /\ now' = now + 1
    /\ UNCHANGED <<status, unlisted, worker, fresh, deployed, skipped, faults>>

Fault == faults < MaxFaults /\ faults' = faults + 1

-----------------------------------------------------------------------------
(* Users *)

\* CreateScheduledDeployment: refused when the time has passed.
Create(r) ==
    /\ status[r] = "absent"
    /\ At[r] >= now
    /\ status' = [status EXCEPT ![r] = "pending"]
    /\ UNCHANGED <<now, unlisted, worker, fresh, deployed, skipped, faults>>

\* The UPDATE touches pending rows only.
CancelPending(r) ==
    IF status[r] = "pending" THEN [status EXCEPT ![r] = "cancelled"] ELSE status

Held(r) == \E w \in Workers : r \in worker[w].todo

\* The answer is "cancelled" whatever the UPDATE found.
Cancel(r) ==
    /\ status[r] # "absent"
    /\ status' = CancelPending(r)
    /\ unlisted' = IF status[r] = "pending" /\ ~Held(r) THEN unlisted \cup {r} ELSE unlisted
    /\ UNCHANGED <<now, worker, fresh, deployed, skipped, faults>>

\* Anyone else writes the VestaApp.
OtherWrite ==
    /\ \E w \in Workers : fresh[w]
    /\ fresh' = [w \in Workers |-> FALSE]
    /\ UNCHANGED <<now, status, unlisted, worker, deployed, skipped, faults>>

-----------------------------------------------------------------------------
(* Workers *)

\* Mutant: rows that are not pending any more are listed as well.
DueUnsettled == {r \in Rows : status[r] \in {"pending", "running"} /\ At[r] <= now}

\* Mutant: the cancelled rows are listed with the pending ones.
DueUncompleted == {r \in Rows : status[r] \in {"pending", "cancelled"} /\ At[r] <= now}

\* GetPendingScheduledDeployments
Due == {r \in Rows : status[r] = "pending" /\ At[r] <= now}

\* The head of the loop, or the wait for the next tick.
Loop(todo) == [pc |-> IF todo = {} THEN "idle" ELSE "next", todo |-> todo, row |-> None]

List(w) ==
    /\ worker[w].pc = "idle"
    /\ Due # {}
    /\ worker' = [worker EXCEPT ![w] = Loop(Due)]
    /\ UNCHANGED <<now, status, unlisted, fresh, deployed, skipped, faults>>

\* Mutant: no order.
AnyRow(w) == worker[w].todo

\* Mutant: a row must be earlier than every other.
StrictlyFirst(w) ==
    {r \in worker[w].todo : \A other \in worker[w].todo \ {r} : At[r] < At[other]}

\* The rows come by the time they are scheduled for, in any order among equals.
First(w) ==
    {r \in worker[w].todo : \A other \in worker[w].todo : At[r] <= At[other]}

\* The update asks nothing of the row's status.
ClaimRow(r) == [status EXCEPT ![r] = "running"]

\* execute: the row is marked as running, whatever it has become since it was listed.
Claim(w) ==
    /\ worker[w].pc = "next"
    /\ \E r \in First(w) :
         /\ status' = ClaimRow(r)
         /\ worker' = [worker EXCEPT ![w] = [pc |-> "get", todo |-> @.todo \ {r}, row |-> r]]
    /\ UNCHANGED <<now, unlisted, fresh, deployed, skipped, faults>>

\* That update fails: on to the next row, this one stays pending for another tick.
Skip(w) ==
    /\ worker[w].pc = "next"
    /\ Fault
    /\ \E r \in First(w) :
         /\ skipped' = skipped \cup {r}
         /\ worker' = [worker EXCEPT ![w] = Loop(@.todo \ {r})]
    /\ UNCHANGED <<now, status, unlisted, fresh, deployed>>

Get(w) ==
    /\ worker[w].pc = "get"
    /\ worker' = [worker EXCEPT ![w].pc = "put"]
    /\ fresh'  = [fresh EXCEPT ![w] = TRUE]
    /\ UNCHANGED <<now, status, unlisted, deployed, skipped, faults>>

Write(w) ==
    /\ deployed' = Append(deployed, [row |-> worker[w].row, by |-> w])
    /\ fresh' = [v \in Workers |-> FALSE]

Put(w) ==
    /\ worker[w].pc = "put"
    /\ IF fresh[w]
       THEN /\ Write(w)
            /\ worker' = [worker EXCEPT ![w].pc = "done"]
       ELSE /\ worker' = [worker EXCEPT ![w].pc = "failed"]
            /\ UNCHANGED <<fresh, deployed>>
    /\ UNCHANGED <<now, status, unlisted, skipped, faults>>

\* A call fails or runs into the deadline of fifteen seconds; a write may have gone
\* through before its answer was lost.
CallFails(w) ==
    /\ worker[w].pc \in {"get", "put"}
    /\ Fault
    /\ worker' = [worker EXCEPT ![w].pc = "failed"]
    /\ \/ UNCHANGED <<fresh, deployed>>
       \/ worker[w].pc = "put" /\ fresh[w] /\ Write(w)
    /\ UNCHANGED <<now, status, unlisted, skipped>>

\* Mutant: every outcome is recorded as a success.
AlwaysCompleted(pc) == "completed"

Outcome(pc) == IF pc = "done" THEN "completed" ELSE "failed"

Finish(w) ==
    /\ worker[w].pc \in {"done", "failed"}
    /\ status' = [status EXCEPT ![worker[w].row] = Outcome(worker[w].pc)]
    /\ worker' = [worker EXCEPT ![w] = Loop(@.todo)]
    /\ UNCHANGED <<now, unlisted, fresh, deployed, skipped, faults>>

\* The final update is lost, its error ignored: it shares the deadline of the calls.
FinishLost(w) ==
    /\ worker[w].pc \in {"done", "failed"}
    /\ Fault
    /\ worker' = [worker EXCEPT ![w] = Loop(@.todo)]
    /\ UNCHANGED <<now, status, unlisted, fresh, deployed, skipped>>

\* The replica dies and another takes its place.
Crash(w) ==
    /\ worker[w].pc # "idle"
    /\ Fault
    /\ worker' = [worker EXCEPT ![w] = Idle]
    /\ fresh'  = [fresh EXCEPT ![w] = FALSE]
    /\ UNCHANGED <<now, status, unlisted, deployed, skipped>>

Work(w) == List(w) \/ Claim(w) \/ Get(w) \/ Put(w) \/ Finish(w)

Next ==
    \/ Tick \/ OtherWrite
    \/ \E r \in Rows : Create(r) \/ Cancel(r)
    \/ \E w \in Workers : \/ Work(w)
                          \/ Skip(w) \/ CallFails(w) \/ FinishLost(w) \/ Crash(w)

Spec == Init /\ [][Next]_vars

\* Time passes, and a worker's ticker fires every thirty seconds.
FairSpec == Spec /\ WF_vars(Tick) /\ \A w \in Workers : WF_vars(Work(w))
-----------------------------------------------------------------------------
(* Properties *)

\* Every variable has its type; a worker has a current row exactly while it executes one.
TypeOK ==
    /\ now \in 0 .. MaxTime
    /\ status \in [Rows -> Status]
    /\ unlisted \in SUBSET Rows
    /\ worker \in [Workers -> Worker]
    /\ \A w \in Workers :
         worker[w].row = None <=> worker[w].pc \in {"idle", "next"}
    /\ fresh \in [Workers -> BOOLEAN]
    /\ deployed \in Seq([row : Rows, by : Workers])
    /\ skipped \in SUBSET Rows
    /\ faults \in 0 .. MaxFaults

\* No worker deploys a row twice, through failed updates, lost answers and restarts;
\* with one replica, a scheduled deployment happens at most once (execute marks the
\* row as running before it deploys).
OncePerReplica == \A i, j \in DOMAIN deployed : deployed[i] = deployed[j] => i = j

\* A row that is completed was deployed, however many replicas took it.
CompletedDeployed ==
    \A r \in Rows : status[r] = "completed" =>
        \E i \in DOMAIN deployed : deployed[i].row = r

\* A row cancelled before a worker listed it stays cancelled and is never deployed: a
\* stale list is the only way past a cancellation (CancelScheduledDeployment, execute).
CancelHolds ==
    \A r \in unlisted : status[r] = "cancelled" /\ \A i \in DOMAIN deployed : deployed[i].row # r

\* A replica keeps the scheduled order, so that the last one scheduled is the one that
\* stays: only a row whose first update failed comes late (ORDER BY scheduled_at).
InScheduledOrder ==
    \A i, j \in DOMAIN deployed :
        /\ i < j /\ deployed[i].by = deployed[j].by /\ deployed[j].row \notin skipped
        => At[deployed[i].row] <= At[deployed[j].row]

\* A pending row does not wait forever once it is due.
DueRuns ==
    \A r \in Rows : (status[r] = "pending" /\ At[r] <= MaxTime) ~> status[r] # "pending"
=============================================================================
