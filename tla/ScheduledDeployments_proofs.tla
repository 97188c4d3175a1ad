--------------------- MODULE ScheduledDeployments_proofs ---------------------
(***************************************************************************)
(* For any number of replicas, rows, failures and restarts: a replica      *)
(* deploys a row at most once and in the order of the schedule, a          *)
(* completed row was deployed, and a row cancelled before it was listed is *)
(* never touched again.                                                    *)
(***************************************************************************)
EXTENDS ScheduledDeployments, TLAPS

Executing(w) == worker[w].pc \in {"get", "put", "done", "failed"}
Unstarted    == {"absent", "pending"}

\* What was deployed has been started, and so has the row a worker executes.
Started ==
    /\ \A i \in DOMAIN deployed : status[deployed[i].row] \notin Unstarted
    /\ \A w \in Workers : Executing(w) => status[worker[w].row] \notin Unstarted

\* A worker has not deployed yet what is still before it.
Ahead ==
    \A w \in Workers : \A i \in DOMAIN deployed : deployed[i].by = w =>
        /\ deployed[i].row \notin worker[w].todo
        /\ worker[w].pc \in {"get", "put"} => deployed[i].row # worker[w].row

\* The row a worker executes is off its list.
Claimed == \A w \in Workers : worker[w].row \notin worker[w].todo

\* A worker at the end of a success has deployed its row.
DoneDeployed ==
    \A w \in Workers : worker[w].pc = "done" =>
        \E i \in DOMAIN deployed : deployed[i].row = worker[w].row

\* Nobody has anything to do with a row cancelled before it was listed.
Untouched ==
    \A r \in unlisted : \A w \in Workers :
        r \notin worker[w].todo /\ worker[w].row # r

IInv == TypeOK /\ Started /\ Claimed /\ Ahead /\ DoneDeployed /\ Untouched
        /\ OncePerReplica /\ CompletedDeployed /\ CancelHolds

-----------------------------------------------------------------------------
\* The elements of a sequence with one appended.
LEMMA Appended ==
    ASSUME NEW S, NEW s \in Seq(S), NEW e \in S
    PROVE  /\ Append(s, e) \in Seq(S)
           /\ DOMAIN Append(s, e) = DOMAIN s \cup {Len(s) + 1}
           /\ \A i \in DOMAIN s : Append(s, e)[i] = s[i]
           /\ Append(s, e)[Len(s) + 1] = e
           /\ Len(s) + 1 \notin DOMAIN s
  OBVIOUS

\* All is well when the table is empty and the workers wait.
LEMMA InitInv == Init => IInv
  <1> SUFFICES ASSUME Init PROVE IInv
    OBVIOUS
  <1> USE ScheduleAssumption DEF Init, Idle
  <1>1. TypeOK
    BY DEF TypeOK, Status, Settled, Worker
  <1>2. Started /\ Claimed /\ Ahead /\ DoneDeployed /\ Untouched
    BY DEF Started, Claimed, Ahead, DoneDeployed, Untouched, Executing
  <1>3. OncePerReplica /\ CompletedDeployed /\ CancelHolds
    BY DEF OncePerReplica, CompletedDeployed, CancelHolds
  <1>4. QED
    BY <1>1, <1>2, <1>3 DEF IInv

\* Time, inserts, cancellations and other people's writes keep the invariant.
LEMMA UserStep ==
    ASSUME IInv, Tick \/ OtherWrite \/ \E r \in Rows : Create(r) \/ Cancel(r)
    PROVE  IInv'
  <1> USE ScheduleAssumption DEF IInv
  <1>1. CASE Tick
    <2>1. TypeOK'
      BY <1>1 DEF Tick, TypeOK
    <2>2. QED
      BY <1>1, <2>1 DEF Tick, Started, Claimed, Ahead, DoneDeployed, Untouched, Executing,
                        OncePerReplica, CompletedDeployed, CancelHolds
  <1>2. CASE OtherWrite
    <2>1. TypeOK'
      BY <1>2 DEF OtherWrite, TypeOK
    <2>2. QED
      BY <1>2, <2>1 DEF OtherWrite, Started, Claimed, Ahead, DoneDeployed, Untouched, Executing,
                        OncePerReplica, CompletedDeployed, CancelHolds
  <1>3. ASSUME NEW r \in Rows, Create(r) PROVE IInv'
    <2>1. TypeOK'
      BY <1>3 DEF Create, TypeOK, Status
    <2>2. Started'
      BY <1>3 DEF Create, TypeOK, Started, Executing, Unstarted
    <2>3. Claimed' /\ Ahead' /\ DoneDeployed' /\ Untouched' /\ OncePerReplica'
      BY <1>3 DEF Create, Claimed, Ahead, DoneDeployed, Untouched, OncePerReplica
    <2>4. CompletedDeployed' /\ CancelHolds'
      BY <1>3 DEF Create, TypeOK, CompletedDeployed, CancelHolds
    <2>5. QED
      BY <2>1, <2>2, <2>3, <2>4
  <1>4. ASSUME NEW r \in Rows, Cancel(r) PROVE IInv'
    <2>1. CASE status[r] # "pending"
      <3>1. UNCHANGED vars
        BY <1>4, <2>1 DEF Cancel, CancelPending, vars
      <3>2. QED
        BY <3>1 DEF vars, TypeOK, Started, Claimed, Ahead, DoneDeployed, Untouched, Executing,
                    OncePerReplica, CompletedDeployed, CancelHolds
    <2>2. CASE status[r] = "pending"
      <3>1. status' = [status EXCEPT ![r] = "cancelled"]
        BY <1>4, <2>2 DEF Cancel, CancelPending
      <3>2. TypeOK'
        BY <1>4, <3>1 DEF Cancel, TypeOK, Status, Settled
      <3>3. Started'
        BY <1>4, <3>1 DEF Cancel, TypeOK, Started, Executing, Unstarted
      <3>4. Claimed' /\ Ahead' /\ DoneDeployed' /\ OncePerReplica'
        BY <1>4 DEF Cancel, Claimed, Ahead, DoneDeployed, OncePerReplica
      <3>5. CompletedDeployed'
        BY <1>4, <3>1 DEF Cancel, TypeOK, CompletedDeployed
      <3>6. \A w \in Workers : worker[w].row # r
        <4> SUFFICES ASSUME NEW w \in Workers, worker[w].row = r PROVE FALSE
          OBVIOUS
        <4>1. Executing(w)
          BY DEF TypeOK, Worker, Executing
        <4>2. QED
          BY <4>1, <2>2 DEF Started, Unstarted
      <3>7. \A i \in DOMAIN deployed : deployed[i].row # r
        BY <2>2 DEF Started, Unstarted
      <3>8. Untouched'
        BY <1>4, <3>6 DEF Cancel, Untouched, Held
      <3>9. CancelHolds'
        BY <1>4, <3>1, <3>7 DEF Cancel, TypeOK, CancelHolds
      <3>10. QED
        BY <3>2, <3>3, <3>4, <3>5, <3>8, <3>9
    <2>3. QED
      BY <2>1, <2>2
  <1>5. QED
    BY <1>1, <1>2, <1>3, <1>4

\* A worker's new state and its row fit.
WorkerOK(v) == v \in Worker /\ (v.row = None <=> v.pc \in {"idle", "next"})

\* The head of the loop is a worker's state.
LEMMA LoopType == ASSUME NEW todo \in SUBSET Rows PROVE WorkerOK(Loop(todo))
  BY ScheduleAssumption DEF Loop, Worker, WorkerOK

\* A fault is counted within its bound.
LEMMA FaultType == ASSUME TypeOK, Fault PROVE faults' \in 0 .. MaxFaults
  BY ScheduleAssumption DEF TypeOK, Fault

\* A write by the scheduler is recorded with its row and its worker.
LEMMA WriteType ==
    ASSUME TypeOK, NEW w \in Workers, worker[w].row \in Rows, Write(w)
    PROVE  /\ fresh' \in [Workers -> BOOLEAN]
           /\ deployed' \in Seq([row : Rows, by : Workers])
           /\ DOMAIN deployed' = DOMAIN deployed \cup {Len(deployed) + 1}
           /\ \A i \in DOMAIN deployed : deployed'[i] = deployed[i]
           /\ deployed'[Len(deployed) + 1] = [row |-> worker[w].row, by |-> w]
           /\ Len(deployed) + 1 \notin DOMAIN deployed
  <1> DEFINE e == [row |-> worker[w].row, by |-> w]
  <1>1. e \in [row : Rows, by : Workers] /\ deployed \in Seq([row : Rows, by : Workers])
    BY DEF TypeOK
  <1>2. deployed' = Append(deployed, e)
    BY DEF Write
  <1>3. fresh' \in [Workers -> BOOLEAN]
    BY DEF Write
  <1> HIDE DEF e
  <1>4. /\ Append(deployed, e) \in Seq([row : Rows, by : Workers])
        /\ DOMAIN Append(deployed, e) = DOMAIN deployed \cup {Len(deployed) + 1}
        /\ \A i \in DOMAIN deployed : Append(deployed, e)[i] = deployed[i]
        /\ Append(deployed, e)[Len(deployed) + 1] = e
        /\ Len(deployed) + 1 \notin DOMAIN deployed
    BY <1>1, Appended
  <1>5. QED
    BY <1>2, <1>3, <1>4 DEF e

\* A worker that takes a well-formed state leaves the workers well formed.
LEMMA WorkersType ==
    ASSUME TypeOK, NEW w \in Workers, NEW v, WorkerOK(v), worker' = [worker EXCEPT ![w] = v]
    PROVE  /\ worker' \in [Workers -> Worker]
           /\ \A u \in Workers : worker'[u].row = None <=> worker'[u].pc \in {"idle", "next"}
  BY DEF TypeOK, WorkerOK

\* A worker that only moves on within the execution of its row.
LEMMA MoveType ==
    ASSUME TypeOK, NEW w \in Workers, NEW pc \in {"put", "done", "failed"},
           worker[w].pc \in {"get", "put"}
    PROVE  /\ worker[w].row \in Rows
           /\ [worker EXCEPT ![w].pc = pc] = [worker EXCEPT ![w] =
                 [pc |-> pc, todo |-> worker[w].todo, row |-> worker[w].row]]
           /\ WorkerOK([pc |-> pc, todo |-> worker[w].todo, row |-> worker[w].row])
  <1>1. worker[w] \in Worker /\ (worker[w].row = None <=> worker[w].pc \in {"idle", "next"})
    BY DEF TypeOK
  <1>2. worker[w].row \in Rows
    BY <1>1 DEF Worker
  <1>3. WorkerOK([pc |-> pc, todo |-> worker[w].todo, row |-> worker[w].row])
    BY <1>1, <1>2, ScheduleAssumption DEF Worker, WorkerOK
  <1>4. [worker[w] EXCEPT !.pc = pc] =
            [pc |-> pc, todo |-> worker[w].todo, row |-> worker[w].row]
    BY <1>1 DEF Worker
  <1>5. QED
    BY <1>2, <1>3, <1>4

\* The typing of a worker's steps.
LEMMA WorkerTypes ==
    ASSUME TypeOK, NEW w \in Workers,
           \/ Work(w) \/ Skip(w) \/ CallFails(w) \/ FinishLost(w) \/ Crash(w)
    PROVE  TypeOK'
  <1>0. worker[w] \in Worker /\ worker[w].todo \in SUBSET Rows
    BY DEF TypeOK, Worker
  <1>1. CASE List(w)
    <2>1. WorkerOK(Loop(Due)) /\ worker' = [worker EXCEPT ![w] = Loop(Due)]
      BY <1>1, LoopType DEF List, Due
    <2>2. QED
      BY <1>1, <2>1, WorkersType DEF List, TypeOK
  <1>2. CASE Claim(w)
    <2>1. PICK r \in First(w) :
            /\ status' = ClaimRow(r)
            /\ worker' = [worker EXCEPT ![w] =
                             [pc |-> "get", todo |-> worker[w].todo \ {r}, row |-> r]]
      BY <1>2 DEF Claim
    <2>2. r \in Rows
      BY <1>0 DEF First
    <2>3. WorkerOK([pc |-> "get", todo |-> worker[w].todo \ {r}, row |-> r])
      BY <1>0, <2>2, ScheduleAssumption DEF WorkerOK, Worker
    <2>4. status' \in [Rows -> Status]
      BY <2>1, <2>2 DEF ClaimRow, TypeOK, Status
    <2>5. QED
      BY <1>2, <2>1, <2>3, <2>4, WorkersType DEF Claim, TypeOK
  <1>3. CASE Get(w)
    <2>1. fresh' \in [Workers -> BOOLEAN]
      BY <1>3 DEF Get, TypeOK
    <2>2. QED
      BY <1>3, <2>1, MoveType, WorkersType DEF Get, TypeOK
  <1>4. CASE Put(w)
    <2>1. CASE fresh[w]
      <3>1. Write(w) /\ worker' = [worker EXCEPT ![w].pc = "done"]
        BY <1>4, <2>1 DEF Put
      <3>2. QED
        BY <1>4, <3>1, MoveType, WriteType, WorkersType DEF Put, TypeOK
    <2>2. CASE ~fresh[w]
      BY <1>4, <2>2, MoveType, WorkersType DEF Put, TypeOK
    <2>3. QED
      BY <2>1, <2>2
  <1>5. CASE Finish(w)
    <2>1. status' \in [Rows -> Status]
      <3>1. Outcome(worker[w].pc) \in Status
        BY DEF Outcome, Status, Settled
      <3>2. QED
        BY <1>5, <3>1 DEF Finish, TypeOK
    <2>2. QED
      BY <1>0, <1>5, <2>1, LoopType, WorkersType DEF Finish, TypeOK
  <1>6. CASE Skip(w)
    <2>1. PICK r \in First(w) :
            /\ skipped' = skipped \cup {r}
            /\ worker' = [worker EXCEPT ![w] = Loop(worker[w].todo \ {r})]
      BY <1>6 DEF Skip
    <2>2. r \in Rows /\ WorkerOK(Loop(worker[w].todo \ {r}))
      BY <1>0, LoopType DEF First
    <2>3. QED
      BY <1>6, <2>1, <2>2, FaultType, WorkersType DEF Skip, TypeOK
  <1>7. CASE CallFails(w)
    <2>1. /\ faults' \in 0 .. MaxFaults
          /\ worker[w].row \in Rows
          /\ worker' \in [Workers -> Worker]
          /\ \A u \in Workers : worker'[u].row = None <=> worker'[u].pc \in {"idle", "next"}
      BY <1>7, FaultType, MoveType, WorkersType DEF CallFails
    <2>2. CASE UNCHANGED <<fresh, deployed>>
      BY <1>7, <2>1, <2>2 DEF CallFails, TypeOK
    <2>3. CASE Write(w)
      BY <1>7, <2>1, <2>3, WriteType DEF CallFails, TypeOK
    <2>4. QED
      BY <1>7, <2>2, <2>3 DEF CallFails
  <1>8. CASE FinishLost(w)
    BY <1>0, <1>8, LoopType, FaultType, WorkersType DEF FinishLost, TypeOK
  <1>9. CASE Crash(w)
    <2>1. WorkerOK(Idle)
      BY ScheduleAssumption DEF WorkerOK, Idle, Worker
    <2>2. fresh' \in [Workers -> BOOLEAN]
      BY <1>9 DEF Crash, TypeOK
    <2>3. QED
      BY <1>9, <2>1, <2>2, FaultType, WorkersType DEF Crash, TypeOK
  <1>10. QED
    BY <1>1, <1>2, <1>3, <1>4, <1>5, <1>6, <1>7, <1>8, <1>9 DEF Work

\* Everything but the types.
Facts == Started /\ Claimed /\ Ahead /\ DoneDeployed /\ Untouched
         /\ OncePerReplica /\ CompletedDeployed /\ CancelHolds

\* Back at the head of the loop, with what was left or with what is due.
LEMMA LoopStep ==
    ASSUME IInv, TypeOK', NEW w \in Workers, NEW v,
           v.todo \subseteq worker[w].todo \cup Due, v.row = None,
           v.pc \in {"idle", "next"},
           worker' = [worker EXCEPT ![w] = v],
           UNCHANGED <<status, deployed, unlisted>>
    PROVE  Facts'
  <1> USE DEF IInv
  <1>1. worker'[w] = v /\ \A u \in Workers \ {w} : worker'[u] = worker[u]
    BY DEF TypeOK
  <1>2. \A i \in DOMAIN deployed : deployed[i].row \notin Due
    BY DEF Started, Unstarted, Due
  <1>3. \A r \in unlisted : r \notin Due /\ r \in Rows
    BY DEF CancelHolds, Due, TypeOK
  <1>4. Started' /\ Claimed'
    <2>1. Started'
      BY <1>1 DEF Started, Executing
    <2>2. None \notin v.todo
      BY ScheduleAssumption DEF TypeOK, Worker, Due
    <2>3. QED
      BY <1>1, <2>1, <2>2 DEF Claimed
  <1>5. Ahead'
    BY <1>1, <1>2 DEF Ahead
  <1>6. DoneDeployed'
    BY <1>1 DEF DoneDeployed
  <1>7. Untouched'
    BY <1>1, <1>3, ScheduleAssumption DEF Untouched
  <1>8. OncePerReplica' /\ CompletedDeployed' /\ CancelHolds'
    BY DEF OncePerReplica, CompletedDeployed, CancelHolds
  <1>9. QED
    BY <1>4, <1>5, <1>6, <1>7, <1>8 DEF Facts

\* A worker moves on within the execution of its row and nothing else changes.
LEMMA MoveStep ==
    ASSUME IInv, NEW w \in Workers, NEW pc \in {"put", "failed"},
           worker[w].pc \in {"get", "put"},
           worker' = [worker EXCEPT ![w].pc = pc],
           UNCHANGED <<status, deployed, unlisted>>
    PROVE  Facts'
  <1> USE DEF IInv
  <1>1. /\ worker'[w].pc = pc /\ worker'[w].todo = worker[w].todo
        /\ worker'[w].row = worker[w].row
        /\ \A u \in Workers \ {w} : worker'[u] = worker[u]
    BY DEF TypeOK, Worker
  <1>2. Started' /\ Claimed' /\ Ahead' /\ DoneDeployed' /\ Untouched'
    BY <1>1 DEF Started, Executing, Claimed, Ahead, DoneDeployed, Untouched
  <1>3. OncePerReplica' /\ CompletedDeployed' /\ CancelHolds'
    BY DEF OncePerReplica, CompletedDeployed, CancelHolds
  <1>4. QED
    BY <1>2, <1>3 DEF Facts

\* The write of the app goes through, whether or not the worker hears of it.
LEMMA WriteStep ==
    ASSUME IInv, NEW w \in Workers, NEW pc \in {"done", "failed"},
           worker[w].pc = "put", Write(w),
           worker' = [worker EXCEPT ![w].pc = pc],
           UNCHANGED <<status, unlisted>>
    PROVE  Facts'
  <1> USE DEF IInv
  <1>1. /\ worker'[w].pc = pc /\ worker'[w].todo = worker[w].todo
        /\ worker'[w].row = worker[w].row
        /\ \A u \in Workers \ {w} : worker'[u] = worker[u]
    BY DEF TypeOK, Worker
  <1> DEFINE n == Len(deployed) + 1
             row == worker[w].row
  <1>2. row \in Rows
    BY MoveType
  <1>3. /\ DOMAIN deployed' = DOMAIN deployed \cup {n}
        /\ \A i \in DOMAIN deployed : deployed'[i] = deployed[i]
        /\ deployed'[n] = [row |-> row, by |-> w]
        /\ n \notin DOMAIN deployed
    BY <1>2, WriteType
  <1> HIDE DEF n
  <1>4. status[row] \notin Unstarted /\ \A r \in unlisted : r # row
    BY DEF Started, Executing, Untouched
  <1>5. \A i \in DOMAIN deployed : deployed[i].by = w => deployed[i].row # row
    BY DEF Ahead
  <1>6. row \notin worker[w].todo
    BY DEF Claimed
  <1>7. Started' /\ Claimed'
    BY <1>1, <1>3, <1>4 DEF Started, Executing, Claimed
  <1>8. Ahead'
    BY <1>1, <1>3, <1>6 DEF Ahead
  <1>9. DoneDeployed'
    BY <1>1, <1>3 DEF DoneDeployed
  <1>10. Untouched'
    BY <1>1 DEF Untouched
  <1>11. OncePerReplica'
    BY <1>3, <1>5 DEF OncePerReplica
  <1>12. CompletedDeployed' /\ CancelHolds'
    BY <1>3, <1>4 DEF CompletedDeployed, CancelHolds
  <1>13. QED
    BY <1>7, <1>8, <1>9, <1>10, <1>11, <1>12 DEF Facts
\* Only rows are deployed.
LEMMA DeployedRows == ASSUME TypeOK PROVE \A i \in DOMAIN deployed : deployed[i].row \in Rows
  <1>1. \A S : \A s \in Seq(S) : \A i \in DOMAIN s : s[i] \in S
    OBVIOUS
  <1>2. deployed \in Seq([row : Rows, by : Workers])
    BY DEF TypeOK
  <1>3. \A i \in DOMAIN deployed : deployed[i] \in [row : Rows, by : Workers]
    BY <1>1, <1>2
  <1>4. QED
    BY <1>3

\* A worker marks a row of its list as running.
LEMMA ClaimStep ==
    ASSUME IInv, NEW w \in Workers, Claim(w)
    PROVE  Facts'
  <1> USE DEF IInv
  <1>1. PICK r \in First(w) :
          /\ status' = ClaimRow(r)
          /\ worker' = [worker EXCEPT ![w] =
                           [pc |-> "get", todo |-> worker[w].todo \ {r}, row |-> r]]
    BY DEF Claim
  <1>2. r \in worker[w].todo /\ r \in Rows
    BY DEF First, TypeOK, Worker
  <1>3. /\ worker'[w] = [pc |-> "get", todo |-> worker[w].todo \ {r}, row |-> r]
        /\ \A u \in Workers \ {w} : worker'[u] = worker[u]
    BY <1>1 DEF TypeOK
  <1>4. status'[r] = "running" /\ \A s \in Rows \ {r} : status'[s] = status[s]
    BY <1>1, <1>2 DEF ClaimRow, TypeOK
  <1>5. UNCHANGED <<deployed, unlisted>>
    BY DEF Claim
  <1>6. r \notin unlisted /\ unlisted \subseteq Rows
    BY <1>2 DEF Untouched, TypeOK
  <1>7. \A i \in DOMAIN deployed : deployed[i].row \in Rows
    BY DeployedRows
  <1>8. \A u \in Workers : Executing(u) => worker[u].row \in Rows
    BY DEF TypeOK, Worker, Executing
  <1>9. Started'
    BY <1>2, <1>3, <1>4, <1>5, <1>7, <1>8 DEF Started, Executing, Unstarted
  <1>10. Claimed' /\ DoneDeployed'
    BY <1>3, <1>5 DEF Claimed, DoneDeployed
  <1>11. Ahead'
    BY <1>2, <1>3, <1>5 DEF Ahead
  <1>12. Untouched'
    BY <1>2, <1>3, <1>5, <1>6 DEF Untouched
  <1>13. OncePerReplica' /\ CompletedDeployed' /\ CancelHolds'
    BY <1>2, <1>4, <1>5, <1>6 DEF OncePerReplica, CompletedDeployed, CancelHolds
  <1>14. QED
    BY <1>9, <1>10, <1>11, <1>12, <1>13 DEF Facts

\* A worker records the outcome of its row.
LEMMA FinishStep ==
    ASSUME IInv, NEW w \in Workers, Finish(w)
    PROVE  Facts'
  <1> USE DEF IInv
  <1> DEFINE row == worker[w].row
             v   == Loop(worker[w].todo)
  <1>1. worker[w] \in Worker /\ row \in Rows /\ Executing(w)
    BY DEF Finish, TypeOK, Worker, Executing
  <1>2. v.todo = worker[w].todo /\ v.row = None /\ v.pc \in {"idle", "next"}
    BY DEF Loop
  <1> HIDE DEF v
  <1>3. worker'[w] = v /\ \A u \in Workers \ {w} : worker'[u] = worker[u]
    BY DEF Finish, TypeOK, v
  <1>4. /\ status'[row] = Outcome(worker[w].pc)
        /\ \A s \in Rows \ {row} : status'[s] = status[s]
    BY <1>1 DEF Finish, TypeOK
  <1>5. UNCHANGED <<deployed, unlisted>>
    BY DEF Finish
  <1>6. /\ status'[row] \notin Unstarted
        /\ status'[row] = "completed" => worker[w].pc = "done"
    BY <1>4 DEF Outcome, Unstarted
  <1>7. row \notin unlisted /\ unlisted \subseteq Rows
    BY DEF Untouched, TypeOK
  <1>8. \A i \in DOMAIN deployed : deployed[i].row \in Rows
    BY DeployedRows
  <1>9. \A u \in Workers : Executing(u) => worker[u].row \in Rows
    BY DEF TypeOK, Worker, Executing
  <1>10. Started'
    BY <1>2, <1>3, <1>4, <1>5, <1>6, <1>8, <1>9 DEF Started, Executing
  <1>11. Claimed'
    <2>1. None \notin worker[w].todo
      BY <1>1, ScheduleAssumption DEF Worker
    <2>2. QED
      BY <2>1, <1>2, <1>3 DEF Claimed
  <1>12. Ahead' /\ DoneDeployed'
    BY <1>2, <1>3, <1>5 DEF Ahead, DoneDeployed
  <1>13. Untouched'
    BY <1>2, <1>3, <1>5, <1>7, ScheduleAssumption DEF Untouched
  <1>14. CompletedDeployed'
    BY <1>4, <1>5, <1>6 DEF CompletedDeployed, DoneDeployed
  <1>15. OncePerReplica' /\ CancelHolds'
    BY <1>4, <1>5, <1>7 DEF OncePerReplica, CancelHolds
  <1>16. QED
    BY <1>10, <1>11, <1>12, <1>13, <1>14, <1>15 DEF Facts

\* Every step of a worker keeps the invariant.
LEMMA WorkerStep ==
    ASSUME IInv, NEW w \in Workers,
           \/ Work(w) \/ Skip(w) \/ CallFails(w) \/ FinishLost(w) \/ Crash(w)
    PROVE  IInv'
  <1>1. TypeOK'
    BY WorkerTypes DEF IInv
  <1>2. \A todo : /\ Loop(todo).todo = todo
                  /\ Loop(todo).row = None
                  /\ Loop(todo).pc \in {"idle", "next"}
    BY DEF Loop
  <1>3. CASE List(w)
    <2>1. /\ worker' = [worker EXCEPT ![w] = Loop(Due)]
          /\ UNCHANGED <<status, deployed, unlisted>>
      BY <1>3 DEF List
    <2>2. Facts'
      BY <1>1, <1>2, <2>1, LoopStep
    <2>3. QED
      BY <1>1, <2>2 DEF IInv, Facts
  <1>4. CASE Claim(w)
    BY <1>1, <1>4, ClaimStep DEF IInv, Facts
  <1>5. CASE Get(w)
    <2>1. Facts'
      BY <1>5, MoveStep DEF Get
    <2>2. QED
      BY <1>1, <2>1 DEF IInv, Facts
  <1>6. CASE Put(w)
    <2>1. Facts'
      BY <1>6, MoveStep, WriteStep DEF Put
    <2>2. QED
      BY <1>1, <2>1 DEF IInv, Facts
  <1>7. CASE Finish(w)
    BY <1>1, <1>7, FinishStep DEF IInv, Facts
  <1>8. CASE Skip(w)
    <2>1. PICK r \in First(w) : worker' = [worker EXCEPT ![w] = Loop(worker[w].todo \ {r})]
      BY <1>8 DEF Skip
    <2>2. UNCHANGED <<status, deployed, unlisted>>
      BY <1>8 DEF Skip
    <2>3. Facts'
      BY <1>1, <1>2, <2>1, <2>2, LoopStep
    <2>4. QED
      BY <1>1, <2>3 DEF IInv, Facts
  <1>9. CASE CallFails(w)
    <2>1. Facts'
      BY <1>9, MoveStep, WriteStep DEF CallFails
    <2>2. QED
      BY <1>1, <2>1 DEF IInv, Facts
  <1>10. CASE FinishLost(w)
    <2>1. /\ worker' = [worker EXCEPT ![w] = Loop(worker[w].todo)]
          /\ UNCHANGED <<status, deployed, unlisted>>
      BY <1>10 DEF FinishLost
    <2>2. Facts'
      BY <1>1, <1>2, <2>1, LoopStep
    <2>3. QED
      BY <1>1, <2>2 DEF IInv, Facts
  <1>11. CASE Crash(w)
    <2>1. /\ worker' = [worker EXCEPT ![w] = Idle]
          /\ UNCHANGED <<status, deployed, unlisted>>
      BY <1>11 DEF Crash
    <2>2. Idle.todo = {} /\ Idle.row = None /\ Idle.pc \in {"idle", "next"}
      BY DEF Idle
    <2>3. Facts'
      BY <1>1, <2>1, <2>2, LoopStep
    <2>4. QED
      BY <1>1, <2>3 DEF IInv, Facts
  <1>12. QED
    BY <1>3, <1>4, <1>5, <1>6, <1>7, <1>8, <1>9, <1>10, <1>11 DEF Work

\* The inductive invariant holds in every reachable state.
LEMMA Inductive == Spec => []IInv
  <1>1. IInv /\ UNCHANGED vars => IInv'
    BY DEF vars, IInv, TypeOK, Started, Claimed, Ahead, DoneDeployed, Untouched, Executing,
           OncePerReplica, CompletedDeployed, CancelHolds
  <1>2. IInv /\ [Next]_vars => IInv'
    BY <1>1, UserStep, WorkerStep DEF Next
  <1>3. QED
    BY InitInv, <1>2, PTL DEF Spec

\* Every variable keeps its type.
THEOREM SchedulerTypes == Spec => []TypeOK
  <1>1. IInv => TypeOK
    BY DEF IInv
  <1>2. QED
    BY <1>1, Inductive, PTL

\* No replica deploys a row twice, whatever fails, is lost or restarts: a row is marked
\* as running before its deployment, and only pending rows are listed.
THEOREM DeployedOncePerReplica == Spec => []OncePerReplica
  <1>1. IInv => OncePerReplica
    BY DEF IInv
  <1>2. QED
    BY <1>1, Inductive, PTL

\* A row that says completed was deployed.
THEOREM CompletedIsDeployed == Spec => []CompletedDeployed
  <1>1. IInv => CompletedDeployed
    BY DEF IInv
  <1>2. QED
    BY <1>1, Inductive, PTL

\* A row cancelled before any worker listed it is never deployed.
THEOREM CancelledIsKept == Spec => []CancelHolds
  <1>1. IInv => CancelHolds
    BY DEF IInv
  <1>2. QED
    BY <1>1, Inductive, PTL

-----------------------------------------------------------------------------
(* The order of one replica's deployments *)

\* The rows a worker has written to the app, and those it has begun with.
Sent(w)  == {deployed[i].row : i \in {k \in DOMAIN deployed : deployed[k].by = w}}
Begun(w) == Sent(w) \cup ({worker[w].row} \ {None})

\* What a worker may still begin with and did not fail to mark.
Left(w) == {r \in Rows \ skipped : status[r] = "pending" \/ r \in worker[w].todo}

\* What a worker has listed was due.
WasDue(w) == \A b \in Begun(w) \cup worker[w].todo : At[b] <= now

\* What is left comes after what was begun.
BegunFirst(w) == \A b \in Begun(w), r \in Left(w) : At[b] <= At[r]

\* What came up since the list was made comes after the list.
ListFirst(w) ==
    \A b \in worker[w].todo, r \in Left(w) \ worker[w].todo : At[b] <= At[r]

\* The current row comes after those already written.
RowLast(w) ==
    worker[w].row \notin skipped \cup {None} => \A b \in Sent(w) : At[b] <= At[worker[w].row]

OrderOf(w) == WasDue(w) /\ BegunFirst(w) /\ ListFirst(w) /\ RowLast(w)

OrderInv == (\A w \in Workers : OrderOf(w)) /\ InScheduledOrder

\* All these are rows, and times are numbers.
LEMMA OrderTypes ==
    ASSUME TypeOK, NEW w \in Workers
    PROVE  /\ Sent(w) \subseteq Rows /\ Begun(w) \subseteq Rows /\ Left(w) \subseteq Rows
           /\ worker[w].todo \subseteq Rows
           /\ \A r \in Rows : At[r] \in Nat
           /\ now \in Nat
  <1>1. Sent(w) \subseteq Rows
    BY DeployedRows DEF Sent
  <1>2. worker[w] \in Worker
    BY DEF TypeOK
  <1>3. QED
    BY <1>1, <1>2, ScheduleAssumption DEF Begun, Left, Worker, TypeOK

\* A worker that begins with nothing new keeps the order: what it lists is due, and
\* what becomes possible is not earlier than now.
LEMMA OrderKept ==
    ASSUME TypeOK, TypeOK', NEW w \in Workers, OrderOf(w), now <= now',
           Begun(w)' \subseteq Begun(w),
           worker'[w].todo \subseteq worker[w].todo \cup Due,
           \A r \in Left(w)' : r \in Left(w) \/ now <= At[r],
           \A b \in worker'[w].todo, r \in Left(w)' \ worker'[w].todo :
               \/ b \in worker[w].todo /\ r \in Left(w) \ worker[w].todo
               \/ now <= At[r],
           worker'[w].row \in {worker[w].row, None},
           Sent(w)' \subseteq Sent(w) \cup {worker'[w].row},
           skipped \subseteq skipped'
    PROVE  OrderOf(w)'
  <1> USE OrderTypes DEF OrderOf
  <1>1. /\ Begun(w)' \subseteq Rows /\ Left(w)' \subseteq Rows /\ worker'[w].todo \subseteq Rows
        /\ Sent(w)' \subseteq Rows /\ now' \in Nat
    <2>1. TypeOK' /\ ScheduleAssumption => Sent(w)' \subseteq Rows
      <3>1. \A S : \A s \in Seq(S) : \A i \in DOMAIN s : s[i] \in S
        OBVIOUS
      <3>2. TypeOK' => deployed' \in Seq([row : Rows, by : Workers])
        BY DEF TypeOK
      <3>3. TypeOK' => \A i \in DOMAIN deployed' : deployed'[i] \in [row : Rows, by : Workers]
        BY <3>1, <3>2
      <3>4. QED
        BY <3>3 DEF Sent
    <2>2. worker'[w] \in Worker /\ now' \in Nat
      BY ScheduleAssumption DEF TypeOK
    <2>3. QED
      BY <2>1, <2>2, ScheduleAssumption DEF Begun, Left, Worker
  <1>2. \A b \in Begun(w) \cup worker[w].todo \cup Due : At[b] <= now
    BY DEF WasDue, Due
  <1>3. WasDue(w)'
    BY <1>1, <1>2 DEF WasDue
  <1>4. BegunFirst(w)'
    BY <1>1, <1>2 DEF BegunFirst
  <1>5. ListFirst(w)'
    BY <1>1, <1>2 DEF ListFirst
  <1>6. RowLast(w)'
    BY <1>1 DEF RowLast
  <1>7. QED
    BY <1>3, <1>4, <1>5, <1>6

\* As long as the app is not written, what is deployed stays in order.
LEMMA SameDeployed ==
    ASSUME InScheduledOrder, deployed' = deployed, skipped \subseteq skipped'
    PROVE  InScheduledOrder'
  BY DEF InScheduledOrder

\* A worker that has no part in a step sees rows created, settled or claimed.
LEMMA OthersOrder ==
    ASSUME TypeOK, TypeOK', NEW w \in Workers, OrderOf(w), now <= now',
           worker'[w] = worker[w], Sent(w)' = Sent(w), skipped \subseteq skipped',
           \A r \in Rows : status'[r] = "pending" => status[r] = "pending" \/ now <= At[r]
    PROVE  OrderOf(w)'
  <1>1. Begun(w)' = Begun(w)
    BY DEF Begun
  <1>2. \A r \in Left(w)' : r \in Left(w) \/ now <= At[r]
    BY DEF Left
  <1>3. QED
    BY <1>1, <1>2, OrderKept

\* The users, the clock and the other writers of the app.
LEMMA UserOrder ==
    ASSUME TypeOK, TypeOK', OrderInv,
           Tick \/ OtherWrite \/ (\E r \in Rows : Create(r) \/ Cancel(r)) \/ UNCHANGED vars
    PROVE  OrderInv'
  <1> USE DEF OrderInv
  <1>1. worker' = worker /\ deployed' = deployed /\ skipped' = skipped /\ now <= now'
    BY ScheduleAssumption DEF Tick, OtherWrite, Create, Cancel, vars, TypeOK
  <1>2. \A r \in Rows : status'[r] = "pending" => status[r] = "pending" \/ now <= At[r]
    BY ScheduleAssumption DEF Tick, OtherWrite, Create, Cancel, CancelPending, vars, TypeOK
  <1>3. \A w \in Workers : Sent(w)' = Sent(w)
    BY <1>1 DEF Sent
  <1>4. \A w \in Workers : OrderOf(w)'
    BY <1>1, <1>2, <1>3, OthersOrder
  <1>5. QED
    BY <1>1, <1>4, SameDeployed

\* A worker begins with the first row of its list.
LEMMA ClaimOrder ==
    ASSUME IInv, TypeOK', OrderInv, NEW w \in Workers, Claim(w)
    PROVE  OrderInv'
  <1> USE DEF OrderInv
  <1>1. PICK r \in First(w) :
          /\ status' = ClaimRow(r)
          /\ worker' = [worker EXCEPT ![w] =
                           [pc |-> "get", todo |-> worker[w].todo \ {r}, row |-> r]]
    BY DEF Claim
  <1>2. UNCHANGED <<now, deployed, skipped>>
    BY DEF Claim
  <1>3. TypeOK /\ OrderOf(w)
    BY DEF IInv
  <1>4. /\ Sent(w) \subseteq Rows /\ Begun(w) \subseteq Rows /\ Left(w) \subseteq Rows
        /\ worker[w].todo \subseteq Rows /\ now \in Nat /\ \A s \in Rows : At[s] \in Nat
    BY <1>3, OrderTypes
  <1>5. r \in worker[w].todo /\ r \in Rows /\ \A s \in worker[w].todo : At[r] <= At[s]
    BY <1>4 DEF First
  <1>6. worker'[w].row = r /\ worker'[w].todo = worker[w].todo \ {r}
        /\ \A u \in Workers \ {w} : worker'[u] = worker[u]
    BY <1>1, <1>3 DEF TypeOK
  <1>7. status'[r] = "running" /\ \A s \in Rows \ {r} : status'[s] = status[s]
    BY <1>1, <1>3, <1>5 DEF ClaimRow, TypeOK
  <1>8. \A u \in Workers : Sent(u)' = Sent(u)
    BY <1>2 DEF Sent
  <1>9. \A u \in Workers \ {w} : OrderOf(u)'
    BY <1>2, <1>3, <1>4, <1>6, <1>7, <1>8, OthersOrder
  <1>10. Begun(w)' \subseteq Begun(w) \cup {r} /\ Left(w)' \subseteq Left(w) \ {r}
    BY <1>2, <1>6, <1>7, <1>8 DEF Begun, Left
  <1>11. WasDue(w)'
    BY <1>2, <1>3, <1>5, <1>6, <1>10 DEF OrderOf, WasDue
  <1>12. BegunFirst(w)'
    <2>1. \A s \in Left(w) : At[r] <= At[s]
      BY <1>3, <1>5 DEF OrderOf, ListFirst
    <2>2. QED
      BY <1>3, <1>10, <2>1 DEF OrderOf, BegunFirst
  <1>13. ListFirst(w)'
    BY <1>3, <1>6, <1>10 DEF OrderOf, ListFirst
  <1>14. RowLast(w)'
    BY <1>2, <1>3, <1>5, <1>6, <1>8 DEF OrderOf, BegunFirst, RowLast, Begun, Left
  <1>15. QED
    BY <1>2, <1>9, <1>11, <1>12, <1>13, <1>14, SameDeployed DEF OrderOf

\* A worker goes back to the head of its loop.
LEMMA LoopOrder ==
    ASSUME TypeOK, TypeOK', OrderInv, NEW w \in Workers, NEW v,
           \/ v.todo = Due
           \/ v.todo = {}
           \/ \E r : v.todo = worker[w].todo \ {r} /\ skipped' = skipped \cup {r}
           \/ v.todo = worker[w].todo,
           v.row = None,
           worker' = [worker EXCEPT ![w] = v],
           UNCHANGED <<now, deployed>>, skipped \subseteq skipped',
           \A r \in Rows : status'[r] = "pending" => status[r] = "pending"
    PROVE  OrderInv'
  <1> USE DEF OrderInv
  <1>1. worker'[w] = v /\ \A u \in Workers \ {w} : worker'[u] = worker[u]
    BY DEF TypeOK
  <1>2. \A u \in Workers : Sent(u)' = Sent(u)
    BY DEF Sent
  <1>3. now <= now'
    BY ScheduleAssumption DEF TypeOK
  <1>4. \A u \in Workers \ {w} : OrderOf(u)'
    BY <1>1, <1>2, <1>3, OthersOrder
  <1>5. Begun(w)' \subseteq Begun(w)
    BY <1>1, <1>2 DEF Begun
  <1>6. v.todo \subseteq worker[w].todo \cup Due
    OBVIOUS
  <1>7. \A r \in Left(w)' : r \in Left(w)
    BY <1>1, <1>6 DEF Left, Due
  <1>8. \A b \in v.todo, r \in Left(w)' \ v.todo :
            \/ b \in worker[w].todo /\ r \in Left(w) \ worker[w].todo
            \/ now <= At[r]
    <2> SUFFICES ASSUME NEW b \in v.todo, NEW r \in Left(w)' \ v.todo
                 PROVE  \/ b \in worker[w].todo /\ r \in Left(w) \ worker[w].todo
                        \/ now <= At[r]
      OBVIOUS
    <2>1. r \in Rows /\ r \notin skipped' /\ r \in Left(w)
      BY <1>7 DEF Left
    <2>2. CASE v.todo = Due
      <3>1. status[r] = "pending"
        BY <1>1, <2>1, <2>2 DEF Left
      <3>2. QED
        BY <2>1, <2>2, <3>1, ScheduleAssumption DEF Due, TypeOK
    <2>3. CASE v.todo # Due
      BY <2>1, <2>3
    <2>4. QED
      BY <2>2, <2>3
  <1>9. OrderOf(w)'
    BY <1>1, <1>2, <1>3, <1>5, <1>6, <1>7, <1>8, OrderKept
  <1>10. QED
    BY <1>4, <1>9, SameDeployed

\* A worker goes on with its row, and may write it to the app.
LEMMA RowOrder ==
    ASSUME TypeOK, TypeOK', OrderInv, NEW w \in Workers, worker[w].pc \in {"get", "put"},
           worker'[w].row = worker[w].row, worker'[w].todo = worker[w].todo,
           \A u \in Workers \ {w} : worker'[u] = worker[u],
           deployed' = deployed \/ Write(w),
           UNCHANGED <<now, status, skipped>>
    PROVE  OrderInv'
  <1> USE DEF OrderInv
  <1> DEFINE row == worker[w].row
  <1>1. row \in Rows /\ row # None
    BY ScheduleAssumption DEF TypeOK, Worker
  <1>2. \/ deployed' = deployed
        \/ \E n : /\ DOMAIN deployed' = DOMAIN deployed \cup {n}
                  /\ \A i \in DOMAIN deployed : deployed'[i] = deployed[i] /\ i < n
                  /\ deployed'[n] = [row |-> row, by |-> w]
                  /\ n \in Nat
    <2>1. CASE Write(w)
      <3>1. deployed' = Append(deployed, [row |-> row, by |-> w])
        BY <2>1 DEF Write
      <3>2. /\ deployed \in Seq([row : Rows, by : Workers])
            /\ [row |-> row, by |-> w] \in [row : Rows, by : Workers]
        BY <1>1 DEF TypeOK
      <3>3. /\ DOMAIN deployed' = DOMAIN deployed \cup {Len(deployed) + 1}
            /\ \A i \in DOMAIN deployed : deployed'[i] = deployed[i]
            /\ deployed'[Len(deployed) + 1] = [row |-> row, by |-> w]
        BY <3>1, <3>2, Appended
      <3>4. Len(deployed) + 1 \in Nat /\ \A i \in DOMAIN deployed : i < Len(deployed) + 1
        BY <3>2
      <3>5. QED
        BY <3>3, <3>4
    <2>2. QED
      BY <2>1
  <1>3. /\ \A u \in Workers \ {w} : Sent(u)' = Sent(u)
        /\ Sent(w)' \subseteq Sent(w) \cup {row}
    <2>1. CASE deployed' = deployed
      BY <2>1 DEF Sent
    <2>2. CASE \E n : /\ DOMAIN deployed' = DOMAIN deployed \cup {n}
                      /\ \A i \in DOMAIN deployed : deployed'[i] = deployed[i] /\ i < n
                      /\ deployed'[n] = [row |-> row, by |-> w]
                      /\ n \in Nat
      <3>1. PICK n : /\ DOMAIN deployed' = DOMAIN deployed \cup {n}
                     /\ \A i \in DOMAIN deployed : deployed'[i] = deployed[i] /\ i < n
                     /\ deployed'[n] = [row |-> row, by |-> w]
                     /\ n \in Nat
        BY <2>2
      <3>2. deployed'[n].by = w /\ deployed'[n].row = row
        BY <3>1
      <3>3. QED
        BY <3>1, <3>2 DEF Sent
    <2>3. QED
      BY <1>2, <2>1, <2>2
  <1>4. now <= now'
    BY ScheduleAssumption DEF TypeOK
  <1>5. \A u \in Workers \ {w} : OrderOf(u)'
    BY <1>3, <1>4, OthersOrder
  <1>6. Begun(w)' \subseteq Begun(w)
    BY <1>1, <1>3 DEF Begun
  <1>7. Left(w)' = Left(w)
    BY DEF Left
  <1>8. OrderOf(w)'
    BY <1>3, <1>4, <1>6, <1>7, OrderKept
  <1>9. InScheduledOrder'
    <2>1. CASE deployed' = deployed
      BY <2>1, SameDeployed
    <2>2. CASE \E n : /\ DOMAIN deployed' = DOMAIN deployed \cup {n}
                      /\ \A i \in DOMAIN deployed : deployed'[i] = deployed[i] /\ i < n
                      /\ deployed'[n] = [row |-> row, by |-> w]
                      /\ n \in Nat
      <3>1. PICK n : /\ DOMAIN deployed' = DOMAIN deployed \cup {n}
                     /\ \A i \in DOMAIN deployed : deployed'[i] = deployed[i] /\ i < n
                     /\ deployed'[n] = [row |-> row, by |-> w]
                     /\ n \in Nat
        BY <2>2
      <3>2. deployed'[n].by = w /\ deployed'[n].row = row /\ n \notin DOMAIN deployed
        BY <3>1
      <3>3. row \notin skipped => \A i \in DOMAIN deployed : deployed[i].by = w =>
                At[deployed[i].row] <= At[row]
        BY <1>1 DEF OrderOf, RowLast, Sent
      <3>4. \A i \in DOMAIN deployed : i \in Nat /\ ~(n < i)
        BY <3>1 DEF TypeOK
      <3>5. ~(n < n)
        BY <3>1
      <3>6. QED
        BY <3>1, <3>2, <3>3, <3>4, <3>5 DEF InScheduledOrder
    <2>3. QED
      BY <1>2, <2>1, <2>2
  <1>10. QED
    BY <1>5, <1>8, <1>9

\* Every st\* Every step of a worker keeps the order.
LEMMA WorkerOrder ==
    ASSUME IInv, TypeOK', OrderInv, NEW w \in Workers,
           \/ Work(w) \/ Skip(w) \/ CallFails(w) \/ FinishLost(w) \/ Crash(w)
    PROVE  OrderInv'
  <1>1. TypeOK /\ \A todo : Loop(todo).todo = todo /\ Loop(todo).row = None
    BY DEF IInv, Loop
  <1>2. CASE List(w)
    <2>1. /\ worker' = [worker EXCEPT ![w] = Loop(Due)]
          /\ UNCHANGED <<now, status, deployed, skipped>>
      BY <1>2 DEF List
    <2>2. QED
      BY <1>1, <2>1, LoopOrder
  <1>3. CASE Claim(w)
    BY <1>3, ClaimOrder
  <1>4. CASE Get(w) \/ Put(w) \/ CallFails(w)
    <2>1. \E pc : worker' = [worker EXCEPT ![w].pc = pc]
      BY <1>4 DEF Get, Put, CallFails
    <2>2. /\ worker'[w].row = worker[w].row /\ worker'[w].todo = worker[w].todo
          /\ \A u \in Workers \ {w} : worker'[u] = worker[u]
      BY <1>1, <2>1 DEF TypeOK, Worker
    <2>3. /\ worker[w].pc \in {"get", "put"} /\ (deployed' = deployed \/ Write(w))
          /\ UNCHANGED <<now, status, skipped>>
      BY <1>4 DEF Get, Put, CallFails
    <2>4. QED
      BY <1>1, <2>2, <2>3, RowOrder
  <1>5. CASE Finish(w)
    <2>1. /\ worker' = [worker EXCEPT ![w] = Loop(worker[w].todo)]
          /\ UNCHANGED <<now, deployed, skipped>>
      BY <1>5 DEF Finish
    <2>2. \A r \in Rows : status'[r] = "pending" => status[r] = "pending"
      BY <1>1, <1>5 DEF Finish, Outcome, TypeOK
    <2>3. QED
      BY <1>1, <2>1, <2>2, LoopOrder
  <1>6. CASE Skip(w)
    <2>1. PICK r \in First(w) :
             /\ skipped' = skipped \cup {r}
             /\ worker' = [worker EXCEPT ![w] = Loop(worker[w].todo \ {r})]
      BY <1>6 DEF Skip
    <2>2. UNCHANGED <<now, status, deployed>>
      BY <1>6 DEF Skip
    <2>3. QED
      BY <1>1, <2>1, <2>2, LoopOrder
  <1>7. CASE FinishLost(w)
    <2>1. /\ worker' = [worker EXCEPT ![w] = Loop(worker[w].todo)]
          /\ UNCHANGED <<now, status, deployed, skipped>>
      BY <1>7 DEF FinishLost
    <2>2. QED
      BY <1>1, <2>1, LoopOrder
  <1>8. CASE Crash(w)
    <2>1. /\ worker' = [worker EXCEPT ![w] = Idle]
          /\ UNCHANGED <<now, status, deployed, skipped>>
      BY <1>8 DEF Crash
    <2>2. Idle.todo = {} /\ Idle.row = None
      BY DEF Idle
    <2>3. QED
      BY <1>1, <2>1, <2>2, LoopOrder
  <1>9. QED
    BY <1>2, <1>3, <1>4, <1>5, <1>6, <1>7, <1>8 DEF Work

\* A replica writes rows to the app in the order of their times, but for a row it once
\* could not mark: a list holds all that is due, its first row goes first, and what is
\* created later is scheduled later.
THEOREM DeployedInOrder == Spec => []InScheduledOrder
  <1>1. Init => OrderInv
    <2> SUFFICES ASSUME Init PROVE OrderInv
      OBVIOUS
    <2>1. \A w \in Workers : Begun(w) = {} /\ Sent(w) = {} /\ worker[w].todo = {}
                             /\ worker[w].row = None
      BY DEF Init, Idle, Begun, Sent
    <2>2. QED
      BY <2>1 DEF Init, OrderInv, OrderOf, WasDue, BegunFirst, ListFirst, RowLast,
                  InScheduledOrder
  <1>2. IInv /\ IInv' /\ OrderInv /\ [Next]_vars => OrderInv'
    <2> SUFFICES ASSUME IInv, IInv', OrderInv, [Next]_vars PROVE OrderInv'
      OBVIOUS
    <2>1. TypeOK /\ TypeOK'
      BY DEF IInv
    <2>2. QED
      BY <2>1, UserOrder, WorkerOrder DEF Next
  <1>3. OrderInv => InScheduledOrder
    BY DEF OrderInv
  <1>4. QED
    BY Inductive, <1>1, <1>2, <1>3, PTL DEF Spec
=============================================================================
