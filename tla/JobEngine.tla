------------------------------ MODULE JobEngine ------------------------------
(***************************************************************************)
(* Jobs and their logs: JobManager (phif/jobs/manager.py), the requests    *)
(* that create migration jobs (create_migration of phif/api/migrations.py  *)
(* and run_migration of phif/migrate/service.py), the WebSocket handler    *)
(* that streams a job's log (phif/api/jobs.py), and the reconciliation at  *)
(* startup (phif/jobs/reconcile.py).                                       *)
(*                                                                         *)
(* Everything runs in one event loop: a step ends where the code awaits    *)
(* the database.  Queues of log lines are unbounded, so emitting one does  *)
(* not wait.                                                               *)
(***************************************************************************)
EXTENDS Integers, Sequences, FiniteSets

CONSTANTS
    Jobs,          \* the requests for a job
    Clients,       \* the log viewers
    Vm,            \* the VM each job migrates
    Entry,         \* how each is requested: by "api", by a "group" member, or
                   \* as a "plain" operation, which has no Migration row
    MaxConcurrent, \* max_concurrent_jobs
    OpLines,       \* bound: log lines of one operation
    MaxFaults,     \* bound: database errors
    MaxRestarts    \* bound: restarts of the process

ASSUME EntryAssumption == Entry \in [Jobs -> {"api", "group", "plain"}] /\ DOMAIN Vm = Jobs
ASSUME BoundAssumption ==
    MaxConcurrent \in Nat \ {0} /\ OpLines \in Nat /\ MaxFaults \in Nat /\ MaxRestarts \in Nat

VARIABLES
    row,      \* the Job rows' statuses ("none": no row)
    logs,     \* the Job rows' logs
    mig,      \* the Migration rows' statuses
    task,     \* the requests and the tasks they start
    waiting,  \* the tasks waiting for the semaphore, in order
    client,   \* the WebSocket handlers, with the queues they subscribed
    faults, restarts

vars == <<row, logs, mig, task, waiting, client, faults, restarts>>

-----------------------------------------------------------------------------
(* A log line is its number; two are special.                              *)

Lines == OpLines + 3 \* "started", the operation's, the verdict, an error
End   == 0           \* "__END__"
Note  == Lines + 1   \* the line reconciliation appends

JobStatus == {"none", "pending", "running", "succeeded", "failed"}
MigStatus == JobStatus \union {"rolled_back"}
InProgress == {"pending", "running"}
Terminal  == {"succeeded", "failed", "rolled_back"}

RequestPcs == {"off", "guarded", "rowed"}
HoldingPcs == {"entered", "setup", "op", "finalize", "refinalize", "end"}
\* "lost": the process was restarted.
TaskType == [pc: RequestPcs \union {"waiting"} \union HoldingPcs \union {"ended", "rejected", "lost"},
             verdict: {"none", "succeeded", "failed"},
             emitted: 0..Lines]
ClientType == [pc: {"off", "gap", "tail", "closed"}, job: Jobs \union {"none"},
               got: Seq(0..Note), queue: Seq(0..Note)]

NoTask   == [pc |-> "off", verdict |-> "none", emitted |-> 0]
NoClient == [pc |-> "off", job |-> "none", got |-> << >>, queue |-> << >>]

Init ==
    /\ row = [j \in Jobs |-> "none"]
    /\ logs = [j \in Jobs |-> << >>]
    /\ mig = [j \in Jobs |-> "none"]
    /\ task = [j \in Jobs |-> NoTask]
    /\ waiting = << >>
    /\ client = [c \in Clients |-> NoClient]
    /\ faults = 0
    /\ restarts = 0

Fault == faults < MaxFaults /\ faults' = faults + 1

\* The subscribers of j are sent the lines.
Publish(j, lines) ==
    client' = [c \in Clients |->
        IF client[c].pc = "tail" /\ client[c].job = j
        THEN [client[c] EXCEPT !.queue = @ \o lines] ELSE client[c]]

\* j emits its next line and goes on at pc with its verdict.
Emit(j, pc, verdict) ==
    /\ task' = [task EXCEPT ![j] = [pc |-> pc, verdict |-> verdict, emitted |-> @.emitted + 1]]
    /\ Publish(j, <<task[j].emitted + 1>>)

-----------------------------------------------------------------------------
(* Requests.                                                               *)

Busy(vm) == \E k \in Jobs : Vm[k] = vm /\ mig[k] \in InProgress

\* create_migration's guard; groups and other operations have none.
Request(j) ==
    /\ task[j].pc = "off"
    /\ task' = [task EXCEPT ![j].pc =
          IF Entry[j] = "api" /\ Busy(Vm[j]) THEN "rejected"
          ELSE IF Entry[j] = "plain" THEN "rowed" ELSE "guarded"]
    /\ UNCHANGED <<row, logs, mig, waiting, client, faults, restarts>>

\* run_migration creates the Migration row, unless a hypervisor is gone ...
CreateRow(j) ==
    /\ task[j].pc = "guarded"
    /\ \/ /\ task' = [task EXCEPT ![j].pc = "rowed"]
          /\ mig' = [mig EXCEPT ![j] = "pending"]
       \/ /\ task' = [task EXCEPT ![j].pc = "rejected"]
          /\ UNCHANGED mig
    /\ UNCHANGED <<row, logs, waiting, client, faults, restarts>>

\* ... and create_and_run the Job row and the task.
CreateJob(j) ==
    /\ task[j].pc = "rowed"
    /\ \/ /\ row' = [row EXCEPT ![j] = "pending"]
          /\ task' = [task EXCEPT ![j].pc = "waiting"]
          /\ waiting' = Append(waiting, j)
          /\ UNCHANGED faults
       \/ /\ Fault
          /\ task' = [task EXCEPT ![j].pc = "rejected"]
          /\ UNCHANGED <<row, waiting>>
    /\ UNCHANGED <<logs, mig, client, restarts>>

-----------------------------------------------------------------------------
(* JobManager._run.                                                        *)

\* Fault: a task that died keeps its place in the semaphore.
HoldersAndDead == {j \in Jobs : task[j].pc \in HoldingPcs \/ (task[j].pc = "ended" /\ task[j].verdict = "none")}
Holders == {j \in Jobs : task[j].pc \in HoldingPcs}

Enter(j) ==
    /\ waiting /= << >> /\ j = Head(waiting)
    /\ Cardinality(Holders) < MaxConcurrent
    /\ waiting' = Tail(waiting)
    /\ task' = [task EXCEPT ![j].pc = "entered"]
    /\ UNCHANGED <<row, logs, mig, client, faults, restarts>>

\* An error here is outside of the try block: the task dies.
SetRunning(j) ==
    /\ task[j].pc = "entered"
    /\ \/ /\ row' = [row EXCEPT ![j] = "running"]
          /\ Emit(j, "setup", "none")
          /\ UNCHANGED faults
       \/ /\ Fault
          /\ task' = [task EXCEPT ![j].pc = "ended"]
          /\ UNCHANGED <<row, client>>
    /\ UNCHANGED <<logs, mig, waiting, restarts>>

\* _update_migration, which gives up silently after its retries.
UpdateMigration(j, st) ==
    \/ mig' = [mig EXCEPT ![j] = IF Entry[j] = "plain" THEN @ ELSE st] /\ UNCHANGED faults
    \/ Fault /\ Entry[j] /= "plain" /\ UNCHANGED mig

\* The operation reads its hypervisors, which may be gone, and builds its
\* connectors, which may raise; then the first phase is recorded.
Setup(j) ==
    /\ task[j].pc = "setup"
    /\ \/ /\ task' = [task EXCEPT ![j].pc = "op"]
          /\ UpdateMigration(j, "running")
          /\ UNCHANGED client
       \/ Emit(j, "finalize", "failed") /\ UNCHANGED <<mig, faults>>
       \/ Emit(j, "refinalize", "failed") /\ UNCHANGED <<mig, faults>>
    /\ UNCHANGED <<row, logs, waiting, restarts>>

OperationLogs(j) ==
    /\ task[j].pc = "op"
    /\ task[j].emitted <= OpLines
    /\ Emit(j, "op", "none")
    /\ UNCHANGED <<row, logs, mig, waiting, faults, restarts>>

\* Fault: a rolled-back migration is a job that succeeded.
JobVerdictUnlessFailed(st) == IF st /= "failed" THEN "succeeded" ELSE "failed"
\* Fault: the migration's status is taken for the job's.
JobVerdictAsIs(st) == st
JobVerdict(st) == IF st = "succeeded" THEN "succeeded" ELSE "failed"

OperationEnds(j) ==
    /\ task[j].pc = "op"
    /\ \/ \E st \in Terminal : UpdateMigration(j, st) /\ Emit(j, "finalize", JobVerdict(st))
       \/ /\ Entry[j] = "plain" \* the operation raises; a migration never does
          /\ Emit(j, "refinalize", "failed")
          /\ UNCHANGED <<mig, faults>>
    /\ UNCHANGED <<row, logs, waiting, restarts>>

\* Fault: the log is saved before the verdict is emitted.
SavedTooEarly(j) == [i \in 1 .. task[j].emitted - 1 |-> i]
Saved(j) == [i \in 1 .. task[j].emitted |-> i]

\* The first error is reported as the job's failure ...
FinalizeAgain(j) ==
    /\ task[j].pc = "finalize"
    /\ Fault
    /\ Emit(j, "refinalize", "failed")
    /\ UNCHANGED <<row, logs, mig, waiting, restarts>>

\* Fault: the end is not published when the job cannot be saved.
GivesUpAtOnce == "ended"
AfterError == "end"

\* ... the second is not, but the log is ended all the same.
FinalizeFails(j) ==
    /\ task[j].pc = "refinalize"
    /\ Fault
    /\ task' = [task EXCEPT ![j].pc = AfterError]
    /\ UNCHANGED <<row, logs, mig, waiting, client, restarts>>

Finalize(j) ==
    /\ task[j].pc \in {"finalize", "refinalize"}
    /\ row' = [row EXCEPT ![j] = task[j].verdict]
    /\ logs' = [logs EXCEPT ![j] = Saved(j)]
    /\ task' = [task EXCEPT ![j].pc = "end"]
    /\ UNCHANGED <<mig, waiting, client, faults, restarts>>

PublishEnd(j) ==
    /\ task[j].pc = "end"
    /\ Publish(j, <<End>>)
    /\ task' = [task EXCEPT ![j].pc = "ended"]
    /\ UNCHANGED <<row, logs, mig, waiting, faults, restarts>>

-----------------------------------------------------------------------------
(* stream_logs.                                                            *)

\* The saved log is replayed; that of a job that has ended is complete.
Connect(c, j) ==
    /\ client[c].pc = "off"
    /\ row[j] /= "none"
    /\ client' = [client EXCEPT ![c] =
          IF row[j] \in Terminal
          THEN [NoClient EXCEPT !.pc = "closed", !.job = j, !.got = Append(logs[j], End)]
          ELSE [NoClient EXCEPT !.pc = "gap", !.job = j, !.got = logs[j]]]
    /\ UNCHANGED <<row, logs, mig, task, waiting, faults, restarts>>

Subscribe(c) ==
    /\ client[c].pc = "gap"
    /\ client' = [client EXCEPT ![c].pc = "tail"]
    /\ UNCHANGED <<row, logs, mig, task, waiting, faults, restarts>>

\* A line is sent, or the viewer turns out to be gone.
Deliver(c) ==
    /\ client[c].pc = "tail" /\ client[c].queue /= << >>
    /\ LET line == Head(client[c].queue)
           gone == [client[c] EXCEPT !.pc = "closed", !.queue = << >>] IN
       \E viewer \in {gone, IF line = End THEN [gone EXCEPT !.got = Append(@, End)]
                           ELSE [client[c] EXCEPT !.got = Append(@, line), !.queue = Tail(@)]} :
          client' = [client EXCEPT ![c] = viewer]
    /\ UNCHANGED <<row, logs, mig, task, waiting, faults, restarts>>

-----------------------------------------------------------------------------
(* A restart of the process: tasks and connections are lost, and           *)
(* reconcile_orphaned_jobs fails what was in progress before anything else *)
(* is served.                                                              *)

\* Fault: only running jobs are reconciled.
OrphanedIfRunning(st) == st = "running"
\* Fault: everything that has not succeeded is reconciled.
OrphanedUnlessSucceeded(st) == st \notin {"none", "succeeded"}
Orphaned(st) == st \in InProgress

Restart ==
    /\ restarts < MaxRestarts
    /\ restarts' = restarts + 1
    /\ row' = [j \in Jobs |-> IF Orphaned(row[j]) THEN "failed" ELSE row[j]]
    /\ logs' = [j \in Jobs |-> IF Orphaned(row[j]) THEN Append(logs[j], Note) ELSE logs[j]]
    /\ mig' = [j \in Jobs |-> IF Orphaned(mig[j]) THEN "failed" ELSE mig[j]]
    /\ task' = [j \in Jobs |->
          IF task[j].pc \in {"off", "ended", "rejected"} THEN task[j] ELSE [task[j] EXCEPT !.pc = "lost"]]
    /\ waiting' = << >>
    /\ client' = [c \in Clients |->
          IF client[c].pc = "off" THEN client[c] ELSE [client[c] EXCEPT !.pc = "closed", !.queue = << >>]]
    /\ UNCHANGED faults

-----------------------------------------------------------------------------
JobStep(j) ==
    \/ CreateRow(j) \/ CreateJob(j) \/ Enter(j) \/ SetRunning(j) \/ Setup(j) \/ OperationLogs(j)
    \/ OperationEnds(j) \/ FinalizeAgain(j) \/ FinalizeFails(j) \/ Finalize(j) \/ PublishEnd(j)

Next ==
    \/ \E j \in Jobs : Request(j) \/ JobStep(j)
    \/ \E c \in Clients : Subscribe(c) \/ Deliver(c) \/ \E j \in Jobs : Connect(c, j)
    \/ Restart

Spec == Init /\ [][Next]_vars

\* The event loop serves every task and handler; nobody has to make a request,
\* and nothing has to fail.
FairSpec ==
    /\ Spec
    /\ \A j \in Jobs : WF_vars(JobStep(j))
    /\ \A c \in Clients : WF_vars(Subscribe(c) \/ Deliver(c))

-----------------------------------------------------------------------------
(* Properties.                                                             *)

\* The variables' types.
TypeOK ==
    /\ row \in [Jobs -> JobStatus]
    /\ logs \in [Jobs -> Seq(1..Note)]
    /\ mig \in [Jobs -> MigStatus]
    /\ task \in [Jobs -> TaskType]
    /\ waiting \in Seq(Jobs)
    /\ client \in [Clients -> ClientType]
    /\ faults \in 0..MaxFaults /\ restarts \in 0..MaxRestarts

\* While the database works, a job shown as pending or running has a task that
\* will finish it, through restarts too; and so has a migration, but for one
\* whose operation ended before its first phase.
NoOrphans ==
    faults = 0 =>
        \A j \in Jobs :
            /\ row[j] \in InProgress => task[j].pc \in HoldingPcs \union {"waiting"}
            /\ mig[j] \in InProgress =>
                  \/ task[j].pc \in HoldingPcs \union {"waiting", "rowed"}
                  \/ mig[j] = "pending" /\ row[j] = "failed"

\* A job that is shown as succeeded has migrated its VM; one shown as failed has
\* not, unless a restart came between the two records or the database failed.
VerdictsAgree ==
    faults = 0 =>
        \A j \in Jobs : Entry[j] /= "plain" =>
            /\ row[j] = "succeeded" => mig[j] = "succeeded"
            /\ row[j] = "failed" /\ mig[j] = "succeeded" => task[j].pc = "lost"

\* A viewer who was told the end of a job finds its verdict and its whole log
\* in the database, unless that could not be written.
EndMeansRecorded ==
    faults = 0 =>
        \A c \in Clients : LET j == client[c].job IN
            client[c].got /= << >> /\ client[c].got[Len(client[c].got)] = End =>
                /\ row[j] \in Terminal
                /\ \/ logs[j] = [i \in 1 .. task[j].emitted |-> i]
                   \/ task[j].pc = "lost"

\* The verdict on a job or a migration is never revised.
VerdictsAreFinal ==
    [][\A j \in Jobs :
          /\ row[j] \in Terminal => row'[j] = row[j]
          /\ mig[j] \in Terminal => mig'[j] = mig[j]]_vars

\* Every job gets its turn, also after jobs whose start or end the database
\* failed to record.
WaitingJobsEnd ==
    \A j \in Jobs : (task[j].pc = "waiting") ~> (task[j].pc \in {"ended", "lost"})

\* A viewer who follows a running job is not left waiting when it ends, whatever
\* fails after its start.
FollowersEnd ==
    \A c \in Clients, j \in Jobs :
        (client[c].pc = "tail" /\ client[c].job = j /\ task[j].pc \in HoldingPcs \ {"entered"})
            ~> client[c].pc = "closed"
=============================================================================
