--------------------------- MODULE MigrationGroups ---------------------------
(***************************************************************************)
(* One migration group: its database row, the in-process runner that       *)
(* launches its members (run_migration_group, phif/migrate/service.py),    *)
(* the scheduler that fires and resumes it (phif/jobs/scheduler.py), and   *)
(* the API requests on it (phif/api/migrations.py).                        *)
(*                                                                         *)
(* All of them share one event loop and one database: a request, a         *)
(* scheduler cycle and a runner each read the row, wait, and commit what   *)
(* they changed, so a step here ends at each of those awaits.  The process *)
(* may be restarted at any time.                                           *)
(***************************************************************************)
EXTENDS Naturals, Sequences, FiniteSets

CONSTANTS
    NMembers,     \* number of VMs in the group
    Slots,        \* bound: runner tasks existing at one time
    MaxLaunches,  \* bound: migrations launched for the group
    Options       \* the option records a group may be created with

Members == 1..NMembers
Terminal == {"succeeded", "failed", "rolled_back", "skipped"} \* _GROUP_TERMINAL
MemberStatus == Terminal \union {"pending", "running"}
Finished == {"succeeded", "failed", "partial", "canceled"}
Resumable == {"scheduled", "pending", "running"}
\* "deleted": there is no row.
GroupStatus == Finished \union Resumable \union {"deleted"}

OptionType ==
    [concurrency: Nat \ {0}, continueOnError: BOOLEAN,
     requests: Nat,     \* bound: API requests after the creation
     restarts: Nat,     \* bound: restarts of the process
     timeouts: BOOLEAN, \* a migration may take longer than timeout_s
     stuck: BOOLEAN,    \* a job may end without updating its Migration row
     lag: BOOLEAN]      \* a coroutine that is ready may run between the end of
                        \* a runner task and its done-callback

ASSUME BoundAssumption == NMembers \in Nat \ {0} /\ MaxLaunches \in Nat
ASSUME OptionAssumption == Options \subseteq OptionType
ASSUME SlotAssumption == 0 \notin Slots

VARIABLES
    opt,      \* the group's options and traits of its environment
    row,      \* the MigrationGroup row: status and the members' statuses
    due,      \* scheduled_at has arrived
    migs,     \* the Migration rows launched for the group, oldest first
    active,   \* scheduler._active: the registered runner, 0 if none
    runner,   \* the runner tasks
    task,     \* their member tasks (_run(i))
    updates,  \* the running _group_update_member calls, with the row they read
    sched,    \* the scheduler cycle
    req,      \* the API request being served
    requests, restarts,
    late      \* members launched since the group was last canceled or reset

procVars == <<active, runner, task, updates, sched, req>>
vars == <<opt, row, due, migs, procVars, requests, restarts, late>>

-----------------------------------------------------------------------------
(* Records.                                                                *)

RowType == [status: GroupStatus, members: [Members -> MemberStatus]]
MigType == [member: Members,
            \* "stuck": still pending in the database, its job has ended
            status: {"running", "stuck", "succeeded", "failed", "rolled_back"}]
\* write: the row a runner is about to commit; read: the row it is based on.
RunnerType == [pc: {"off", "read", "commit", "tasks", "finish", "done"},
               stop: BOOLEAN, read: RowType, write: GroupStatus]
\* saves: the status the task is recording, or recorded at its end.
TaskType == [pc: {"off", "queued", "launch", "update", "write", "poll"},
             mig: 0..MaxLaunches, saves: MemberStatus]
UpdateType == [slot: Slots, member: Members, read: [Members -> MemberStatus],
               dropped: BOOLEAN] \* its lock is no longer the group's lock
RequestType == [op: {"none", "create", "run", "cancel", "delete"},
                stage: {"commit", "kick"}, read: RowType]
SchedType == [pc: {"idle", "commit", "kick"}, read: GroupStatus]

AllPending == [m \in Members |-> "pending"]
NoRow      == [status |-> "deleted", members |-> AllPending]
NoRequest  == [op |-> "none", stage |-> "commit", read |-> NoRow]
NoRunner   == [pc |-> "off", stop |-> FALSE, read |-> NoRow, write |-> "deleted"]
NoTask     == [pc |-> "off", mig |-> 0, saves |-> "pending"]
Idle       == [pc |-> "idle", read |-> "deleted"]

Exists == row.status /= "deleted"
Live(r) == runner[r].pc \notin {"off", "done"}
Running(m) == {i \in DOMAIN migs : migs[i].member = m /\ migs[i].status = "running"}
InFlight(r) == {m \in Members : task[r][m].pc \notin {"off", "queued"}}

\* What a session commits: the columns it changed since it read the row.
Flush(read, new) ==
    [status  |-> IF new.status = read.status THEN row.status ELSE new.status,
     members |-> IF new.members = read.members THEN row.members ELSE new.members]

Init ==
    /\ opt \in Options
    /\ due = FALSE
    /\ \/ row = [status |-> "scheduled", members |-> AllPending] /\ req = NoRequest
       \/ /\ row = [status |-> "pending", members |-> AllPending]
          /\ req = [op |-> "create", stage |-> "kick", read |-> NoRow]
    /\ migs = << >>
    /\ active = 0
    /\ runner = [r \in Slots |-> NoRunner]
    /\ task = [r \in Slots |-> [m \in Members |-> NoTask]]
    /\ updates = {}
    /\ sched = Idle
    /\ requests = 0
    /\ restarts = 0
    /\ late = 0

-----------------------------------------------------------------------------
(* scheduler.kick and the done-callback.                                   *)

\* A new runner task takes a free slot, whichever.
StartRunner ==
    LET r == CHOOSE s \in Slots : runner[s].pc = "off" IN
    /\ \E s \in Slots : runner[s].pc = "off"
    /\ runner' = [runner EXCEPT ![r].pc = "read"]
    /\ active' = r

\* Fault: the registered runner is not looked at.
KickAlways == StartRunner
Kick == IF active /= 0 /\ Live(active) THEN UNCHANGED <<active, runner>> ELSE StartRunner

\* The callback unregisters the group, whichever runner is registered.
EndRunner(r) ==
    IF opt.lag THEN runner' = [runner EXCEPT ![r] = [NoRunner EXCEPT !.pc = "done"]] /\ UNCHANGED active
    ELSE runner' = [runner EXCEPT ![r] = NoRunner] /\ active' = 0

\* The callback is the next thing the event loop does after its runner's end, but
\* for what was ready before it: of that, only a kick can tell the difference.
CallbacksDone == \A r \in Slots : runner[r].pc /= "done"

DoneCallback(r) ==
    /\ runner[r].pc = "done"
    /\ runner' = [runner EXCEPT ![r] = NoRunner]
    /\ active' = 0
    /\ UNCHANGED <<opt, row, due, migs, task, updates, sched, req, requests, restarts, late>>

-----------------------------------------------------------------------------
(* The scheduler.                                                          *)

Tick ==
    /\ CallbacksDone
    /\ ~due
    /\ due' = TRUE
    /\ UNCHANGED <<opt, row, migs, procVars, requests, restarts, late>>

\* Fault: an interrupted group is not resumed.
NeedsRunnerUnlessRunning == row.status = "pending" \/ (row.status = "scheduled" /\ due)
NeedsRunner == row.status \in {"pending", "running"} \/ (row.status = "scheduled" /\ due)

SchedulerRead ==
    /\ CallbacksDone
    /\ sched.pc = "idle"
    /\ NeedsRunner
    /\ ~(active /= 0 /\ Live(active))
    /\ sched' = [pc |-> "commit", read |-> row.status]
    /\ UNCHANGED <<opt, row, due, migs, active, runner, task, updates, req, requests, restarts, late>>

SchedulerCommit ==
    /\ CallbacksDone
    /\ sched.pc = "commit"
    /\ IF sched.read = "scheduled"
       THEN IF Exists THEN row' = [row EXCEPT !.status = "pending"] /\ sched' = [sched EXCEPT !.pc = "kick"]
            ELSE sched' = Idle /\ UNCHANGED row
       ELSE sched' = [sched EXCEPT !.pc = "kick"] /\ UNCHANGED row
    /\ UNCHANGED <<opt, due, migs, active, runner, task, updates, req, requests, restarts, late>>

SchedulerKick ==
    /\ sched.pc = "kick"
    /\ Kick
    /\ sched' = Idle
    /\ UNCHANGED <<opt, row, due, migs, task, updates, req, requests, restarts, late>>

-----------------------------------------------------------------------------
(* The runner.                                                             *)

RunnerRead(r) ==
    /\ CallbacksDone
    /\ runner[r].pc = "read"
    /\ IF row.status \in Finished \union {"deleted"} THEN EndRunner(r)
       ELSE /\ runner' = [runner EXCEPT ![r].pc = "commit", ![r].read = row]
            /\ UNCHANGED active
    /\ UNCHANGED <<opt, row, due, migs, task, updates, sched, req, requests, restarts, late>>

\* Fault: a member that was running is not run again.
StaysRunning(st) == st \in Terminal \union {"running"}
\* Members whose status is terminal in the row that was read are skipped.
Skipped(st) == st \in Terminal

RunnerCommit(r) ==
    /\ CallbacksDone
    /\ runner[r].pc = "commit"
    /\ IF ~Exists THEN EndRunner(r) /\ UNCHANGED <<row, task>>
       ELSE LET read == runner[r].read IN
            /\ row' = Flush(read, [read EXCEPT !.status = "running"])
            /\ runner' = [runner EXCEPT ![r].pc = "tasks", ![r].read = NoRow]
            /\ task' = [task EXCEPT ![r] =
                  [m \in Members |-> IF Skipped(read.members[m]) THEN NoTask
                                     ELSE [NoTask EXCEPT !.pc = "queued"]]]
            /\ UNCHANGED active
    /\ UNCHANGED <<opt, due, migs, updates, sched, req, requests, restarts, late>>

\* The semaphore is free and serves its waiters in order.
FreeSlot(r) == Cardinality(InFlight(r)) < opt.concurrency
First(r, m) == \A k \in Members : k < m => task[r][k].pc /= "queued"

Skips(r) == runner[r].stop \/ row.status = "canceled"

TaskStart(r, m) ==
    /\ CallbacksDone
    /\ task[r][m].pc = "queued"
    /\ FreeSlot(r)
    /\ First(r, m)
    /\ task' = [task EXCEPT ![r][m] =
           IF Skips(r) THEN [@ EXCEPT !.pc = "update", !.saves = "skipped"]
           ELSE [@ EXCEPT !.pc = "launch"]]
    /\ UNCHANGED <<opt, row, due, migs, active, runner, updates, sched, req, requests, restarts, late>>

\* Fault: a failure does not stop the others.
StopIgnored(r, m, st) == task' = [task EXCEPT ![r][m] = [NoTask EXCEPT !.saves = st]] /\ UNCHANGED runner
\* The member is finished: its slot is free and its failure seen.
EndTask(r, m, st) ==
    /\ task' = [task EXCEPT ![r][m] = [NoTask EXCEPT !.saves = st]]
    /\ IF st \notin {"succeeded", "skipped"} /\ ~opt.continueOnError
       THEN runner' = [runner EXCEPT ![r].stop = TRUE] ELSE UNCHANGED runner

\* run_migration creates the Migration row and its job, or raises.
Launch(r, m) ==
    /\ CallbacksDone
    /\ task[r][m].pc = "launch"
    /\ IF ~Exists THEN EndTask(r, m, "failed") /\ UNCHANGED <<migs, late>>
       ELSE /\ \/ /\ task' = [task EXCEPT ![r][m].pc = "update", ![r][m].saves = "failed"]
                  /\ UNCHANGED <<migs, late>>
               \/ /\ Len(migs) < MaxLaunches
                  /\ migs' = Append(migs, [member |-> m, status |-> "running"])
                  /\ task' = [task EXCEPT ![r][m] =
                        [pc |-> "update", mig |-> Len(migs) + 1, saves |-> "running"]]
                  /\ late' = IF row.status = "canceled" THEN late + 1 ELSE late
            /\ UNCHANGED runner
    /\ UNCHANGED <<opt, row, due, active, updates, sched, req, requests, restarts>>

\* After the status is recorded a launched member is polled, any other is done.
Recorded(r, m) ==
    IF task[r][m].saves = "running"
    THEN task' = [task EXCEPT ![r][m].pc = "poll"] /\ UNCHANGED runner
    ELSE EndTask(r, m, task[r][m].saves)

\* _group_update_member takes the group's lock and reads the row ...
UpdateRead(r, m) ==
    /\ CallbacksDone
    /\ task[r][m].pc = "update"
    /\ \A u \in updates : u.dropped
    /\ IF ~Exists THEN Recorded(r, m) /\ UNCHANGED updates
       ELSE /\ updates' = updates \union
                  {[slot |-> r, member |-> m, read |-> row.members, dropped |-> FALSE]}
            /\ task' = [task EXCEPT ![r][m].pc = "write"]
            /\ UNCHANGED runner
    /\ UNCHANGED <<opt, row, due, migs, active, sched, req, requests, restarts, late>>

\* ... and writes the whole list of members back.
UpdateWrite(u) ==
    /\ CallbacksDone
    /\ updates' = updates \ {u}
    /\ row' = IF ~Exists THEN row
              ELSE [row EXCEPT !.members = [u.read EXCEPT ![u.member] = task[u.slot][u.member].saves]]
    /\ Recorded(u.slot, u.member)
    /\ UNCHANGED <<opt, due, migs, active, sched, req, requests, restarts, late>>

\* Fault: a rolled-back migration counts as done.
RollbackSucceeds(st) == IF st = "rolled_back" THEN "succeeded" ELSE st
Outcome(st) == st

Poll(r, m) ==
    /\ CallbacksDone
    /\ task[r][m].pc = "poll"
    /\ LET st == migs[task[r][m].mig].status IN
       \/ /\ st \in {"succeeded", "failed", "rolled_back"}
          /\ task' = [task EXCEPT ![r][m].pc = "update", ![r][m].saves = Outcome(st)]
       \/ /\ st \notin {"succeeded", "failed", "rolled_back"}
          /\ opt.timeouts
          /\ task' = [task EXCEPT ![r][m].pc = "update", ![r][m].saves = "failed"]
    /\ UNCHANGED <<opt, row, due, migs, active, runner, updates, sched, req, requests, restarts, late>>

FinalStatus(members) ==
    IF \A m \in Members : members[m] = "succeeded" THEN "succeeded"
    ELSE IF \A m \in Members : members[m] \in {"failed", "rolled_back", "skipped"} THEN "failed"
    ELSE "partial"

\* All member tasks have ended: read the row to aggregate it ...
RunnerJoin(r) ==
    /\ CallbacksDone
    /\ runner[r].pc = "tasks"
    /\ \A m \in Members : task[r][m].pc = "off"
    /\ task' = [task EXCEPT ![r] = [m \in Members |-> NoTask]]
    /\ IF ~Exists THEN EndRunner(r)
       ELSE /\ runner' = [runner EXCEPT ![r].pc = "finish",
                  ![r].read = [NoRow EXCEPT !.status = row.status],
                  ![r].write = IF row.status = "canceled" THEN "canceled" ELSE FinalStatus(row.members)]
            /\ UNCHANGED active
    /\ UNCHANGED <<opt, row, due, migs, updates, sched, req, requests, restarts, late>>

\* ... and commit its final status (none, if it was canceled) and drop the lock.
RunnerFinish(r) ==
    /\ CallbacksDone
    /\ runner[r].pc = "finish"
    /\ EndRunner(r)
    /\ IF Exists /\ runner[r].write /= "canceled"
       THEN /\ row' = Flush(runner[r].read, [runner[r].read EXCEPT !.status = runner[r].write])
            /\ updates' = {[u EXCEPT !.dropped = TRUE] : u \in updates}
       ELSE UNCHANGED <<row, updates>>
    /\ UNCHANGED <<opt, due, migs, task, sched, req, requests, restarts, late>>

-----------------------------------------------------------------------------
(* The launched migrations (module Migration), and a restart.              *)

MigrationEnds(i) ==
    /\ CallbacksDone
    /\ migs[i].status = "running"
    /\ \E st \in {"succeeded", "rolled_back"} \union (IF opt.stuck THEN {"stuck"} ELSE {}) :
          migs' = [migs EXCEPT ![i].status = st]
    /\ UNCHANGED <<opt, row, due, procVars, requests, restarts, late>>

\* Tasks are lost; reconcile_orphaned_jobs fails the unfinished migrations.
Restart ==
    /\ CallbacksDone
    /\ restarts < opt.restarts
    /\ restarts' = restarts + 1
    /\ migs' = [i \in DOMAIN migs |->
          IF migs[i].status \in {"running", "stuck"} THEN [migs[i] EXCEPT !.status = "failed"] ELSE migs[i]]
    /\ active' = 0
    /\ runner' = [r \in Slots |-> NoRunner]
    /\ task' = [r \in Slots |-> [m \in Members |-> NoTask]]
    /\ updates' = {}
    /\ sched' = Idle
    /\ req' = NoRequest
    /\ UNCHANGED <<opt, row, due, requests, late>>

-----------------------------------------------------------------------------
(* The API.                                                                *)

Receive(op, allowed) ==
    /\ CallbacksDone
    /\ req = NoRequest
    /\ requests < opt.requests
    /\ row.status \in allowed
    /\ req' = [op |-> op, stage |-> "commit", read |-> IF op = "run" THEN row ELSE NoRow]
    /\ requests' = requests + 1
    /\ UNCHANGED <<opt, row, due, migs, active, runner, task, updates, sched, restarts, late>>

RunNow == Receive("run", {"scheduled", "pending", "failed", "partial", "canceled"})
Cancel == Receive("cancel", Resumable)
Delete == Receive("delete", {"scheduled", "pending"} \union Finished)

\* Fault: the status is cleared instead of being reset.
ResetToNull(members) == [m \in Members |-> IF members[m] = "succeeded" THEN "succeeded" ELSE "null"]
ResetMembers(members) == [m \in Members |-> IF members[m] = "succeeded" THEN "succeeded" ELSE "pending"]

\* Members whose statuses do not change may be written all the same: the reset
\* also clears the fields beside them.
RunCommit ==
    /\ CallbacksDone
    /\ req.op = "run" /\ req.stage = "commit"
    /\ IF ~Exists THEN req' = NoRequest /\ UNCHANGED <<row, late>>
       ELSE LET reset == ResetMembers(req.read.members) IN
            /\ req' = [req EXCEPT !.stage = "kick", !.read = NoRow]
            /\ late' = 0
            /\ \E members \in {reset, Flush(req.read, [status |-> "pending", members |-> reset]).members} :
                 row' = [status  |-> IF req.read.status = "pending" THEN row.status ELSE "pending",
                         members |-> members]
    /\ UNCHANGED <<opt, due, migs, active, runner, task, updates, sched, requests, restarts>>

CancelCommit ==
    /\ CallbacksDone
    /\ req.op = "cancel"
    /\ req' = NoRequest
    /\ IF Exists THEN row' = [row EXCEPT !.status = "canceled"] /\ late' = 0 ELSE UNCHANGED <<row, late>>
    /\ UNCHANGED <<opt, due, migs, active, runner, task, updates, sched, requests, restarts>>

DeleteCommit ==
    /\ CallbacksDone
    /\ req.op = "delete"
    /\ req' = NoRequest
    /\ row' = [row EXCEPT !.status = "deleted"]
    /\ UNCHANGED <<opt, due, migs, active, runner, task, updates, sched, requests, restarts, late>>

\* The creation and run-now launch the runner after their commit.
KickNow ==
    /\ req.stage = "kick"
    /\ Kick
    /\ req' = NoRequest
    /\ UNCHANGED <<opt, row, due, migs, task, updates, sched, requests, restarts, late>>

-----------------------------------------------------------------------------
SchedulerStep == Tick \/ SchedulerRead \/ SchedulerCommit \/ SchedulerKick
RequestStep == RunCommit \/ CancelCommit \/ DeleteCommit \/ KickNow
RunnerStep(r) ==
    RunnerRead(r) \/ RunnerCommit(r) \/ RunnerJoin(r) \/ RunnerFinish(r) \/ DoneCallback(r)
TaskStep(r, m) ==
    \/ TaskStart(r, m) \/ Launch(r, m) \/ UpdateRead(r, m) \/ Poll(r, m)
    \/ \E u \in updates : u.slot = r /\ u.member = m /\ UpdateWrite(u)
Users == RunNow \/ Cancel \/ Delete

Next ==
    \/ SchedulerStep \/ RequestStep \/ Users \/ Restart
    \/ \E r \in Slots : RunnerStep(r) \/ \E m \in Members : TaskStep(r, m)
    \/ \E i \in DOMAIN migs : MigrationEnds(i)

Spec == Init /\ [][Next]_vars

\* The event loop serves every task, time passes, and each migration ends
\* (Migration's Terminates); nothing is assumed of the users or of restarts.
FairSpec ==
    /\ Spec
    /\ WF_vars(SchedulerStep)
    /\ WF_vars(RequestStep)
    /\ \A r \in Slots :
          /\ WF_vars(RunnerStep(r))
          /\ \A m \in Members : WF_vars(TaskStep(r, m))
    /\ \A i \in 1..MaxLaunches : WF_vars(i \in DOMAIN migs /\ MigrationEnds(i))

-----------------------------------------------------------------------------
(* Properties.                                                             *)

LiveRunners == {r \in Slots : Live(r)}
Migrated(m) == \E i \in DOMAIN migs : migs[i].member = m /\ migs[i].status = "succeeded"

\* The variables' types.
TypeOK ==
    /\ opt \in Options
    /\ row \in RowType
    /\ due \in BOOLEAN
    /\ migs \in Seq(MigType)
    /\ active \in Slots \union {0}
    /\ runner \in [Slots -> RunnerType]
    /\ task \in [Slots -> [Members -> TaskType]]
    /\ updates \subseteq UpdateType
    /\ sched \in SchedType
    /\ req \in RequestType
    /\ requests \in 0..opt.requests /\ restarts \in 0..opt.restarts /\ late \in 0..MaxLaunches

\* As long as no migration outlasts its timeout and done-callbacks are prompt,
\* the group has at most `concurrency` migrations in flight, and no VM is
\* migrated twice at a time, through re-runs, cancellations and restarts.
WithinConcurrency ==
    ~opt.timeouts /\ ~opt.lag =>
        /\ Cardinality({i \in DOMAIN migs : migs[i].status = "running"}) <= opt.concurrency
        /\ \A m \in Members : Cardinality(Running(m)) <= 1

\* A canceled group launches no more than the members that had already passed
\* the check, one per slot of the semaphore.
CancelStopsLaunches ==
    row.status = "canceled" /\ ~opt.lag => late <= opt.concurrency

\* Unless the group continues on errors, the slot of a member that has failed is
\* not used again: at most the other slots are busy with members to be migrated.
StopsOnError ==
    \A r \in Slots :
       /\ ~opt.continueOnError /\ runner[r].pc = "tasks"
       /\ \E m \in Members : task[r][m].pc = "off" /\ task[r][m].saves \in {"failed", "rolled_back"}
       => Cardinality({m \in InFlight(r) : task[r][m].saves /= "skipped"}) < opt.concurrency

\* A group that is canceled, or that stops on errors, launches no more members.
LaunchesStop == CancelStopsLaunches /\ StopsOnError

\* What is recorded is so: a member is succeeded only if a migration of it has
\* succeeded, a group only if one of every member has, and a group that finished
\* by itself has no member running once its runners are gone (a restart resumes
\* the group instead).
RecordsAreTrue ==
    /\ \A m \in Members : row.members[m] = "succeeded" => Migrated(m)
    /\ row.status = "succeeded" => \A m \in Members : Migrated(m)
    /\ /\ row.status \in {"succeeded", "failed", "partial"}
       /\ LiveRunners = {} /\ ~opt.lag
       => \A m \in Members : row.members[m] /= "running"

\* A group that is to run ends, in spite of failures, restarts and re-runs.
GroupFinishes == (row.status \in {"pending", "running"}) ~> (row.status \in Finished \union {"deleted"})

\* What the scheduler's doc says: "a group is never double-launched"
\* (scheduler.py:8-9).
NeverDoubleLaunched == Cardinality(LiveRunners) <= 1
=============================================================================
