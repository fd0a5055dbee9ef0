----------------------- MODULE MigrationGroupsProofs -----------------------
(***************************************************************************)
(* Theorems about MigrationGroups, for every number of members, of runner  *)
(* tasks and of requests, and every set of options.                        *)
(***************************************************************************)
EXTENDS MigrationGroups, FiniteSetTheorems, SequenceTheorems, TLAPS

\* Each migration launched is counted.
Counted == late <= Len(migs) /\ Len(migs) <= MaxLaunches

\* A member task runs within its runner, and holds what it has to record.
TaskFits(r, m) ==
    LET t == task[r][m] IN
    /\ t.pc /= "off" => runner[r].pc = "tasks"
    /\ t.pc \in {"queued", "launch"} => t.saves = "pending"
    /\ t.pc = "poll" => t.saves = "running"
    /\ t.saves = "running" =>
          t.pc \in {"update", "write", "poll"} /\ t.mig \in DOMAIN migs /\ migs[t.mig].member = m
TasksFit == \A r \in Slots, m \in Members : TaskFits(r, m)

\* A member's update is its task's.
UpdatesFit ==
    \A u \in updates :
        /\ task[u.slot][u.member].pc = "write"
        /\ \A w \in updates : w.slot = u.slot /\ w.member = u.member => w = u

\* Without late callbacks: one runner, the registered one, and one update, under
\* the lock.
Single ==
    ~opt.lag =>
        /\ \A r \in Slots : runner[r].pc /= "off" => r = active /\ runner[r].pc /= "done"
        /\ \A u \in updates : ~u.dropped /\ \A w \in updates : w = u

\* Successes on record, in the row and in every copy of it that may be written.
Truly(members) == \A m \in Members : members[m] = "succeeded" => Migrated(m)
SuccessesTrue ==
    /\ Truly(row.members) /\ Truly(req.read.members)
    /\ \A u \in updates : Truly(u.read)
    /\ \A r \in Slots :
          /\ \A m \in Members : task[r][m].saves = "succeeded" => Migrated(m)
          /\ runner[r].write = "succeeded" => \A m \in Members : Migrated(m)
    /\ row.status = "succeeded" => \A m \in Members : Migrated(m)

\* The semaphore, and what it does not let through.
Busy(r) == {m \in InFlight(r) : task[r][m].saves /= "skipped"}
Launching(r) == {m \in Members : task[r][m].pc = "launch"}
Bounded(r) ==
    /\ Cardinality(InFlight(r)) <= opt.concurrency
    /\ runner[r].pc = "tasks" /\ ~opt.continueOnError =>
          /\ runner[r].stop => Cardinality(Busy(r)) < opt.concurrency
          /\ \A m \in Members :
                task[r][m].pc = "off" /\ task[r][m].saves \in {"failed", "rolled_back"} => runner[r].stop
    /\ row.status = "canceled" /\ ~opt.lag => late + Cardinality(Launching(r)) <= opt.concurrency
LateBounded == row.status = "canceled" /\ ~opt.lag => late <= opt.concurrency
SlotsBounded == LateBounded /\ \A r \in Slots : Bounded(r)

\* A member on record as running is one whose task will record its end.
Ended == {"succeeded", "failed", "partial"}
EndedQuietly ==
    row.status \in Ended =>
        /\ \A r \in Slots : runner[r].pc \in {"off", "read"}
        /\ \A m \in Members : row.members[m] /= "running"
WillRecord(r, m) ==
    row.members[m] = "running" =>
        /\ runner[r].pc = "commit" => runner[r].read.members[m] = "running"
        /\ runner[r].pc = "tasks" => task[r][m].pc /= "off"
        /\ runner[r].pc /= "finish"
WillWrite(u, m) == u.read[m] = "running" => task[u.slot][m].pc /= "off"
RecordingsDue ==
    Exists /\ ~opt.lag =>
        /\ EndedQuietly
        /\ \A r \in Slots, m \in Members : WillRecord(r, m)
        /\ \A u \in updates, m \in Members : WillWrite(u, m)

\* Every migration in flight is that of a task which waits for it.
Awaited(i) == \E r \in Slots :
    task[r][migs[i].member].saves = "running" /\ task[r][migs[i].member].mig = i
AllAwaited == ~opt.timeouts => \A i \in DOMAIN migs : migs[i].status = "running" => Awaited(i)

IInv ==
    /\ TypeOK /\ Counted /\ TasksFit /\ UpdatesFit /\ Single /\ SuccessesTrue
    /\ SlotsBounded /\ RecordingsDue /\ AllAwaited

-----------------------------------------------------------------------------
(* Lemmas about the operators.                                             *)

\* A kick leaves the runners alone, or starts one in a free slot: never when the
\* registered one is live.
LEMMA KickFacts ==
    ASSUME Kick
    PROVE  \/ UNCHANGED <<active, runner>>
           \/ \E r \in Slots :
                 /\ runner[r].pc = "off" /\ ~(active /= 0 /\ Live(active))
                 /\ runner' = [runner EXCEPT ![r].pc = "read"] /\ active' = r
<1>1. CASE active /= 0 /\ Live(active)
    BY <1>1 DEF Kick
<1>2. CASE ~(active /= 0 /\ Live(active))
  <2>1. StartRunner
      BY <1>2 DEF Kick
  <2> DEFINE r == CHOOSE s \in Slots : runner[s].pc = "off"
  <2>2. r \in Slots /\ runner[r].pc = "off"
      BY <2>1 DEF StartRunner
  <2> QED
      BY <1>2, <2>1, <2>2 DEF StartRunner
<1> QED
    BY <1>1, <1>2

\* The end of a runner task, with its callback or before it.
LEMMA EndRunnerFacts ==
    ASSUME NEW r, EndRunner(r)
    PROVE  /\ \E x : /\ runner' = [runner EXCEPT ![r] = x]
                     /\ x = [NoRunner EXCEPT !.pc = IF opt.lag THEN "done" ELSE "off"]
           /\ active' = IF opt.lag THEN active ELSE 0
BY DEF EndRunner, NoRunner

\* A commit writes statuses.
LEMMA FlushFacts ==
    ASSUME NEW read, NEW new, row \in RowType
    PROVE  /\ Flush(read, new).status = IF new.status = read.status THEN row.status ELSE new.status
           /\ Flush(read, new).members = IF new.members = read.members THEN row.members ELSE new.members
           /\ new \in RowType => Flush(read, new) \in RowType
BY DEF Flush, RowType

\* A change of one member's task.
LEMMA OneTask ==
    ASSUME task \in [Slots -> [Members -> TaskType]], NEW r \in Slots, NEW m \in Members,
           NEW x \in TaskType, task' = [task EXCEPT ![r][m] = x]
    PROVE  /\ task' \in [Slots -> [Members -> TaskType]]
           /\ task'[r][m] = x
           /\ \A s \in Slots, k \in Members : s /= r \/ k /= m => task'[s][k] = task[s][k]
OBVIOUS

\* No record of nobody is ill-typed.
LEMMA Nobody ==
    /\ AllPending \in [Members -> MemberStatus] /\ NoRow \in RowType
    /\ NoRequest \in RequestType /\ NoRunner \in RunnerType
    /\ NoTask \in TaskType /\ Idle \in SchedType
<1>1. AllPending \in [Members -> MemberStatus]
    BY DEF AllPending, MemberStatus
<1>2. NoRow \in RowType
    BY <1>1 DEF NoRow, RowType, GroupStatus
<1>3. NoRequest \in RequestType /\ NoRunner \in RunnerType /\ Idle \in SchedType
    BY <1>2 DEF NoRequest, RequestType, NoRunner, RunnerType, Idle, SchedType, GroupStatus
<1>4. NoTask \in TaskType
    BY BoundAssumption DEF NoTask, TaskType, MemberStatus
<1> QED
    BY <1>1, <1>2, <1>3, <1>4

\* The end of a member's task, and of the runner's patience.
LEMMA EndTaskFacts ==
    ASSUME NEW r \in Slots, NEW m \in Members, NEW st, EndTask(r, m, st), runner \in [Slots -> RunnerType]
    PROVE  /\ task' = [task EXCEPT ![r][m] = [NoTask EXCEPT !.saves = st]]
           /\ \E b \in BOOLEAN :
                 /\ runner' = [runner EXCEPT ![r].stop = b]
                 /\ runner[r].stop => b
                 /\ st \notin {"succeeded", "skipped"} /\ ~opt.continueOnError => b
<1>1. task' = [task EXCEPT ![r][m] = [NoTask EXCEPT !.saves = st]]
    BY DEF EndTask
<1>2. CASE st \notin {"succeeded", "skipped"} /\ ~opt.continueOnError
    BY <1>1, <1>2 DEF EndTask
<1>3. CASE ~(st \notin {"succeeded", "skipped"} /\ ~opt.continueOnError)
  <2>1. UNCHANGED runner
      BY <1>3 DEF EndTask
  <2>2. runner' = [runner EXCEPT ![r].stop = runner[r].stop] /\ runner[r].stop \in BOOLEAN
      BY <2>1 DEF RunnerType
  <2> QED
      BY <1>1, <1>3, <2>2
<1> QED
    BY <1>2, <1>3

\* A step of the runner's flag to stop.
LEMMA StopStep ==
    ASSUME runner \in [Slots -> RunnerType], NEW r \in Slots, NEW b \in BOOLEAN,
           runner' = [runner EXCEPT ![r].stop = b]
    PROVE  /\ runner' \in [Slots -> RunnerType] /\ runner'[r].stop = b
           /\ \A s \in Slots : /\ runner'[s].pc = runner[s].pc /\ runner'[s].read = runner[s].read
                               /\ runner'[s].write = runner[s].write
                               /\ s /= r => runner'[s] = runner[s]
BY DEF RunnerType

-----------------------------------------------------------------------------
(* Member tasks.                                                           *)

\* What a step of a member's task may make of the task: x, and of its runner: to
\* stop.
Move(t, x) ==
    \/ t.pc = "queued" /\ x = [t EXCEPT !.pc = "update", !.saves = "skipped"]
    \/ t.pc = "queued" /\ x = [t EXCEPT !.pc = "launch"]
    \/ t.pc = "launch" /\ x = [NoTask EXCEPT !.saves = "failed"]
    \/ t.pc = "launch" /\ x = [t EXCEPT !.pc = "update", !.saves = "failed"]
    \/ t.pc = "launch" /\ x = [pc |-> "update", mig |-> Len(migs) + 1, saves |-> "running"]
    \/ t.pc = "update" /\ x = [t EXCEPT !.pc = "write"]
    \/ t.pc \in {"update", "write"} /\ t.saves = "running" /\ x = [t EXCEPT !.pc = "poll"]
    \/ t.pc \in {"update", "write"} /\ t.saves /= "running" /\ x = [NoTask EXCEPT !.saves = t.saves]
    \/ /\ t.pc = "poll"
       /\ \E st \in {"succeeded", "failed", "rolled_back"} :
             /\ x = [t EXCEPT !.pc = "update", !.saves = st]
             /\ ~opt.timeouts \/ st = "succeeded" => migs[t.mig].status = st

\* The launch that the step is, if it is one.
Launches(m, x) ==
    IF x.pc = "update" /\ x.saves = "running"
    THEN /\ Len(migs) < MaxLaunches /\ migs' = Append(migs, [member |-> m, status |-> "running"])
         /\ late' = IF row.status = "canceled" THEN late + 1 ELSE late
    ELSE UNCHANGED <<migs, late>>

\* What the step does to the row: nothing, the read of an update, or its write.
Leaves(t, x) ==
    /\ UNCHANGED <<row, updates>>
    /\ t.pc /= "write" /\ x.pc /= "write" /\ (x.pc = "off" => ~Exists)
Reads(r, m, t, x) ==
    /\ Exists /\ UNCHANGED row /\ t.pc = "update" /\ x = [t EXCEPT !.pc = "write"]
    /\ \A u \in updates : u.dropped
    /\ updates' = updates \union
           {[slot |-> r, member |-> m, read |-> row.members, dropped |-> FALSE]}
Writes(r, m, t, x) ==
    \E u \in updates :
        /\ u.slot = r /\ u.member = m /\ t.pc = "write" /\ x.pc /= "write"
        /\ updates' = updates \ {u}
        /\ row' = IF ~Exists THEN row ELSE [row EXCEPT !.members = [u.read EXCEPT ![m] = t.saves]]

\* The step of member m's task in runner r that makes x of it.
MemberStep(r, m, x, b) ==
    /\ task' = [task EXCEPT ![r][m] = x] /\ Move(task[r][m], x)
    /\ runner' = [runner EXCEPT ![r].stop = b] /\ (runner[r].stop => b)
    /\ b => runner[r].stop \/ x.pc = "off"
    /\ x.pc = "off" /\ x.saves \in {"failed", "rolled_back"} /\ ~opt.continueOnError => b
    /\ task[r][m].pc = "queued" => FreeSlot(r) /\ (x.pc = "launch" => ~Skips(r))
    /\ Launches(m, x)
    /\ Leaves(task[r][m], x) \/ Reads(r, m, task[r][m], x) \/ Writes(r, m, task[r][m], x)
    /\ UNCHANGED <<opt, due, active, sched, req, requests, restarts>>

\* Two fields of a task change.
LEMMA TwoFields ==
    ASSUME task \in [Slots -> [Members -> TaskType]], NEW r \in Slots, NEW m \in Members
    PROVE  \A st : [task EXCEPT ![r][m].pc = "update", ![r][m].saves = st]
                   = [task EXCEPT ![r][m] = [task[r][m] EXCEPT !.pc = "update", !.saves = st]]
BY DEF TaskType

\* Three fields of one runner written together.
LEMMA RunnerFields ==
    ASSUME runner \in [Slots -> RunnerType], NEW r \in Slots, NEW a, NEW b, NEW c
    PROVE  [runner EXCEPT ![r].pc = a, ![r].read = b, ![r].write = c]
              = [runner EXCEPT ![r] = [runner[r] EXCEPT !.pc = a, !.read = b, !.write = c]]
BY DEF RunnerType

\* After its status is recorded a member is polled, or done.
LEMMA RecordedFacts ==
    ASSUME NEW r \in Slots, NEW m \in Members, Recorded(r, m), task[r][m].pc \in {"update", "write"},
           runner \in [Slots -> RunnerType], task \in [Slots -> [Members -> TaskType]]
    PROVE  \E x \in TaskType, b \in BOOLEAN :
              /\ task' = [task EXCEPT ![r][m] = x] /\ Move(task[r][m], x)
              /\ x.pc \in {"poll", "off"}
              /\ runner' = [runner EXCEPT ![r].stop = b] /\ (runner[r].stop => b)
              /\ b => runner[r].stop \/ x.pc = "off"
              /\ x.pc = "off" /\ x.saves \in {"failed", "rolled_back"} /\ ~opt.continueOnError => b
<1> DEFINE t == task[r][m]
<1>t. t \in TaskType
    OBVIOUS
<1>1. CASE t.saves = "running"
  <2> DEFINE x == [t EXCEPT !.pc = "poll"]
  <2>1. task' = [task EXCEPT ![r][m] = x] /\ UNCHANGED runner
      BY <1>1, <1>t DEF Recorded
  <2>2. x \in TaskType /\ x.pc = "poll" /\ Move(t, x)
      BY <1>1, <1>t DEF Move, TaskType
  <2>3. runner' = [runner EXCEPT ![r].stop = runner[r].stop] /\ runner[r].stop \in BOOLEAN
      BY <2>1 DEF RunnerType
  <2> HIDE DEF x
  <2> QED
      BY <2>1, <2>2, <2>3
<1>2. CASE t.saves /= "running"
  <2> DEFINE x == [NoTask EXCEPT !.saves = t.saves]
  <2>1. EndTask(r, m, t.saves)
      BY <1>2 DEF Recorded
  <2>2. x \in TaskType /\ x.pc = "off" /\ x.saves = t.saves /\ Move(t, x)
      BY <1>2, <1>t, Nobody DEF Move, TaskType, NoTask
  <2> HIDE DEF x
  <2>3. task' = [task EXCEPT ![r][m] = x]
      BY <2>1, EndTaskFacts DEF x
  <2>4. PICK b \in BOOLEAN :
           /\ runner' = [runner EXCEPT ![r].stop = b] /\ (runner[r].stop => b)
           /\ t.saves \notin {"succeeded", "skipped"} /\ ~opt.continueOnError => b
      BY <2>1, EndTaskFacts
  <2> QED
      BY <2>2, <2>3, <2>4
<1> QED
    BY <1>1, <1>2

\* Every step of a member's task is such a step.
LEMMA MemberSteps ==
    ASSUME TypeOK, UpdatesFit, NEW r \in Slots, NEW m \in Members, TaskStep(r, m)
    PROVE  \E x \in TaskType, b \in BOOLEAN : MemberStep(r, m, x, b)
<1> DEFINE t == task[r][m]
<1>t. /\ t \in TaskType /\ runner \in [Slots -> RunnerType]
      /\ task \in [Slots -> [Members -> TaskType]]
      /\ runner[r].stop \in BOOLEAN
      /\ \A b : b = runner[r].stop => [runner EXCEPT ![r].stop = b] = runner
      /\ Len(migs) \in Nat /\ migs \in Seq(MigType)
    BY LenProperties DEF TypeOK, RunnerType
<1>k. \A st : [task EXCEPT ![r][m].pc = "update", ![r][m].saves = st]
              = [task EXCEPT ![r][m] = [t EXCEPT !.pc = "update", !.saves = st]]
  <2>1. task \in [Slots -> [Members -> TaskType]]
      BY <1>t
  <2> QED
      BY <2>1, TwoFields, Zenon
<1>1. CASE TaskStart(r, m)
  <2> DEFINE x == IF Skips(r) THEN [t EXCEPT !.pc = "update", !.saves = "skipped"]
                  ELSE [t EXCEPT !.pc = "launch"]
  <2>1. /\ task' = [task EXCEPT ![r][m] = x] /\ t.pc = "queued" /\ FreeSlot(r)
        /\ UNCHANGED <<opt, row, due, migs, active, runner, updates, sched, req, requests, restarts, late>>
      BY <1>1, <1>t DEF TaskStart
  <2>2. x \in TaskType /\ Move(t, x)
      BY <1>t, <2>1 DEF Move, TaskType, MemberStatus, Terminal
  <2>3. x.pc \in {"update", "launch"} /\ (x.pc = "launch" => ~Skips(r))
        /\ (x.pc = "update" => x.saves = "skipped")
      BY <1>t DEF TaskType
  <2> HIDE DEF x
  <2>4. MemberStep(r, m, x, runner[r].stop)
      BY <1>t, <2>1, <2>2, <2>3 DEF MemberStep, Launches, Leaves
  <2> QED
      BY <1>t, <2>2, <2>4
<1>2. CASE Launch(r, m) /\ ~Exists
  <2> DEFINE x == [NoTask EXCEPT !.saves = "failed"]
  <2>1. EndTask(r, m, "failed") /\ t.pc = "launch" /\ UNCHANGED <<migs, late>>
        /\ UNCHANGED <<opt, row, due, active, updates, sched, req, requests, restarts>>
      BY <1>2 DEF Launch
  <2>2. x \in TaskType /\ Move(t, x) /\ x.pc = "off"
      BY <2>1, Nobody DEF Move, TaskType, NoTask, MemberStatus, Terminal
  <2> HIDE DEF x
  <2>3. task' = [task EXCEPT ![r][m] = x]
      BY <1>t, <2>1, EndTaskFacts DEF x
  <2>4. PICK b \in BOOLEAN :
           /\ runner' = [runner EXCEPT ![r].stop = b] /\ (runner[r].stop => b)
           /\ ~opt.continueOnError => b
      BY <1>t, <2>1, EndTaskFacts
  <2>5. MemberStep(r, m, x, b)
      BY <1>2, <2>1, <2>2, <2>3, <2>4 DEF MemberStep, Launches, Leaves
  <2> QED
      BY <2>2, <2>5
<1>3. CASE Launch(r, m) /\ Exists
  <2> DEFINE raised == [t EXCEPT !.pc = "update", !.saves = "failed"]
             launched == [pc |-> "update", mig |-> Len(migs) + 1, saves |-> "running"]
  <2>1. /\ t.pc = "launch" /\ UNCHANGED runner
        /\ UNCHANGED <<opt, row, due, active, updates, sched, req, requests, restarts>>
        /\ \/ task' = [task EXCEPT ![r][m] = raised] /\ UNCHANGED <<migs, late>>
           \/ /\ task' = [task EXCEPT ![r][m] = launched] /\ Len(migs) < MaxLaunches
              /\ migs' = Append(migs, [member |-> m, status |-> "running"])
              /\ late' = IF row.status = "canceled" THEN late + 1 ELSE late
    <3>2. [task EXCEPT ![r][m].pc = "update", ![r][m].saves = "failed"]
          = [task EXCEPT ![r][m] = raised]
        BY <1>k, Zenon
    <3> HIDE DEF raised
    <3> QED
        BY <1>3, <3>2, Zenon DEF Launch
  <2>2. raised \in TaskType /\ Move(t, raised) /\ raised.pc = "update" /\ raised.saves = "failed"
    <3>1. raised \in TaskType /\ raised.pc = "update" /\ raised.saves = "failed"
        BY <1>t DEF TaskType, MemberStatus, Terminal
    <3>2. Move(t, raised)
        BY <2>1 DEF Move
    <3> QED
        BY <3>1, <3>2
  <2>3. /\ Len(migs) < MaxLaunches => launched \in TaskType
        /\ Move(t, launched) /\ launched.pc = "update" /\ launched.saves = "running"
      BY <1>t, <2>1, BoundAssumption DEF Move, TaskType, MemberStatus
  <2> HIDE DEF raised, launched
  <2>4. CASE task' = [task EXCEPT ![r][m] = raised] /\ UNCHANGED <<migs, late>>
    <3>1. MemberStep(r, m, raised, runner[r].stop)
        BY <1>t, <2>1, <2>2, <2>4 DEF MemberStep, Launches, Leaves
    <3> QED
        BY <1>t, <2>2, <3>1
  <2>5. CASE /\ task' = [task EXCEPT ![r][m] = launched] /\ Len(migs) < MaxLaunches
             /\ migs' = Append(migs, [member |-> m, status |-> "running"])
             /\ late' = IF row.status = "canceled" THEN late + 1 ELSE late
    <3>1. MemberStep(r, m, launched, runner[r].stop)
        BY <1>t, <2>1, <2>3, <2>5 DEF MemberStep, Launches, Leaves
    <3> QED
        BY <1>t, <2>3, <2>5, <3>1
  <2> QED
      BY <2>1, <2>4, <2>5
<1>4. CASE UpdateRead(r, m) /\ ~Exists
  <2>1. /\ Recorded(r, m) /\ t.pc = "update"
        /\ UNCHANGED <<opt, row, due, migs, active, updates, sched, req, requests, restarts, late>>
      BY <1>4 DEF UpdateRead
  <2>2. PICK x \in TaskType, b \in BOOLEAN :
              /\ task' = [task EXCEPT ![r][m] = x] /\ Move(task[r][m], x)
              /\ x.pc \in {"poll", "off"}
              /\ runner' = [runner EXCEPT ![r].stop = b] /\ (runner[r].stop => b)
              /\ b => runner[r].stop \/ x.pc = "off"
              /\ x.pc = "off" /\ x.saves \in {"failed", "rolled_back"} /\ ~opt.continueOnError => b
      BY <1>t, <2>1, RecordedFacts
  <2>3. MemberStep(r, m, x, b)
      BY <1>4, <2>1, <2>2 DEF MemberStep, Launches, Leaves
  <2> QED
      BY <2>3
<1>5. CASE UpdateRead(r, m) /\ Exists
  <2> DEFINE x == [t EXCEPT !.pc = "write"]
  <2>1. /\ task' = [task EXCEPT ![r][m] = x] /\ t.pc = "update" /\ UNCHANGED runner
        /\ \A u \in updates : u.dropped
        /\ updates' = updates \union
               {[slot |-> r, member |-> m, read |-> row.members, dropped |-> FALSE]}
        /\ UNCHANGED <<opt, row, due, migs, active, sched, req, requests, restarts, late>>
      BY <1>5, <1>t DEF UpdateRead
  <2>2. x \in TaskType /\ Move(t, x) /\ x.pc = "write" /\ x = [t EXCEPT !.pc = "write"]
      BY <1>t, <2>1 DEF Move, TaskType
  <2> HIDE DEF x
  <2>3. Reads(r, m, t, x)
      BY <1>5, <2>1, <2>2 DEF Reads
  <2>4. MemberStep(r, m, x, runner[r].stop)
      BY <1>t, <2>1, <2>2, <2>3 DEF MemberStep, Launches
  <2> QED
      BY <1>t, <2>2, <2>4
<1>6. ASSUME NEW u \in updates, u.slot = r, u.member = m, UpdateWrite(u)
      PROVE  \E x \in TaskType, b \in BOOLEAN : MemberStep(r, m, x, b)
  <2>1. /\ Recorded(r, m) /\ t.pc = "write" /\ updates' = updates \ {u}
        /\ row' = IF ~Exists THEN row ELSE [row EXCEPT !.members = [u.read EXCEPT ![m] = t.saves]]
        /\ UNCHANGED <<opt, due, migs, active, sched, req, requests, restarts, late>>
      BY <1>6 DEF UpdateWrite, UpdatesFit
  <2>2. PICK x \in TaskType, b \in BOOLEAN :
              /\ task' = [task EXCEPT ![r][m] = x] /\ Move(task[r][m], x)
              /\ x.pc \in {"poll", "off"}
              /\ runner' = [runner EXCEPT ![r].stop = b] /\ (runner[r].stop => b)
              /\ b => runner[r].stop \/ x.pc = "off"
              /\ x.pc = "off" /\ x.saves \in {"failed", "rolled_back"} /\ ~opt.continueOnError => b
      BY <1>t, <2>1, RecordedFacts
  <2>3. Writes(r, m, t, x)
      BY <1>6, <2>1, <2>2 DEF Writes
  <2>4. MemberStep(r, m, x, b)
      BY <2>1, <2>2, <2>3 DEF MemberStep, Launches
  <2> QED
      BY <2>4
<1>7. CASE Poll(r, m)
  <2>1. PICK st \in {"succeeded", "failed", "rolled_back"} :
          /\ t.pc = "poll" /\ task' = [task EXCEPT ![r][m] = [t EXCEPT !.pc = "update", !.saves = st]]
          /\ ~opt.timeouts \/ st = "succeeded" => migs[t.mig].status = st
          /\ UNCHANGED <<opt, row, due, migs, active, runner, updates, sched, req, requests, restarts, late>>
    <3> DEFINE end == migs[t.mig].status
    <3>1. /\ t.pc = "poll"
          /\ UNCHANGED <<opt, row, due, migs, active, runner, updates, sched, req, requests, restarts, late>>
          /\ \/ /\ end \in {"succeeded", "failed", "rolled_back"}
                /\ task' = [task EXCEPT ![r][m].pc = "update", ![r][m].saves = end]
             \/ /\ end \notin {"succeeded", "failed", "rolled_back"} /\ opt.timeouts
                /\ task' = [task EXCEPT ![r][m].pc = "update", ![r][m].saves = "failed"]
        BY <1>7 DEF Poll, Outcome
    <3> HIDE DEF end
    <3> DEFINE saved == IF end \in {"succeeded", "failed", "rolled_back"} THEN end ELSE "failed"
    <3>3. /\ saved \in {"succeeded", "failed", "rolled_back"}
          /\ task' = [task EXCEPT ![r][m].pc = "update", ![r][m].saves = saved]
          /\ ~opt.timeouts \/ saved = "succeeded" => end = saved
        BY <3>1
    <3> HIDE DEF saved
    <3>4. PICK st \in {"succeeded", "failed", "rolled_back"} :
             /\ task' = [task EXCEPT ![r][m].pc = "update", ![r][m].saves = st]
             /\ ~opt.timeouts \/ st = "succeeded" => end = st
        BY <3>3, Zenon
    <3>5. task' = [task EXCEPT ![r][m] = [t EXCEPT !.pc = "update", !.saves = st]]
        BY <1>k, <3>4, Zenon
    <3> QED
        BY <3>1, <3>4, <3>5, Zenon DEF end
  <2> DEFINE x == [t EXCEPT !.pc = "update", !.saves = st]
  <2>2. x \in TaskType /\ Move(t, x) /\ x.pc = "update" /\ x.saves = st
      BY <1>t, <2>1 DEF Move, TaskType, MemberStatus, Terminal
  <2>3. task' = [task EXCEPT ![r][m] = x]
      BY <2>1
  <2> HIDE DEF x
  <2>4. MemberStep(r, m, x, runner[r].stop)
      BY <1>t, <2>1, <2>2, <2>3 DEF MemberStep, Launches, Leaves
  <2> QED
      BY <1>t, <2>2, <2>4
<1> QED
    BY <1>1, <1>2, <1>3, <1>4, <1>5, <1>6, <1>7 DEF TaskStep

-----------------------------------------------------------------------------
(* The launched migrations.                                                *)

\* A step adds migrations and ends some, and a succeeded one stays so.
Grow ==
    /\ migs' \in Seq(MigType) /\ Len(migs') \in Nat /\ Len(migs) <= Len(migs')
    /\ \A i \in 1..Len(migs) :
          /\ migs'[i].member = migs[i].member
          /\ migs[i].status /= "running" /\ migs'[i].status /= migs[i].status =>
                migs[i].status = "stuck" /\ migs'[i].status = "failed"

LEMMA GrowsNext == TypeOK /\ UpdatesFit /\ [Next]_vars => Grow
<1> SUFFICES ASSUME TypeOK, UpdatesFit, [Next]_vars PROVE Grow
    OBVIOUS
<1>t. migs \in Seq(MigType) /\ Len(migs) \in Nat /\ DOMAIN migs = 1..Len(migs)
      /\ \A i \in 1..Len(migs) : migs[i] \in MigType
    BY LenProperties, ElementOfSeq DEF TypeOK
<1>1. CASE UNCHANGED migs
    BY <1>1, <1>t DEF Grow
<1>2. ASSUME NEW r \in Slots, NEW m \in Members, TaskStep(r, m), ~UNCHANGED migs
      PROVE  Grow
  <2>1. migs' = Append(migs, [member |-> m, status |-> "running"])
      BY <1>2, MemberSteps DEF MemberStep, Launches
  <2>2. [member |-> m, status |-> "running"] \in MigType
      BY DEF MigType
  <2>3. migs' \in Seq(MigType) /\ Len(migs') = Len(migs) + 1
        /\ \A i \in 1..Len(migs) : migs'[i] = migs[i]
      BY <1>t, <2>1, <2>2
  <2> QED
      BY <1>t, <2>3 DEF Grow
<1>3. ASSUME NEW i \in DOMAIN migs, MigrationEnds(i)
      PROVE  Grow
  <2>1. PICK st \in {"succeeded", "rolled_back", "stuck"} :
          migs[i].status = "running" /\ migs' = [migs EXCEPT ![i].status = st]
      BY <1>3 DEF MigrationEnds
  <2> DEFINE e == [migs[i] EXCEPT !.status = st]
  <2>2. e \in MigType /\ e.member = migs[i].member /\ migs' = [migs EXCEPT ![i] = e]
      BY <1>t, <1>3, <2>1 DEF MigType
  <2> HIDE DEF e
  <2>3. /\ migs' \in Seq(MigType) /\ Len(migs') = Len(migs)
        /\ \A j \in 1..Len(migs) : migs'[j] = IF j = i THEN e ELSE migs[j]
      BY <1>t, <1>3, <2>2, ExceptSeq
  <2> QED
      BY <1>t, <2>1, <2>2, <2>3 DEF Grow
<1>4. CASE Restart
  <2>1. migs' = [i \in 1..Len(migs) |->
          IF migs[i].status \in {"running", "stuck"} THEN [migs[i] EXCEPT !.status = "failed"]
          ELSE migs[i]]
      BY <1>4, <1>t DEF Restart
  <2>2. migs' \in [1..Len(migs) -> MigType]
      BY <1>t, <2>1 DEF MigType
  <2>3. migs' \in Seq(MigType)
      BY <1>t, <2>2, SeqDef
  <2>4. Len(migs') = Len(migs)
      BY <1>t, <2>2, <2>3, LenProperties
  <2>5. \A i \in 1..Len(migs) : migs'[i].member = migs[i].member
        /\ migs'[i].status = IF migs[i].status \in {"running", "stuck"} THEN "failed" ELSE migs[i].status
      BY <1>t, <2>1 DEF MigType
  <2> QED
      BY <1>t, <2>3, <2>4, <2>5 DEF Grow
<1>5. \/ UNCHANGED migs \/ Restart \/ \E i \in DOMAIN migs : MigrationEnds(i)
      \/ \E r \in Slots, m \in Members : TaskStep(r, m)
    BY DEF Next, vars, SchedulerStep, Tick, SchedulerRead, SchedulerCommit, SchedulerKick,
           RequestStep, RunCommit, CancelCommit, DeleteCommit, KickNow, Users, RunNow, Cancel, Delete,
           Receive, RunnerStep, RunnerRead, RunnerCommit, RunnerJoin, RunnerFinish, DoneCallback
<1> QED
    BY <1>1, <1>2, <1>3, <1>4, <1>5

\* What has been migrated stays migrated.
LEMMA MigratedStays ==
    ASSUME TypeOK, Grow, NEW m, Migrated(m) PROVE Migrated(m)'
<1>1. DOMAIN migs = 1..Len(migs) /\ DOMAIN migs' = 1..Len(migs') /\ Len(migs) \in Nat
    BY LenProperties DEF TypeOK, Grow
<1>2. PICK i \in 1..Len(migs) : migs[i].member = m /\ migs[i].status = "succeeded"
    BY <1>1 DEF Migrated
<1>3. i \in 1..Len(migs') /\ migs'[i].member = m /\ migs'[i].status = "succeeded"
    BY <1>1, <1>2 DEF Grow
<1> QED
    BY <1>1, <1>3 DEF Migrated

-----------------------------------------------------------------------------
(* Types.                                                                  *)

\* The end of a runner leaves the runners' type.
LEMMA EndRunnerType ==
    ASSUME runner \in [Slots -> RunnerType], active \in Slots \union {0}, NEW r \in Slots, EndRunner(r)
    PROVE  /\ runner' \in [Slots -> RunnerType] /\ active' \in Slots \union {0}
           /\ runner'[r] \in {NoRunner, [NoRunner EXCEPT !.pc = "done"]}
           /\ \A s \in Slots : s /= r => runner'[s] = runner[s]
           /\ ~opt.lag => active' = 0 /\ runner'[r] = NoRunner
<1>1. NoRunner \in RunnerType /\ [NoRunner EXCEPT !.pc = "done"] \in RunnerType
    BY Nobody DEF RunnerType
<1> QED
    BY <1>1 DEF EndRunner

\* So does a kick.
LEMMA KickType ==
    ASSUME runner \in [Slots -> RunnerType], active \in Slots \union {0}, Kick
    PROVE  runner' \in [Slots -> RunnerType] /\ active' \in Slots \union {0}
BY KickFacts DEF RunnerType

\* Types and counts hold initially ...
LEMMA TypeInit == Init => TypeOK /\ Counted
<1> SUFFICES ASSUME Init PROVE TypeOK /\ Counted
    OBVIOUS
<1>1. opt \in OptionType
    BY OptionAssumption DEF Init
<1>2. row \in RowType /\ req \in RequestType
    BY Nobody DEF Init, RowType, GroupStatus, Resumable, RequestType
<1>3. requests \in 0..opt.requests /\ restarts \in 0..opt.restarts
    BY <1>1 DEF Init, OptionType
<1>4. migs \in Seq(MigType) /\ Len(migs) = 0
    BY EmptySeq DEF Init
<1>5. task \in [Slots -> [Members -> TaskType]] /\ runner \in [Slots -> RunnerType]
    BY Nobody DEF Init
<1>6. sched \in SchedType
    BY Nobody DEF Init
<1>7. due \in BOOLEAN
    BY DEF Init
<1>8. /\ opt \in Options /\ active \in Slots \union {0}
      /\ updates \subseteq UpdateType /\ late \in 0..MaxLaunches /\ late = 0
    BY BoundAssumption DEF Init
<1> QED
    BY <1>2, <1>3, <1>4, <1>5, <1>6, <1>7, <1>8, BoundAssumption DEF TypeOK, Counted

\* ... and every step keeps them.
LEMMA TypeNext == TypeOK /\ Counted /\ UpdatesFit /\ [Next]_vars => TypeOK' /\ Counted'
<1> SUFFICES ASSUME TypeOK, Counted, UpdatesFit, [Next]_vars PROVE TypeOK' /\ Counted'
    OBVIOUS
<1> USE BoundAssumption
<1>t. /\ opt \in Options /\ opt \in OptionType
      /\ row \in RowType /\ due \in BOOLEAN
      /\ migs \in Seq(MigType) /\ Len(migs) \in Nat
      /\ active \in Slots \union {0}
      /\ runner \in [Slots -> RunnerType]
      /\ task \in [Slots -> [Members -> TaskType]]
      /\ updates \subseteq UpdateType /\ sched \in SchedType /\ req \in RequestType
      /\ requests \in 0..opt.requests /\ restarts \in 0..opt.restarts /\ late \in 0..MaxLaunches
      /\ late <= Len(migs) /\ Len(migs) <= MaxLaunches
    BY OptionAssumption, LenProperties DEF TypeOK, Counted
<1>g. Grow
    BY GrowsNext
<1>c. UNCHANGED <<migs, late>> => Counted'
    BY DEF Counted
<1>1. CASE Tick
    BY <1>1, <1>t, <1>c DEF Tick, procVars, TypeOK
<1>2. CASE SchedulerRead
  <2>1. sched' \in SchedType
      BY <1>2, <1>t DEF SchedulerRead, SchedType, RowType
  <2> QED
      BY <1>2, <1>t, <1>c, <2>1 DEF SchedulerRead, TypeOK
<1>3. CASE SchedulerCommit
  <2>1. sched' \in SchedType /\ row' \in RowType
      BY <1>3, <1>t, Nobody DEF SchedulerCommit, SchedType, RowType, GroupStatus, Resumable
  <2> QED
      BY <1>3, <1>t, <1>c, <2>1 DEF SchedulerCommit, TypeOK
<1>4. CASE SchedulerKick
    BY <1>4, <1>t, <1>c, KickType, Nobody DEF SchedulerKick, TypeOK
<1>5. CASE RunCommit
  <2>1. req.read \in RowType /\ req.read.members \in [Members -> MemberStatus]
      BY <1>t DEF RequestType, RowType
  <2>2. ResetMembers(req.read.members) \in [Members -> MemberStatus]
      BY <2>1 DEF ResetMembers, MemberStatus, Terminal
  <2> DEFINE reset == ResetMembers(req.read.members)
             new == [status |-> "pending", members |-> reset]
  <2>3. Flush(req.read, new).members \in [Members -> MemberStatus]
      BY <1>t, <2>2, FlushFacts DEF RowType
  <2>4. row' \in RowType
    <3> HIDE DEF reset
    <3>1. row' = row \/ \E st \in {row.status, "pending"}, members \in {reset, Flush(req.read, new).members} :
                           row' = [status |-> st, members |-> members]
        BY <1>5 DEF RunCommit, reset
    <3>2. {row.status, "pending"} \subseteq GroupStatus
        BY <1>t DEF RowType, GroupStatus, Resumable
    <3> HIDE DEF new
    <3>3. {reset, Flush(req.read, new).members} \subseteq [Members -> MemberStatus]
        BY <2>2, <2>3 DEF reset
    <3> QED
        BY <1>t, <3>1, <3>2, <3>3 DEF RowType
  <2>5. req' \in RequestType /\ late' \in {0, late}
      BY <1>5, <1>t, Nobody DEF RunCommit, RequestType
  <2> QED
      BY <1>5, <1>t, <2>4, <2>5 DEF RunCommit, TypeOK, Counted
<1>6. CASE CancelCommit
  <2>1. row' \in RowType /\ late' \in {0, late}
      BY <1>6, <1>t DEF CancelCommit, RowType, GroupStatus, Finished
  <2> QED
      BY <1>6, <1>t, <2>1, Nobody DEF CancelCommit, TypeOK, Counted
<1>7. CASE DeleteCommit
  <2>1. row' \in RowType
      BY <1>7, <1>t DEF DeleteCommit, RowType, GroupStatus
  <2> QED
      BY <1>7, <1>t, <1>c, <2>1, Nobody DEF DeleteCommit, TypeOK
<1>8. CASE KickNow
    BY <1>8, <1>t, <1>c, KickType, Nobody DEF KickNow, TypeOK
<1>9. CASE RunNow \/ Cancel \/ Delete
  <2>1. PICK op, allowed : op \in {"run", "cancel", "delete"} /\ Receive(op, allowed)
      BY <1>9 DEF RunNow, Cancel, Delete
  <2>2. req' \in RequestType
      BY <1>t, <2>1, Nobody DEF Receive, RequestType
  <2>3. requests' \in 0..opt.requests
      BY <1>t, <2>1 DEF Receive, OptionType
  <2> QED
      BY <1>t, <1>c, <2>1, <2>2, <2>3 DEF Receive, TypeOK
<1>10. CASE Restart
  <2>1. restarts' \in 0..opt.restarts
      BY <1>10, <1>t DEF Restart, OptionType
  <2>2. Counted' /\ migs' \in Seq(MigType)
    <3>1. Len(migs') = Len(migs)
      <4>1. DOMAIN migs' = 1..Len(migs)
          BY <1>10, <1>t, LenProperties DEF Restart
      <4> QED
          BY <1>g, <1>t, <4>1, LenProperties DEF Grow
    <3> QED
        BY <1>10, <1>g, <1>t, <3>1 DEF Counted, Restart, Grow
  <2> QED
      BY <1>10, <1>t, <2>1, <2>2, Nobody DEF Restart, TypeOK
<1>11. ASSUME NEW i \in DOMAIN migs, MigrationEnds(i)
       PROVE  TypeOK' /\ Counted'
  <2>1. DOMAIN migs' = DOMAIN migs
      BY <1>11 DEF MigrationEnds
  <2>2. Len(migs') = Len(migs) /\ migs' \in Seq(MigType)
      BY <1>g, <1>t, <2>1, LenProperties DEF Grow
  <2> QED
      BY <1>11, <1>t, <2>2 DEF MigrationEnds, procVars, TypeOK, Counted
<1>12. ASSUME NEW r \in Slots, RunnerRead(r)
       PROVE  TypeOK' /\ Counted'
  <2>1. runner' \in [Slots -> RunnerType] /\ active' \in Slots \union {0}
      BY <1>12, <1>t, EndRunnerType DEF RunnerRead, RunnerType
  <2> QED
      BY <1>12, <1>t, <1>c, <2>1 DEF RunnerRead, TypeOK
<1>13. ASSUME NEW r \in Slots, RunnerCommit(r)
       PROVE  TypeOK' /\ Counted'
  <2>1. CASE ~Exists
    <3>1. runner' \in [Slots -> RunnerType] /\ active' \in Slots \union {0}
        BY <1>13, <1>t, <2>1, EndRunnerType DEF RunnerCommit
    <3> QED
        BY <1>13, <1>t, <1>c, <2>1, <3>1 DEF RunnerCommit, TypeOK
  <2>2. CASE Exists
    <3> DEFINE read == runner[r].read
               new == [read EXCEPT !.status = "running"]
    <3>1. read \in RowType /\ new \in RowType
        BY <1>t DEF RunnerType, RowType, GroupStatus, Resumable
    <3>2. row' \in RowType
      <4>1. row' = Flush(read, new)
          BY <1>13, <2>2 DEF RunnerCommit
      <4> HIDE DEF new
      <4> QED
          BY <1>t, <3>1, <4>1, FlushFacts
    <3>3. runner' \in [Slots -> RunnerType]
      <4>1. runner' = [runner EXCEPT ![r].pc = "tasks", ![r].read = NoRow]
          BY <1>13, <2>2 DEF RunnerCommit
      <4> QED
          BY <1>t, <4>1, Nobody DEF RunnerType
    <3>4. task' \in [Slots -> [Members -> TaskType]]
      <4>1. [NoTask EXCEPT !.pc = "queued"] \in TaskType
          BY Nobody DEF TaskType
      <4> DEFINE f == [m \in Members |-> IF Skipped(read.members[m]) THEN NoTask
                                         ELSE [NoTask EXCEPT !.pc = "queued"]]
      <4>2. task' = [task EXCEPT ![r] = f]
          BY <1>13, <2>2 DEF RunnerCommit
      <4>3. f \in [Members -> TaskType]
          BY <4>1, Nobody
      <4> QED
          BY <1>t, <4>2, <4>3
    <3> QED
        BY <1>13, <1>t, <1>c, <2>2, <3>2, <3>3, <3>4 DEF RunnerCommit, TypeOK
  <2> QED
      BY <2>1, <2>2
<1>14. ASSUME NEW r \in Slots, RunnerJoin(r)
       PROVE  TypeOK' /\ Counted'
  <2>1. task' \in [Slots -> [Members -> TaskType]]
      BY <1>14, <1>t, Nobody DEF RunnerJoin
  <2>2. FinalStatus(row.members) \in GroupStatus /\ "canceled" \in GroupStatus
      BY DEF FinalStatus, GroupStatus, Finished
  <2>3. [NoRow EXCEPT !.status = row.status] \in RowType
      BY <1>t, Nobody DEF RowType
  <2>4. runner' \in [Slots -> RunnerType] /\ active' \in Slots \union {0}
    <3>1. CASE ~Exists
        BY <1>14, <1>t, <3>1, EndRunnerType DEF RunnerJoin
    <3>2. CASE Exists
      <4>1. PICK st \in GroupStatus : runner' = [runner EXCEPT ![r].pc = "finish",
                  ![r].read = [NoRow EXCEPT !.status = row.status], ![r].write = st]
          BY <1>14, <2>2, <3>2 DEF RunnerJoin
      <4>2. active' = active
          BY <1>14, <3>2 DEF RunnerJoin
      <4> DEFINE gone == [NoRow EXCEPT !.status = row.status]
      <4>3. gone \in RowType /\ runner' = [runner EXCEPT ![r].pc = "finish", ![r].read = gone, ![r].write = st]
          BY <2>3, <4>1
      <4> HIDE DEF gone
      <4> DEFINE z == [runner[r] EXCEPT !.pc = "finish", !.read = gone, !.write = st]
      <4>4. runner' = [runner EXCEPT ![r] = z]
        <5>1. \A a, b, c : [runner EXCEPT ![r].pc = a, ![r].read = b, ![r].write = c]
                 = [runner EXCEPT ![r] = [runner[r] EXCEPT !.pc = a, !.read = b, !.write = c]]
            BY <1>t, RunnerFields
        <5>2. [runner EXCEPT ![r].pc = "finish", ![r].read = gone, ![r].write = st]
              = [runner EXCEPT ![r] = z]
            BY <5>1, Zenon
        <5> HIDE DEF z
        <5> QED
            BY <4>3, <5>2, Zenon
      <4>5. z \in RunnerType
          BY <1>t, <4>3, st \in GroupStatus DEF RunnerType
      <4> HIDE DEF z
      <4>6. runner' \in [Slots -> RunnerType]
          BY <1>t, <4>4, <4>5
      <4> QED
          BY <1>t, <4>2, <4>6
    <3> QED
        BY <3>1, <3>2
  <2> QED
      BY <1>14, <1>t, <1>c, <2>1, <2>4 DEF RunnerJoin, TypeOK
<1>15. ASSUME NEW r \in Slots, RunnerFinish(r)
       PROVE  TypeOK' /\ Counted'
  <2>1. runner' \in [Slots -> RunnerType] /\ active' \in Slots \union {0}
      BY <1>15, <1>t, EndRunnerType DEF RunnerFinish
  <2> DEFINE new == [runner[r].read EXCEPT !.status = runner[r].write]
  <2>2. new \in RowType
      BY <1>t DEF RunnerType, RowType
  <2>3. row' \in RowType
    <3>1. row' = row \/ row' = Flush(runner[r].read, new)
        BY <1>15 DEF RunnerFinish
    <3> HIDE DEF new
    <3> QED
        BY <1>t, <2>2, <3>1, FlushFacts
  <2>4. updates' \subseteq UpdateType
    <3>1. \A u \in updates : [u EXCEPT !.dropped = TRUE] \in UpdateType
        BY <1>t DEF UpdateType
    <3>2. updates' = updates \/ updates' = {[u EXCEPT !.dropped = TRUE] : u \in updates}
        BY <1>15 DEF RunnerFinish
    <3> QED
        BY <1>t, <3>1, <3>2
  <2> QED
      BY <1>15, <1>t, <1>c, <2>1, <2>3, <2>4 DEF RunnerFinish, TypeOK
<1>16. ASSUME NEW r \in Slots, DoneCallback(r)
       PROVE  TypeOK' /\ Counted'
    BY <1>16, <1>t, <1>c, Nobody DEF DoneCallback, TypeOK
<1>17. ASSUME NEW r \in Slots, NEW m \in Members, TaskStep(r, m)
       PROVE  TypeOK' /\ Counted'
  <2>1. PICK x \in TaskType, b \in BOOLEAN : MemberStep(r, m, x, b)
      BY <1>17, MemberSteps
  <2>2. task' \in [Slots -> [Members -> TaskType]]
      BY <1>t, <2>1, OneTask DEF MemberStep
  <2>3. runner' \in [Slots -> RunnerType]
      BY <1>t, <2>1, StopStep DEF MemberStep
  <2>4. late' \in 0..MaxLaunches /\ Counted'
    <3>1. CASE UNCHANGED <<migs, late>>
        BY <1>t, <3>1 DEF Counted
    <3>2. CASE ~UNCHANGED <<migs, late>>
      <4>1. /\ Len(migs) < MaxLaunches /\ late' \in {late, late + 1}
            /\ migs' = Append(migs, [member |-> m, status |-> "running"])
          BY <2>1, <3>2 DEF MemberStep, Launches
      <4>2. Len(migs') = Len(migs) + 1
          BY <1>t, <4>1
      <4> QED
          BY <1>t, <4>1, <4>2 DEF Counted
    <3> QED
        BY <3>1, <3>2
  <2>5. row' \in RowType /\ updates' \subseteq UpdateType
    <3>1. CASE Leaves(task[r][m], x)
        BY <1>t, <3>1 DEF Leaves
    <3>2. CASE Reads(r, m, task[r][m], x)
      <4>1. [slot |-> r, member |-> m, read |-> row.members, dropped |-> FALSE] \in UpdateType
          BY <1>t DEF UpdateType, RowType
      <4> QED
          BY <1>t, <3>2, <4>1 DEF Reads
    <3>3. CASE Writes(r, m, task[r][m], x)
      <4>1. PICK u \in updates :
              /\ updates' = updates \ {u}
              /\ row' = IF ~Exists THEN row
                        ELSE [row EXCEPT !.members = [u.read EXCEPT ![m] = task[r][m].saves]]
          BY <3>3 DEF Writes
      <4>2. [u.read EXCEPT ![m] = task[r][m].saves] \in [Members -> MemberStatus]
          BY <1>t DEF UpdateType, TaskType
      <4> QED
          BY <1>t, <4>1, <4>2 DEF RowType
    <3> QED
        BY <2>1, <3>1, <3>2, <3>3 DEF MemberStep
  <2> QED
      BY <1>g, <1>t, <2>1, <2>2, <2>3, <2>4, <2>5 DEF MemberStep, TypeOK, Grow
<1>18. CASE UNCHANGED vars
    BY <1>18, <1>t, <1>c DEF vars, procVars, TypeOK
<1> QED
    BY <1>1, <1>2, <1>3, <1>4, <1>5, <1>6, <1>7, <1>8, <1>9, <1>10, <1>11, <1>12, <1>13, <1>14,
       <1>15, <1>16, <1>17, <1>18
       DEF Next, SchedulerStep, RequestStep, Users, RunnerStep

-----------------------------------------------------------------------------
(* Runners, tasks and updates.                                             *)

\* A step that leaves the member tasks and the runners at work on them alone.
Bystands ==
    /\ UNCHANGED <<opt, task>>
    /\ \A s \in Slots : /\ runner[s].pc = "tasks" => runner'[s] = runner[s]
                        /\ runner'[s].pc = "tasks" => runner[s].pc = "tasks"

\* Every step does, but for those of the tasks, the beginning and the end of
\* their runner's work, and a restart.
LEMMA Bystanders ==
    ASSUME TypeOK, [Next]_vars
    PROVE  \/ Bystands \/ Restart
           \/ \E r \in Slots, m \in Members : TaskStep(r, m)
           \/ \E r \in Slots : (RunnerCommit(r) /\ Exists) \/ RunnerJoin(r)
<1>t. runner \in [Slots -> RunnerType] /\ active \in Slots \union {0}
    BY DEF TypeOK
<1>1. ASSUME Kick, UNCHANGED <<opt, task>> PROVE Bystands
  <2>1. CASE UNCHANGED runner
      BY <1>1, <2>1 DEF Bystands
  <2>2. ASSUME NEW r \in Slots, runner[r].pc = "off", runner' = [runner EXCEPT ![r].pc = "read"]
        PROVE  Bystands
    <3>1. runner'[r].pc = "read" /\ \A s \in Slots : s /= r => runner'[s] = runner[s]
        BY <1>t, <2>2 DEF RunnerType
    <3> QED
        BY <1>1, <2>2, <3>1 DEF Bystands
  <2> QED
      BY <1>1, <2>1, <2>2, KickFacts
<1>2. ASSUME NEW r \in Slots, EndRunner(r), runner[r].pc /= "tasks", UNCHANGED <<opt, task>>
      PROVE  Bystands
  <2>1. runner'[r].pc \in {"off", "done"} /\ \A s \in Slots : s /= r => runner'[s] = runner[s]
      BY <1>2, <1>t, EndRunnerType DEF NoRunner
  <2> QED
      BY <1>2, <2>1 DEF Bystands
<1>3. CASE UNCHANGED <<opt, task, runner>>
    BY <1>3 DEF Bystands
<1>4. CASE SchedulerKick \/ KickNow
    BY <1>1, <1>4 DEF SchedulerKick, KickNow
<1>5. ASSUME NEW r \in Slots, RunnerRead(r) PROVE Bystands
  <2>1. runner[r].pc = "read" /\ UNCHANGED <<opt, task>>
        /\ (EndRunner(r) \/ runner' = [runner EXCEPT ![r].pc = "commit", ![r].read = row])
      BY <1>5 DEF RunnerRead
  <2>2. CASE runner' = [runner EXCEPT ![r].pc = "commit", ![r].read = row]
      BY <1>t, <2>1, <2>2 DEF Bystands, RunnerType
  <2> QED
      BY <1>2, <2>1, <2>2
<1>6. ASSUME NEW r \in Slots, RunnerCommit(r), ~Exists PROVE Bystands
    BY <1>2, <1>6 DEF RunnerCommit
<1>7. ASSUME NEW r \in Slots, RunnerFinish(r) PROVE Bystands
    BY <1>2, <1>7 DEF RunnerFinish
<1>8. ASSUME NEW r \in Slots, DoneCallback(r) PROVE Bystands
    BY <1>8, <1>t DEF DoneCallback, Bystands, NoRunner
<1>9. \/ UNCHANGED <<opt, task, runner>> \/ Restart \/ SchedulerKick \/ KickNow
      \/ \E r \in Slots : \/ RunnerRead(r) \/ RunnerCommit(r) \/ RunnerJoin(r) \/ RunnerFinish(r)
                          \/ DoneCallback(r) \/ \E m \in Members : TaskStep(r, m)
    BY DEF Next, vars, procVars, SchedulerStep, Tick, SchedulerRead, SchedulerCommit,
           RequestStep, RunCommit, CancelCommit, DeleteCommit, Users, RunNow, Cancel, Delete,
           Receive, RunnerStep, MigrationEnds
<1> QED
    BY <1>3, <1>4, <1>5, <1>6, <1>7, <1>8, <1>9

\* The options are not changed.
LEMMA SameOptions ==
    ASSUME TypeOK, UpdatesFit, [Next]_vars PROVE UNCHANGED opt
<1>1. ASSUME NEW r \in Slots, NEW m \in Members, TaskStep(r, m) PROVE UNCHANGED opt
    BY <1>1, MemberSteps DEF MemberStep
<1> QED
    BY <1>1, Bystanders DEF Bystands, Restart, RunnerCommit, RunnerJoin

\* A task that is left alone fits as it did.
LEMMA FitStays ==
    ASSUME TypeOK, Grow, NEW r \in Slots, NEW m \in Members, TaskFits(r, m),
           task'[r][m] = task[r][m], task[r][m].pc /= "off" => runner'[r].pc = "tasks"
    PROVE  TaskFits(r, m)'
<1>1. DOMAIN migs = 1..Len(migs) /\ DOMAIN migs' = 1..Len(migs') /\ Len(migs) \in Nat
    BY LenProperties DEF TypeOK, Grow
<1> QED
    BY <1>1 DEF TaskFits, Grow

\* The tasks fit initially ...
LEMMA FitInit == Init => TasksFit /\ UpdatesFit /\ Single
<1> SUFFICES ASSUME Init PROVE TasksFit /\ UpdatesFit /\ Single
    OBVIOUS
<1>1. TasksFit
    BY DEF Init, TasksFit, TaskFits, NoTask
<1>2. UpdatesFit /\ Single
    BY DEF Init, UpdatesFit, Single, NoRunner
<1> QED
    BY <1>1, <1>2

\* ... and after every step.
LEMMA TasksFitNext == TypeOK /\ TasksFit /\ UpdatesFit /\ [Next]_vars => TasksFit'
<1> SUFFICES ASSUME TypeOK, TasksFit, UpdatesFit, [Next]_vars, NEW s \in Slots, NEW k \in Members
             PROVE  TaskFits(s, k)'
    BY DEF TasksFit
<1>t. /\ runner \in [Slots -> RunnerType] /\ task \in [Slots -> [Members -> TaskType]]
      /\ Grow /\ TaskFits(s, k)
    BY GrowsNext DEF TypeOK, TasksFit
<1>n. ASSUME task'[s][k] = NoTask PROVE TaskFits(s, k)'
    BY <1>n DEF TaskFits, NoTask
<1>1. CASE Bystands
    BY <1>1, <1>t, FitStays DEF Bystands, TaskFits
<1>2. CASE Restart
    BY <1>2, <1>n DEF Restart
<1>3. ASSUME NEW r \in Slots, RunnerCommit(r), Exists PROVE TaskFits(s, k)'
  <2>1. CASE s = r
    <3>1. task'[s][k] = NoTask \/ task'[s][k] = [NoTask EXCEPT !.pc = "queued"]
        BY <1>3, <1>t, <2>1 DEF RunnerCommit
    <3>2. runner'[s].pc = "tasks"
        BY <1>3, <1>t, <2>1 DEF RunnerCommit, RunnerType
    <3> QED
        BY <3>1, <3>2 DEF TaskFits, NoTask
  <2>2. CASE s /= r
    <3>1. task'[s][k] = task[s][k] /\ runner'[s] = runner[s]
        BY <1>3, <1>t, <2>2 DEF RunnerCommit
    <3> QED
        BY <1>t, <3>1, FitStays DEF TaskFits
  <2> QED
      BY <2>1, <2>2
<1>4. ASSUME NEW r \in Slots, RunnerJoin(r) PROVE TaskFits(s, k)'
  <2>1. CASE s = r
      BY <1>4, <1>n, <1>t, <2>1 DEF RunnerJoin
  <2>2. CASE s /= r
    <3>1. task'[s][k] = task[s][k] /\ runner'[s] = runner[s]
        BY <1>4, <1>t, <2>2 DEF RunnerJoin, EndRunner
    <3> QED
        BY <1>t, <3>1, FitStays DEF TaskFits
  <2> QED
      BY <2>1, <2>2
<1>5. ASSUME NEW r \in Slots, NEW m \in Members, TaskStep(r, m) PROVE TaskFits(s, k)'
  <2>1. PICK x \in TaskType, b \in BOOLEAN : MemberStep(r, m, x, b)
      BY <1>5, MemberSteps
  <2>2. /\ task'[r][m] = x /\ Move(task[r][m], x) /\ runner'[s].pc = runner[s].pc
        /\ s /= r \/ k /= m => task'[s][k] = task[s][k]
      BY <1>t, <2>1, OneTask, StopStep DEF MemberStep
  <2>3. CASE s /= r \/ k /= m
      BY <1>t, <2>2, <2>3, FitStays DEF TaskFits
  <2>4. CASE s = r /\ k = m
    <3> DEFINE t == task[r][m]
    <3>1. t \in TaskType /\ TaskFits(r, m)
        BY <1>t, <2>4
    <3>2. DOMAIN migs = 1..Len(migs) /\ DOMAIN migs' = 1..Len(migs') /\ Len(migs) \in Nat
          /\ migs \in Seq(MigType)
        BY <1>t, LenProperties DEF TypeOK, Grow
    <3>3. t.pc /= "off" /\ runner'[r].pc = "tasks"
        BY <2>2, <2>4, <3>1 DEF Move, TaskFits
    <3>4. CASE x = [pc |-> "update", mig |-> Len(migs) + 1, saves |-> "running"]
      <4>1. migs' = Append(migs, [member |-> m, status |-> "running"])
          BY <2>1, <3>4 DEF MemberStep, Launches
      <4>2. Len(migs') = Len(migs) + 1 /\ migs'[Len(migs) + 1].member = m
          BY <3>2, <4>1
      <4>3. x.mig \in DOMAIN migs' /\ migs'[x.mig].member = m
          BY <3>2, <3>4, <4>2
      <4> QED
          BY <2>2, <2>4, <3>3, <3>4, <4>3 DEF TaskFits
    <3>5. CASE x /= [pc |-> "update", mig |-> Len(migs) + 1, saves |-> "running"]
      <4>1. t.mig \in DOMAIN migs => t.mig \in DOMAIN migs' /\ migs'[t.mig].member = migs[t.mig].member
          BY <1>t, <3>2 DEF Grow
      <4>2. /\ x.pc \in {"queued", "launch"} => x.saves = "pending"
            /\ x.pc = "poll" => x.saves = "running"
            /\ x.saves = "running" => x.pc \in {"update", "write", "poll"} /\ x.mig = t.mig /\ t.saves = "running"
        <5>1. /\ t \in TaskType /\ Move(t, x)
              /\ t.pc \in {"queued", "launch"} => t.saves = "pending"
              /\ t.pc = "poll" => t.saves = "running"
            BY <2>2, <2>4, <3>1 DEF TaskFits
        <5> HIDE DEF t
        <5> QED
            BY <3>5, <5>1 DEF Move, TaskType, NoTask
      <4> QED
          BY <2>2, <2>4, <3>1, <3>3, <4>1, <4>2 DEF TaskFits
    <3> QED
        BY <3>4, <3>5
  <2> QED
      BY <2>3, <2>4
<1> QED
    BY <1>1, <1>2, <1>3, <1>4, <1>5, Bystanders

\* A step of the updates: none, their end with the process, their lock dropped, or
\* the step of a member's task.
LEMMA UpdateSteps ==
    ASSUME TypeOK, [Next]_vars
    PROVE  \/ UNCHANGED updates \/ (Restart /\ updates' = {})
           \/ \E r \in Slots : RunnerFinish(r) /\ updates' = {[u EXCEPT !.dropped = TRUE] : u \in updates}
           \/ \E r \in Slots, m \in Members : TaskStep(r, m)
BY DEF Next, vars, procVars, SchedulerStep, Tick, SchedulerRead, SchedulerCommit, SchedulerKick,
       RequestStep, RunCommit, CancelCommit, DeleteCommit, KickNow, Users, RunNow, Cancel, Delete,
       Receive, Restart, RunnerStep, RunnerRead, RunnerCommit, RunnerJoin, RunnerFinish,
       DoneCallback, MigrationEnds

\* The updates are those of tasks after every step.
LEMMA UpdatesFitNext == TypeOK /\ TasksFit /\ UpdatesFit /\ [Next]_vars => UpdatesFit'
<1> SUFFICES ASSUME TypeOK, TasksFit, UpdatesFit, [Next]_vars PROVE UpdatesFit'
    OBVIOUS
<1>t. /\ runner \in [Slots -> RunnerType] /\ task \in [Slots -> [Members -> TaskType]]
      /\ \A u \in updates : /\ u \in UpdateType /\ u.slot \in Slots /\ u.member \in Members
                            /\ task[u.slot][u.member].pc = "write" /\ runner[u.slot].pc = "tasks"
    BY DEF TypeOK, UpdateType, UpdatesFit, TasksFit, TaskFits
<1>1. CASE Restart
    BY <1>1 DEF Restart, UpdatesFit
<1>2. ASSUME NEW r \in Slots, RunnerFinish(r), updates' = {[u EXCEPT !.dropped = TRUE] : u \in updates}
      PROVE  UpdatesFit'
  <2>1. UNCHANGED task
      BY <1>2 DEF RunnerFinish
  <2>2. \A u \in updates : LET w == [u EXCEPT !.dropped = TRUE] IN w.slot = u.slot /\ w.member = u.member
      BY <1>t DEF UpdateType
  <2>3. \A w \in updates' : \E u \in updates :
            w = [u EXCEPT !.dropped = TRUE] /\ w.slot = u.slot /\ w.member = u.member
      BY <1>2, <2>2
  <2>4. \A w \in updates' : task'[w.slot][w.member].pc = "write"
      BY <1>t, <2>1, <2>3
  <2>5. \A v, w \in updates' : v.slot = w.slot /\ v.member = w.member => v = w
    <3> SUFFICES ASSUME NEW v \in updates', NEW w \in updates', v.slot = w.slot, v.member = w.member
                 PROVE  v = w
        OBVIOUS
    <3>1. PICK u \in updates : v = [u EXCEPT !.dropped = TRUE] /\ v.slot = u.slot /\ v.member = u.member
        BY <2>3
    <3>2. PICK y \in updates : w = [y EXCEPT !.dropped = TRUE] /\ w.slot = y.slot /\ w.member = y.member
        BY <2>3
    <3>3. u = y
        BY <3>1, <3>2 DEF UpdatesFit
    <3> QED
        BY <3>1, <3>2, <3>3
  <2> QED
      BY <2>4, <2>5 DEF UpdatesFit
<1>3. ASSUME NEW r \in Slots, NEW m \in Members, TaskStep(r, m) PROVE UpdatesFit'
  <2>1. PICK x \in TaskType, b \in BOOLEAN : MemberStep(r, m, x, b)
      BY <1>3, MemberSteps
  <2>2. /\ task'[r][m] = x
        /\ \A s \in Slots, k \in Members : s /= r \/ k /= m => task'[s][k] = task[s][k]
      BY <1>t, <2>1, OneTask DEF MemberStep
  <2>3. CASE Leaves(task[r][m], x)
      BY <1>t, <2>2, <2>3 DEF Leaves, UpdatesFit
  <2>4. CASE Reads(r, m, task[r][m], x)
    <3> DEFINE n == [slot |-> r, member |-> m, read |-> row.members, dropped |-> FALSE]
    <3>1. updates' = updates \union {n} /\ task[r][m].pc = "update" /\ x.pc = "write"
        BY <1>t, <2>4 DEF Reads, TaskType
    <3>2. n.slot = r /\ n.member = m
        OBVIOUS
    <3> HIDE DEF n
    <3>3. \A u \in updates : u.slot /= r \/ u.member /= m
        BY <1>t, <3>1
    <3> QED
        BY <1>t, <2>2, <3>1, <3>2, <3>3 DEF UpdatesFit
  <2>5. CASE Writes(r, m, task[r][m], x)
    <3>1. PICK u \in updates : u.slot = r /\ u.member = m /\ updates' = updates \ {u}
        BY <2>5 DEF Writes
    <3>2. \A w \in updates' : w \in updates /\ (w.slot /= r \/ w.member /= m)
        BY <3>1 DEF UpdatesFit
    <3> QED
        BY <1>t, <2>2, <3>2 DEF UpdatesFit
  <2> QED
      BY <2>1, <2>3, <2>4, <2>5 DEF MemberStep
<1>4. CASE UNCHANGED updates /\ ~\E r \in Slots, m \in Members : TaskStep(r, m)
  <2>1. \A u \in updates : task'[u.slot] = task[u.slot]
    <3>1. CASE Bystands
        BY <3>1 DEF Bystands
    <3>2. ASSUME NEW r \in Slots, RunnerCommit(r), Exists
          PROVE  \A u \in updates : task'[u.slot] = task[u.slot]
        BY <1>t, <3>2 DEF RunnerCommit
    <3>3. ASSUME NEW r \in Slots, RunnerJoin(r)
          PROVE  \A u \in updates : task'[u.slot] = task[u.slot]
        BY <1>t, <3>3 DEF RunnerJoin
    <3>4. CASE Restart
        BY <1>4, <3>4 DEF Restart
    <3> QED
        BY <1>4, <3>1, <3>2, <3>3, <3>4, Bystanders
  <2> QED
      BY <1>4, <2>1 DEF UpdatesFit
<1> QED
    BY <1>1, <1>2, <1>3, <1>4, UpdateSteps

\* At any time there is one runner and one update, after every step.
LEMMA SingleNext == TypeOK /\ TasksFit /\ UpdatesFit /\ Single /\ [Next]_vars => Single'
<1> SUFFICES ASSUME TypeOK, TasksFit, UpdatesFit, Single, [Next]_vars PROVE Single'
    OBVIOUS
<1>o. opt' = opt
    BY SameOptions
<1> SUFFICES ASSUME ~opt.lag PROVE Single'
    BY <1>o DEF Single
<1>t. /\ runner \in [Slots -> RunnerType] /\ active \in Slots \union {0}
      /\ task \in [Slots -> [Members -> TaskType]]
      /\ \A u \in updates : /\ u \in UpdateType /\ u.slot \in Slots /\ u.member \in Members
                            /\ runner[u.slot].pc = "tasks"
    BY DEF TypeOK, UpdateType, UpdatesFit, TasksFit, TaskFits
<1>s. /\ \A r \in Slots : runner[r].pc /= "off" => r = active /\ runner[r].pc /= "done"
      /\ \A u \in updates : ~u.dropped /\ \A w \in updates : w = u
    BY DEF Single
<1>1. \A r \in Slots : runner'[r].pc /= "off" => r = active' /\ runner'[r].pc /= "done"
  <2>1. ASSUME Kick PROVE \A r \in Slots : runner'[r].pc /= "off" => r = active' /\ runner'[r].pc /= "done"
    <3>1. CASE UNCHANGED <<active, runner>>
        BY <1>s, <3>1
    <3>2. ASSUME NEW r \in Slots, ~(active /= 0 /\ Live(active)),
                 runner' = [runner EXCEPT ![r].pc = "read"], active' = r
          PROVE  \A q \in Slots : runner'[q].pc /= "off" => q = active' /\ runner'[q].pc /= "done"
      <4>1. \A q \in Slots : runner[q].pc = "off"
          BY <1>s, <3>2, SlotAssumption DEF Live
      <4> QED
          BY <1>t, <3>2, <4>1 DEF RunnerType
    <3> QED
        BY <2>1, <3>1, <3>2, KickFacts
  <2>2. ASSUME NEW q \in Slots, EndRunner(q), runner[q].pc /= "off"
        PROVE  \A r \in Slots : runner'[r].pc /= "off" => r = active' /\ runner'[r].pc /= "done"
    <3>1. runner'[q] = NoRunner /\ \A r \in Slots : r /= q => runner'[r] = runner[r]
        BY <1>t, <2>2, EndRunnerType
    <3> QED
        BY <1>s, <2>2, <3>1 DEF NoRunner
  <2>3. ASSUME UNCHANGED active, \A r \in Slots : \/ runner'[r] = runner[r]
                                                  \/ runner[r].pc /= "off" /\ runner'[r].pc /= "done"
        PROVE  \A r \in Slots : runner'[r].pc /= "off" => r = active' /\ runner'[r].pc /= "done"
      BY <1>s, <2>3
  <2>4. CASE SchedulerKick \/ KickNow
      BY <2>1, <2>4 DEF SchedulerKick, KickNow
  <2>5. ASSUME NEW r \in Slots, RunnerRead(r)
        PROVE  \A q \in Slots : runner'[q].pc /= "off" => q = active' /\ runner'[q].pc /= "done"
    <3>1. CASE EndRunner(r)
        BY <2>2, <2>5, <3>1 DEF RunnerRead
    <3>2. CASE ~EndRunner(r)
      <4>1. runner[r].pc = "read" /\ UNCHANGED active
            /\ runner' = [runner EXCEPT ![r].pc = "commit", ![r].read = row]
          BY <2>5, <3>2 DEF RunnerRead
      <4>2. \A q \in Slots : \/ runner'[q] = runner[q]
                             \/ runner[q].pc /= "off" /\ runner'[q].pc /= "done"
          BY <1>t, <4>1 DEF RunnerType
      <4> QED
          BY <2>3, <4>1, <4>2
    <3> QED
        BY <3>1, <3>2
  <2>6. ASSUME NEW r \in Slots, RunnerCommit(r)
        PROVE  \A q \in Slots : runner'[q].pc /= "off" => q = active' /\ runner'[q].pc /= "done"
    <3>1. CASE EndRunner(r)
        BY <2>2, <2>6, <3>1 DEF RunnerCommit
    <3>2. CASE ~EndRunner(r)
      <4>1. runner[r].pc = "commit" /\ UNCHANGED active
            /\ runner' = [runner EXCEPT ![r].pc = "tasks", ![r].read = NoRow]
          BY <2>6, <3>2 DEF RunnerCommit
      <4>2. \A q \in Slots : \/ runner'[q] = runner[q]
                             \/ runner[q].pc /= "off" /\ runner'[q].pc /= "done"
          BY <1>t, <4>1 DEF RunnerType
      <4> QED
          BY <2>3, <4>1, <4>2
    <3> QED
        BY <3>1, <3>2
  <2>7. ASSUME NEW r \in Slots, RunnerJoin(r)
        PROVE  \A q \in Slots : runner'[q].pc /= "off" => q = active' /\ runner'[q].pc /= "done"
    <3>1. CASE EndRunner(r)
        BY <2>2, <2>7, <3>1 DEF RunnerJoin
    <3>2. CASE ~EndRunner(r)
      <4>1. PICK st, rd : runner[r].pc = "tasks" /\ UNCHANGED active
            /\ runner' = [runner EXCEPT ![r].pc = "finish", ![r].read = rd, ![r].write = st]
          BY <2>7, <3>2 DEF RunnerJoin
      <4>2. \A q \in Slots : \/ runner'[q] = runner[q]
                             \/ runner[q].pc /= "off" /\ runner'[q].pc /= "done"
          BY <1>t, <4>1 DEF RunnerType
      <4> QED
          BY <2>3, <4>1, <4>2
    <3> QED
        BY <3>1, <3>2
  <2>8. ASSUME NEW r \in Slots, RunnerFinish(r)
        PROVE  \A q \in Slots : runner'[q].pc /= "off" => q = active' /\ runner'[q].pc /= "done"
      BY <2>2, <2>8 DEF RunnerFinish
  <2>9. ASSUME NEW r \in Slots, DoneCallback(r)
        PROVE  \A q \in Slots : runner'[q].pc /= "off" => q = active' /\ runner'[q].pc /= "done"
      BY <1>s, <2>9 DEF DoneCallback
  <2>10. CASE Restart
      BY <2>10 DEF Restart, NoRunner
  <2>11. ASSUME NEW r \in Slots, NEW m \in Members, TaskStep(r, m)
         PROVE  \A q \in Slots : runner'[q].pc /= "off" => q = active' /\ runner'[q].pc /= "done"
    <3>1. PICK x \in TaskType, b \in BOOLEAN : MemberStep(r, m, x, b)
        BY <2>11, MemberSteps
    <3>2. UNCHANGED active /\ \A q \in Slots : runner'[q].pc = runner[q].pc
        BY <1>t, <3>1, StopStep DEF MemberStep
    <3> QED
        BY <1>s, <3>2
  <2>12. CASE UNCHANGED <<active, runner>>
      BY <1>s, <2>12
  <2>13. \/ UNCHANGED <<active, runner>> \/ Restart \/ SchedulerKick \/ KickNow
         \/ \E r \in Slots : \/ RunnerRead(r) \/ RunnerCommit(r) \/ RunnerJoin(r) \/ RunnerFinish(r)
                             \/ DoneCallback(r) \/ \E m \in Members : TaskStep(r, m)
      BY DEF Next, vars, procVars, SchedulerStep, Tick, SchedulerRead, SchedulerCommit,
             RequestStep, RunCommit, CancelCommit, DeleteCommit, Users, RunNow, Cancel, Delete,
             Receive, RunnerStep, MigrationEnds
  <2> QED
      BY <2>4, <2>5, <2>6, <2>7, <2>8, <2>9, <2>10, <2>11, <2>12, <2>13
<1>2. \A u \in updates' : ~u.dropped /\ \A w \in updates' : w = u
  <2>1. CASE UNCHANGED updates \/ updates' = {}
      BY <1>s, <2>1
  <2>2. ASSUME NEW r \in Slots, RunnerFinish(r), updates' = {[u EXCEPT !.dropped = TRUE] : u \in updates}
        PROVE  updates' = {}
    <3>1. runner[r].pc = "finish"
        BY <2>2 DEF RunnerFinish
    <3>2. updates = {}
        BY <1>s, <1>t, <3>1
    <3> QED
        BY <2>2, <3>2
  <2>3. ASSUME NEW r \in Slots, NEW m \in Members, TaskStep(r, m)
        PROVE  \A u \in updates' : ~u.dropped /\ \A w \in updates' : w = u
    <3>1. PICK x \in TaskType, b \in BOOLEAN : MemberStep(r, m, x, b)
        BY <2>3, MemberSteps
    <3>2. CASE UNCHANGED updates \/ \E u \in updates : updates' = updates \ {u}
        BY <1>s, <3>2
    <3>3. CASE Reads(r, m, task[r][m], x)
      <4>1. updates' = {[slot |-> r, member |-> m, read |-> row.members, dropped |-> FALSE]}
          BY <1>s, <3>3 DEF Reads
      <4> QED
          BY <4>1
    <3> QED
        BY <3>1, <3>2, <3>3 DEF MemberStep, Leaves, Writes
  <2> QED
      BY <2>1, <2>2, <2>3, UpdateSteps
<1> QED
    BY <1>1, <1>2 DEF Single

-----------------------------------------------------------------------------
(* Successes.                                                              *)

\* What a member's step may record of it is so.
LEMMA RecordsTruly ==
    ASSUME TypeOK, TasksFit, NEW r \in Slots, NEW m \in Members, NEW x \in TaskType,
           Move(task[r][m], x), x.saves = "succeeded"
    PROVE  task[r][m].saves = "succeeded" \/ Migrated(m)
<1> DEFINE t == task[r][m]
<1>1. t \in TaskType /\ TaskFits(r, m)
    BY DEF TypeOK, TasksFit
<1>2. \/ t.saves = "succeeded"
      \/ t.pc = "poll" /\ migs[t.mig].status = "succeeded"
  <2>1. \A st : [t EXCEPT !.pc = "update", !.saves = st].saves = st
      BY <1>1 DEF TaskType
  <2>2. /\ x /= [t EXCEPT !.pc = "update", !.saves = "skipped"]
        /\ x /= [t EXCEPT !.pc = "update", !.saves = "failed"]
      BY <2>1
  <2>3. /\ \A st : [NoTask EXCEPT !.saves = st].saves = st
        /\ \A p : [t EXCEPT !.pc = p].saves = t.saves
        /\ [pc |-> "update", mig |-> Len(migs) + 1, saves |-> "running"].saves = "running"
      BY <1>1 DEF TaskType, NoTask
  <2>4. CASE \E st \in {"succeeded", "failed", "rolled_back"} :
              /\ t.pc = "poll" /\ x = [t EXCEPT !.pc = "update", !.saves = st]
              /\ ~opt.timeouts \/ st = "succeeded" => migs[t.mig].status = st
    <3>1. PICK st \in {"succeeded", "failed", "rolled_back"} :
              /\ t.pc = "poll" /\ x = [t EXCEPT !.pc = "update", !.saves = st]
              /\ st = "succeeded" => migs[t.mig].status = st
        BY <2>4
    <3> QED
        BY <2>1, <3>1
  <2> HIDE DEF t
  <2>5. \/ \E p : x = [t EXCEPT !.pc = p]
        \/ \E st : x = [NoTask EXCEPT !.saves = st] /\ st \in {"failed", t.saves}
        \/ x = [pc |-> "update", mig |-> Len(migs) + 1, saves |-> "running"]
        \/ \E st \in {"succeeded", "failed", "rolled_back"} :
              /\ t.pc = "poll" /\ x = [t EXCEPT !.pc = "update", !.saves = st]
              /\ ~opt.timeouts \/ st = "succeeded" => migs[t.mig].status = st
    <3>1. Move(t, x)
        BY DEF t
    <3> QED
        BY <2>2, <3>1, Zenon DEF Move
  <2> QED
      BY <2>3, <2>4, <2>5
<1> QED
    BY <1>1, <1>2 DEF TaskFits, Migrated

\* A group that has succeeded has only members that have.
LEMMA AllSucceeded ==
    ASSUME NEW f, FinalStatus(f) = "succeeded" PROVE \A m \in Members : f[m] = "succeeded"
BY DEF FinalStatus

\* Nothing is on record as succeeded initially ...
LEMMA SuccessInit == Init => SuccessesTrue
BY DEF Init, SuccessesTrue, Truly, AllPending, NoRow, NoRequest, NoRunner, NoTask

\* ... and no step records a success that is none.
LEMMA SuccessNext == TypeOK /\ TasksFit /\ UpdatesFit /\ SuccessesTrue /\ [Next]_vars => SuccessesTrue'
<1> SUFFICES ASSUME TypeOK, TasksFit, UpdatesFit, SuccessesTrue, [Next]_vars PROVE SuccessesTrue'
    OBVIOUS
<1>t. /\ row \in RowType /\ runner \in [Slots -> RunnerType] /\ active \in Slots \union {0}
      /\ task \in [Slots -> [Members -> TaskType]]
      /\ updates \subseteq UpdateType /\ req \in RequestType
    BY DEF TypeOK
<1>m. \A m \in Members : Migrated(m) => Migrated(m)'
    BY GrowsNext, MigratedStays
<1>s. /\ \A m \in Members : row.members[m] = "succeeded" => Migrated(m)
      /\ \A m \in Members : req.read.members[m] = "succeeded" => Migrated(m)
      /\ \A u \in updates, m \in Members : u.read[m] = "succeeded" => Migrated(m)
      /\ \A r \in Slots, m \in Members : task[r][m].saves = "succeeded" => Migrated(m)
      /\ \A r \in Slots : runner[r].write = "succeeded" => \A m \in Members : Migrated(m)
      /\ row.status = "succeeded" => \A m \in Members : Migrated(m)
    BY DEF SuccessesTrue, Truly
<1>1. \A r \in Slots, m \in Members : task'[r][m].saves = "succeeded" => Migrated(m)'
  <2> SUFFICES ASSUME NEW s \in Slots, NEW k \in Members PROVE task'[s][k].saves = "succeeded" => Migrated(k)'
      OBVIOUS
  <2>1. CASE task'[s][k] = task[s][k]
      BY <1>s, <1>m, <2>1
  <2>2. CASE task'[s][k].saves = "pending"
      BY <2>2
  <2>3. ASSUME NEW r \in Slots, NEW m \in Members, TaskStep(r, m)
        PROVE  task'[s][k].saves = "succeeded" => Migrated(k)'
    <3>1. PICK x \in TaskType, b \in BOOLEAN : MemberStep(r, m, x, b)
        BY <2>3, MemberSteps
    <3>2. /\ task'[r][m] = x /\ Move(task[r][m], x)
          /\ s /= r \/ k /= m => task'[s][k] = task[s][k]
        BY <1>t, <3>1, OneTask DEF MemberStep
    <3>3. x.saves = "succeeded" => Migrated(m)
        BY <1>s, <3>2, RecordsTruly
    <3> QED
        BY <1>s, <1>m, <3>2, <3>3
  <2>4. ASSUME NEW r \in Slots, RunnerCommit(r), Exists
        PROVE  task'[s][k] = task[s][k] \/ task'[s][k].saves = "pending"
      BY <1>t, <2>4 DEF RunnerCommit, NoTask
  <2>5. ASSUME NEW r \in Slots, RunnerJoin(r)
        PROVE  task'[s][k] = task[s][k] \/ task'[s][k].saves = "pending"
      BY <1>t, <2>5 DEF RunnerJoin, NoTask
  <2>6. CASE Restart
    <3>1. task'[s][k].saves = "pending"
        BY <2>6 DEF Restart, NoTask
    <3> QED
        BY <2>2, <3>1
  <2>7. CASE Bystands
      BY <2>1, <2>7 DEF Bystands
  <2> QED
      BY <2>1, <2>2, <2>3, <2>4, <2>5, <2>6, <2>7, Bystanders
<1>2. \A r \in Slots : runner'[r].write = "succeeded" => \A m \in Members : Migrated(m)'
  <2> SUFFICES ASSUME NEW s \in Slots
               PROVE  runner'[s].write = "succeeded" => \A m \in Members : Migrated(m)'
      OBVIOUS
  <2>1. CASE runner'[s].write = runner[s].write
      BY <1>s, <1>m, <2>1
  <2>2. CASE runner'[s].write = "deleted"
      BY <2>2
  <2>3. ASSUME NEW r \in Slots, EndRunner(r)
        PROVE  runner'[s].write \in {runner[s].write, "deleted"}
    <3>1. runner'[r] \in {NoRunner, [NoRunner EXCEPT !.pc = "done"]}
          /\ \A q \in Slots : q /= r => runner'[q] = runner[q]
        BY <1>t, <2>3, EndRunnerType
    <3> QED
        BY <3>1 DEF NoRunner
  <2>4. CASE Kick
    <3>1. CASE UNCHANGED runner
        BY <2>1, <3>1
    <3>2. ASSUME NEW r \in Slots, runner' = [runner EXCEPT ![r].pc = "read"]
          PROVE  runner'[s].write = runner[s].write
        BY <1>t, <3>2 DEF RunnerType
    <3> QED
        BY <2>1, <2>4, <3>1, <3>2, KickFacts
  <2>5. CASE SchedulerKick \/ KickNow
      BY <2>4, <2>5 DEF SchedulerKick, KickNow
  <2>6. ASSUME NEW r \in Slots, RunnerRead(r), ~EndRunner(r)
        PROVE  runner'[s].write = runner[s].write
      BY <1>t, <2>6 DEF RunnerRead, RunnerType
  <2>7. ASSUME NEW r \in Slots, RunnerCommit(r), ~EndRunner(r)
        PROVE  runner'[s].write = runner[s].write
      BY <1>t, <2>7 DEF RunnerCommit, RunnerType
  <2>8. ASSUME NEW r \in Slots, RunnerJoin(r), ~EndRunner(r)
        PROVE  runner'[s].write = "succeeded" => \A m \in Members : Migrated(m)'
    <3>1. PICK rd : runner' = [runner EXCEPT ![r].pc = "finish", ![r].read = rd,
                      ![r].write = IF row.status = "canceled" THEN "canceled" ELSE FinalStatus(row.members)]
        BY <2>8 DEF RunnerJoin
    <3>2. /\ s /= r => runner'[s] = runner[s]
          /\ s = r => runner'[s].write \in {"canceled", FinalStatus(row.members)}
        BY <1>t, <3>1 DEF RunnerType
    <3>3. FinalStatus(row.members) = "succeeded" => \A m \in Members : Migrated(m)
        BY <1>s, AllSucceeded
    <3> QED
        BY <1>s, <1>m, <3>2, <3>3
  <2>9. ASSUME NEW r \in Slots, DoneCallback(r)
        PROVE  runner'[s].write \in {runner[s].write, "deleted"}
      BY <1>t, <2>9 DEF DoneCallback, NoRunner
  <2>10. CASE Restart
    <3>1. runner'[s].write = "deleted"
        BY <2>10 DEF Restart, NoRunner
    <3> QED
        BY <2>2, <3>1
  <2>11. ASSUME NEW r \in Slots, NEW m \in Members, TaskStep(r, m)
         PROVE  runner'[s].write = runner[s].write
    <3>1. PICK x \in TaskType, b \in BOOLEAN : MemberStep(r, m, x, b)
        BY <2>11, MemberSteps
    <3> QED
        BY <1>t, <3>1, StopStep DEF MemberStep
  <2>12. \/ UNCHANGED runner \/ Restart \/ SchedulerKick \/ KickNow
         \/ \E r \in Slots : \/ RunnerRead(r) \/ RunnerCommit(r) \/ RunnerJoin(r) \/ EndRunner(r)
                             \/ DoneCallback(r) \/ \E m \in Members : TaskStep(r, m)
      BY DEF Next, vars, procVars, SchedulerStep, Tick, SchedulerRead, SchedulerCommit,
             RequestStep, RunCommit, CancelCommit, DeleteCommit, Users, RunNow, Cancel, Delete,
             Receive, RunnerStep, RunnerFinish, MigrationEnds
  <2> QED
      BY <2>1, <2>2, <2>3, <2>5, <2>6, <2>7, <2>8, <2>9, <2>10, <2>11, <2>12
<1>3. \A u \in updates', m \in Members : u.read[m] = "succeeded" => Migrated(m)'
  <2>1. ASSUME NEW u \in updates', NEW w \in updates, u.read = w.read
        PROVE  \A m \in Members : u.read[m] = "succeeded" => Migrated(m)'
      BY <1>s, <1>m, <2>1
  <2>2. ASSUME NEW r \in Slots, updates' = {[u EXCEPT !.dropped = TRUE] : u \in updates}
        PROVE  \A u \in updates' : \E w \in updates : u.read = w.read
    <3>1. \A u \in updates : [u EXCEPT !.dropped = TRUE].read = u.read
        BY <1>t DEF UpdateType
    <3> QED
        BY <2>2, <3>1
  <2>3. ASSUME NEW r \in Slots, NEW m \in Members, TaskStep(r, m)
        PROVE  \A u \in updates' : u.read = row.members \/ \E w \in updates : u.read = w.read
    <3>1. PICK x \in TaskType, b \in BOOLEAN : MemberStep(r, m, x, b)
        BY <2>3, MemberSteps
    <3> QED
        BY <3>1 DEF MemberStep, Leaves, Reads, Writes
  <2>4. \A u \in updates' : u.read = row.members \/ \E w \in updates : u.read = w.read
      BY <2>2, <2>3, UpdateSteps
  <2> QED
      BY <1>s, <1>m, <2>4
<1>4. \A m \in Members : req'.read.members[m] = "succeeded" => Migrated(m)'
  <2>1. \/ req' = req \/ req' = NoRequest \/ req'.read = NoRow
        \/ req'.read = row
    <3>1. ASSUME NEW r \in Slots, NEW m \in Members, TaskStep(r, m) PROVE req' = req
        BY <3>1, MemberSteps DEF MemberStep
    <3>2. CASE RunCommit
        BY <1>t, <3>2 DEF RunCommit, RequestType
    <3>3. CASE RunNow \/ Cancel \/ Delete
        BY <3>3 DEF RunNow, Cancel, Delete, Receive
    <3>4. CASE CancelCommit \/ DeleteCommit \/ KickNow \/ Restart
        BY <3>4 DEF CancelCommit, DeleteCommit, KickNow, Restart
    <3> QED
        BY <3>1, <3>2, <3>3, <3>4
           DEF Next, vars, procVars, SchedulerStep, Tick, SchedulerRead, SchedulerCommit, SchedulerKick,
               RequestStep, Users, RunnerStep, RunnerRead, RunnerCommit, RunnerJoin, RunnerFinish,
               DoneCallback, MigrationEnds
  <2>2. \A m \in Members : NoRow.members[m] = "pending" /\ NoRequest.read = NoRow
      BY DEF NoRow, NoRequest, AllPending
  <2> QED
      BY <1>s, <1>m, <2>1, <2>2
<1>5. /\ \A m \in Members : row'.members[m] = "succeeded" => Migrated(m)'
      /\ row'.status = "succeeded" => \A m \in Members : Migrated(m)'
  <2>1. ASSUME row'.members = row.members, row'.status /= "succeeded" \/ row'.status = row.status
        PROVE  /\ \A m \in Members : row'.members[m] = "succeeded" => Migrated(m)'
               /\ row'.status = "succeeded" => \A m \in Members : Migrated(m)'
      BY <1>s, <1>m, <2>1
  <2>2. CASE SchedulerCommit \/ CancelCommit \/ DeleteCommit
    <3>1. row' = row \/ \E st \in {"pending", "canceled", "deleted"} : row' = [row EXCEPT !.status = st]
        BY <2>2 DEF SchedulerCommit, CancelCommit, DeleteCommit
    <3> QED
        BY <1>t, <2>1, <3>1 DEF RowType
  <2>3. CASE RunCommit
    <3> DEFINE reset == ResetMembers(req.read.members)
               flushed == Flush(req.read, [status |-> "pending", members |-> reset])
    <3>1. row' = row \/ \E members \in {reset, flushed.members} :
             row' = [status |-> IF req.read.status = "pending" THEN row.status ELSE "pending",
                     members |-> members]
        BY <2>3 DEF RunCommit
    <3>2. flushed.members \in {reset, row.members}
        BY <1>t, FlushFacts
    <3>3. row'.members \in {reset, row.members} /\ row'.status \in {"pending", row.status}
      <4> HIDE DEF reset, flushed
      <4> QED
          BY <3>1, <3>2
    <3>4. \A m \in Members : reset[m] = "succeeded" => req.read.members[m] = "succeeded"
        BY DEF ResetMembers
    <3> HIDE DEF reset
    <3> QED
        BY <1>s, <1>m, <3>3, <3>4
  <2>4. ASSUME NEW r \in Slots, RunnerCommit(r)
        PROVE  row' = row \/ (row'.members = row.members /\ row'.status \in {"running", row.status})
    <3> DEFINE read == runner[r].read
               new == [read EXCEPT !.status = "running"]
    <3>1. new.status = "running" /\ new.members = read.members
        BY <1>t DEF RunnerType, RowType
    <3>2. row' = row \/ row' = Flush(read, new)
        BY <2>4 DEF RunnerCommit
    <3> HIDE DEF new, read
    <3> QED
        BY <1>t, <3>1, <3>2, FlushFacts
  <2>5. ASSUME NEW r \in Slots, RunnerFinish(r)
        PROVE  row' = row \/ (row'.members = row.members /\ row'.status \in {runner[r].write, row.status})
    <3> DEFINE read == runner[r].read
               new == [read EXCEPT !.status = runner[r].write]
    <3>1. new.status = runner[r].write /\ new.members = read.members
        BY <1>t DEF RunnerType, RowType
    <3>2. row' = row \/ row' = Flush(read, new)
        BY <2>5 DEF RunnerFinish
    <3> HIDE DEF new, read
    <3> QED
        BY <1>t, <3>1, <3>2, FlushFacts
  <2>6. ASSUME NEW r \in Slots, RunnerFinish(r)
        PROVE  /\ \A m \in Members : row'.members[m] = "succeeded" => Migrated(m)'
               /\ row'.status = "succeeded" => \A m \in Members : Migrated(m)'
      BY <1>s, <1>m, <2>5, <2>6
  <2>7. ASSUME NEW r \in Slots, NEW m \in Members, TaskStep(r, m)
        PROVE  /\ \A k \in Members : row'.members[k] = "succeeded" => Migrated(k)'
               /\ row'.status = "succeeded" => \A k \in Members : Migrated(k)'
    <3>1. PICK x \in TaskType, b \in BOOLEAN : MemberStep(r, m, x, b)
        BY <2>7, MemberSteps
    <3>2. CASE row' = row
        BY <2>1, <3>2
    <3>3. ASSUME NEW u \in updates, row' = [row EXCEPT !.members = [u.read EXCEPT ![m] = task[r][m].saves]]
          PROVE  /\ row'.status = row.status
                 /\ \A k \in Members : row'.members[k] = IF k = m THEN task[r][m].saves ELSE u.read[k]
        BY <1>t, <3>3 DEF RowType, UpdateType
    <3> QED
        BY <1>s, <1>m, <3>1, <3>2, <3>3 DEF MemberStep, Leaves, Reads, Writes
  <2>8. CASE UNCHANGED row
      BY <2>1, <2>8
  <2>9. \/ UNCHANGED row \/ SchedulerCommit \/ CancelCommit \/ DeleteCommit \/ RunCommit
        \/ \E r \in Slots : \/ RunnerCommit(r) \/ RunnerFinish(r) \/ \E m \in Members : TaskStep(r, m)
      BY DEF Next, vars, procVars, SchedulerStep, Tick, SchedulerRead, SchedulerKick,
             RequestStep, KickNow, Users, RunNow, Cancel, Delete, Receive, Restart,
             RunnerStep, RunnerRead, RunnerJoin, DoneCallback, MigrationEnds
  <2> QED
      BY <2>1, <2>2, <2>3, <2>4, <2>6, <2>7, <2>8, <2>9
<1> QED
    BY <1>1, <1>2, <1>3, <1>4, <1>5 DEF SuccessesTrue, Truly

-----------------------------------------------------------------------------
(* The semaphore.                                                          *)

\* Sets of members are counted.
LEMMA Few ==
    ASSUME NEW S \in SUBSET Members
    PROVE  /\ IsFiniteSet(S) /\ Cardinality(S) \in Nat
           /\ \A T \in SUBSET S : Cardinality(T) <= Cardinality(S) /\ Cardinality(T) \in Nat
           /\ \A m \in Members : Cardinality(S \union {m}) <= Cardinality(S) + 1
           /\ \A m \in S : Cardinality(S \ {m}) = Cardinality(S) - 1
           /\ S = {} => Cardinality(S) = 0
<1>1. IsFiniteSet(Members)
    BY BoundAssumption, FS_Interval DEF Members
<1>2. IsFiniteSet(S) /\ \A T \in SUBSET S : IsFiniteSet(T) /\ Cardinality(T) <= Cardinality(S)
    BY <1>1, FS_Subset
<1>3. Cardinality(S) \in Nat /\ \A T \in SUBSET S : Cardinality(T) \in Nat
    BY <1>2, FS_CardinalityType
<1>4. \A m \in Members : Cardinality(S \union {m}) <= Cardinality(S) + 1
    BY <1>2, <1>3, FS_AddElement
<1>5. \A m \in S : Cardinality(S \ {m}) = Cardinality(S) - 1
    BY <1>2, <1>3, FS_RemoveElement
<1>6. S = {} => Cardinality(S) = 0
    BY FS_EmptySet
<1> QED
    BY <1>2, <1>3, <1>4, <1>5, <1>6

\* A group is canceled by its cancellation, and only members' steps are late.
LEMMA Cancels ==
    ASSUME TypeOK, [Next]_vars, ~\E r \in Slots, m \in Members : TaskStep(r, m)
    PROVE  late' = 0 \/ (late' = late /\ (row'.status = "canceled" => row.status = "canceled"))
<1>t. row \in RowType /\ runner \in [Slots -> RunnerType]
    BY DEF TypeOK
<1>1. CASE UNCHANGED <<row, late>>
    BY <1>1
<1>2. CASE SchedulerCommit
    BY <1>2, <1>t DEF SchedulerCommit, RowType
<1>3. CASE RunCommit \/ CancelCommit
    BY <1>3 DEF RunCommit, CancelCommit
<1>4. CASE DeleteCommit
    BY <1>4, <1>t DEF DeleteCommit, RowType
<1>5. ASSUME NEW r \in Slots, RunnerCommit(r)
      PROVE  late' = late /\ (row'.status = "canceled" => row.status = "canceled")
  <2> DEFINE read == runner[r].read
             new == [read EXCEPT !.status = "running"]
  <2>1. new.status = "running"
      BY <1>t DEF RunnerType, RowType
  <2>2. late' = late /\ (row' = row \/ row' = Flush(read, new))
      BY <1>5 DEF RunnerCommit
  <2> HIDE DEF new, read
  <2> QED
      BY <1>t, <2>1, <2>2, FlushFacts
<1>6. ASSUME NEW r \in Slots, RunnerFinish(r)
      PROVE  late' = late /\ (row'.status = "canceled" => row.status = "canceled")
  <2> DEFINE read == runner[r].read
             new == [read EXCEPT !.status = runner[r].write]
  <2>1. new.status = runner[r].write
      BY <1>t DEF RunnerType, RowType
  <2>2. late' = late /\ (row' = row \/ (row' = Flush(read, new) /\ runner[r].write /= "canceled"))
      BY <1>6 DEF RunnerFinish
  <2> HIDE DEF new, read
  <2> QED
      BY <1>t, <2>1, <2>2, FlushFacts
<1>7. \/ UNCHANGED <<row, late>> \/ SchedulerCommit \/ CancelCommit \/ DeleteCommit \/ RunCommit
      \/ \E r \in Slots : RunnerCommit(r) \/ RunnerFinish(r)
    BY DEF Next, vars, procVars, SchedulerStep, Tick, SchedulerRead, SchedulerKick,
           RequestStep, KickNow, Users, RunNow, Cancel, Delete, Receive, Restart,
           RunnerStep, RunnerRead, RunnerJoin, DoneCallback, MigrationEnds
<1> QED
    BY <1>1, <1>2, <1>3, <1>4, <1>5, <1>6, <1>7

\* A step that is not of a member's task leaves a runner's tasks alone, or there
\* are new ones, or none.
LEMMA SlotSteps ==
    ASSUME TypeOK, [Next]_vars, ~\E r \in Slots, m \in Members : TaskStep(r, m), NEW s \in Slots
    PROVE  \/ /\ task'[s] = task[s]
              /\ runner'[s].pc = "tasks" => runner'[s] = runner[s]
           \/ \A m \in Members : task'[s][m].pc \in {"off", "queued"} /\ task'[s][m].saves = "pending"
<1>t. runner \in [Slots -> RunnerType] /\ task \in [Slots -> [Members -> TaskType]]
    BY DEF TypeOK
<1>1. CASE Bystands
    BY <1>1 DEF Bystands
<1>2. CASE Restart
    BY <1>2 DEF Restart, NoTask
<1>3. ASSUME NEW r \in Slots, RunnerCommit(r), Exists
      PROVE  \/ task'[s] = task[s] /\ runner'[s] = runner[s]
             \/ \A m \in Members : task'[s][m].pc \in {"off", "queued"} /\ task'[s][m].saves = "pending"
    BY <1>3, <1>t DEF RunnerCommit, NoTask
<1>4. ASSUME NEW r \in Slots, RunnerJoin(r)
      PROVE  \/ task'[s] = task[s] /\ runner'[s] = runner[s]
             \/ \A m \in Members : task'[s][m].pc \in {"off", "queued"} /\ task'[s][m].saves = "pending"
    BY <1>4, <1>t DEF RunnerJoin, NoTask, EndRunner
<1> QED
    BY <1>1, <1>2, <1>3, <1>4, Bystanders

\* The semaphore is free initially ...
LEMMA SlotsInit == Init => SlotsBounded
<1> SUFFICES ASSUME Init PROVE SlotsBounded
    OBVIOUS
<1>1. opt.concurrency \in Nat \ {0}
    BY OptionAssumption DEF Init, OptionType
<1>2. \A r \in Slots : InFlight(r) = {} /\ Busy(r) = {} /\ Launching(r) = {}
    BY DEF Init, InFlight, Busy, Launching, NoTask
<1>3. Cardinality({}) = 0
    BY FS_EmptySet
<1>4. late = 0 /\ \A r \in Slots : runner[r].pc = "off"
    BY DEF Init, NoRunner
<1>5. LateBounded
    BY <1>1, <1>4 DEF LateBounded
<1>6. ASSUME NEW r \in Slots PROVE Bounded(r)
  <2>1. Cardinality(InFlight(r)) = 0 /\ Cardinality(Launching(r)) = 0
      BY <1>2, <1>3
  <2> QED
      BY <1>1, <1>4, <2>1 DEF Bounded
<1> QED
    BY <1>5, <1>6 DEF SlotsBounded

\* What the step of a task does to its fields.
LEMMA MoveFields ==
    ASSUME NEW t \in TaskType, NEW x \in TaskType, Move(t, x)
    PROVE  \/ t.pc = "queued" /\ x.pc = "update" /\ x.saves = "skipped"
           \/ t.pc = "queued" /\ x.pc = "launch" /\ x.saves = t.saves
           \/ t.pc = "launch" /\ x.pc \in {"off", "update"} /\ x.saves = "failed"
           \/ t.pc = "launch" /\ x.pc = "update" /\ x.saves = "running" /\ x.mig = Len(migs) + 1
           \/ t.pc = "update" /\ x.pc = "write" /\ x.saves = t.saves /\ x.mig = t.mig
           \/ t.pc \in {"update", "write"} /\ x.pc = "poll" /\ t.saves = "running"
              /\ x.saves = t.saves /\ x.mig = t.mig
           \/ t.pc \in {"update", "write"} /\ x.pc = "off" /\ t.saves /= "running" /\ x.saves = t.saves
           \/ /\ t.pc = "poll" /\ x.pc = "update" /\ x.saves \in {"succeeded", "failed", "rolled_back"}
              /\ ~opt.timeouts => migs[t.mig].status = x.saves
<1>1. CASE t.pc = "queued" /\ x = [t EXCEPT !.pc = "update", !.saves = "skipped"]
    BY <1>1 DEF TaskType, NoTask
<1>2. CASE t.pc = "queued" /\ x = [t EXCEPT !.pc = "launch"]
    BY <1>2 DEF TaskType, NoTask
<1>3. CASE t.pc = "launch" /\ x = [NoTask EXCEPT !.saves = "failed"]
    BY <1>3 DEF TaskType, NoTask
<1>4. CASE t.pc = "launch" /\ x = [t EXCEPT !.pc = "update", !.saves = "failed"]
    BY <1>4 DEF TaskType, NoTask
<1>5. CASE t.pc = "launch" /\ x = [pc |-> "update", mig |-> Len(migs) + 1, saves |-> "running"]
    BY <1>5 DEF TaskType, NoTask
<1>6. CASE t.pc = "update" /\ x = [t EXCEPT !.pc = "write"]
    BY <1>6 DEF TaskType, NoTask
<1>7. CASE t.pc \in {"update", "write"} /\ t.saves = "running" /\ x = [t EXCEPT !.pc = "poll"]
    BY <1>7 DEF TaskType, NoTask
<1>8. CASE t.pc \in {"update", "write"} /\ t.saves /= "running" /\ x = [NoTask EXCEPT !.saves = t.saves]
    BY <1>8 DEF TaskType, NoTask
<1>9. ASSUME NEW st \in {"succeeded", "failed", "rolled_back"}, t.pc = "poll",
             x = [t EXCEPT !.pc = "update", !.saves = st],
             ~opt.timeouts \/ st = "succeeded" => migs[t.mig].status = st
      PROVE  /\ t.pc = "poll" /\ x.pc = "update" /\ x.saves \in {"succeeded", "failed", "rolled_back"}
             /\ ~opt.timeouts => migs[t.mig].status = x.saves
    BY <1>9 DEF TaskType
<1> QED
    BY <1>1, <1>2, <1>3, <1>4, <1>5, <1>6, <1>7, <1>8, <1>9, Zenon DEF Move

\* ... bounds its runner's members in a step of one of them ...
LEMMA SlotsMember ==
    ASSUME TypeOK, TasksFit, UpdatesFit, Single, SlotsBounded,
           NEW r \in Slots, NEW m \in Members, TaskStep(r, m)
    PROVE  SlotsBounded'
<1>1. PICK x \in TaskType, b \in BOOLEAN : MemberStep(r, m, x, b)
    BY MemberSteps
<1> DEFINE t == task[r][m]
<1>t. /\ runner \in [Slots -> RunnerType] /\ task \in [Slots -> [Members -> TaskType]]
      /\ row \in RowType /\ late \in Nat /\ opt.concurrency \in Nat \ {0}
    BY BoundAssumption, OptionAssumption DEF TypeOK, OptionType
<1>2. /\ task'[r][m] = x /\ Move(t, x) /\ opt' = opt
      /\ \A s \in Slots, k \in Members : s /= r \/ k /= m => task'[s][k] = task[s][k]
      /\ runner'[r].stop = b /\ runner'[r].pc = runner[r].pc
      /\ \A s \in Slots : s /= r => runner'[s] = runner[s]
    BY <1>1, <1>t, OneTask, StopStep DEF MemberStep
<1>3. row'.status = row.status
    BY <1>1, <1>t DEF MemberStep, Leaves, Reads, Writes, RowType
<1>4. t \in TaskType /\ TaskFits(r, m)
    BY <1>t DEF TasksFit
<1>5. /\ t.pc /= "off" /\ x.pc /= "queued" /\ (x.pc = "launch" => t.pc = "queued" /\ ~Skips(r))
      /\ t.pc = "queued" => FreeSlot(r) /\ x.pc /= "off" /\ (x.pc = "launch" \/ x.saves = "skipped")
      /\ t.pc /= "queued" => x.saves = t.saves \/ t.saves /= "skipped"
      /\ x.pc = "update" /\ x.saves = "running" => t.pc = "launch"
      /\ b => runner[r].stop \/ x.pc = "off"
      /\ x.pc = "off" /\ x.saves \in {"failed", "rolled_back"} /\ ~opt.continueOnError => b
    BY <1>1, <1>2, <1>4, MoveFields DEF MemberStep, TaskFits
<1>6. late' = late \/ (t.pc = "launch" /\ x.pc = "update" /\ late' = late + 1)
    BY <1>1, <1>5 DEF MemberStep, Launches
<1> DEFINE F == InFlight(r)
           B == Busy(r)
           L == Launching(r)
<1>7. /\ F \subseteq Members /\ B \subseteq F /\ L \subseteq F
      /\ t.pc /= "queued" => m \in F
      /\ t.pc = "launch" => m \in L
    BY <1>5 DEF InFlight, Busy, Launching
<1>8. /\ F' = IF x.pc = "off" THEN F \ {m} ELSE F \union {m}
      /\ x.pc /= "launch" => L' = L \ {m}
    BY <1>2, <1>5 DEF InFlight, Launching
<1>9. runner[r].stop => B' \subseteq B
    BY <1>2, <1>5 DEF InFlight, Busy, Skips
<1>10. B' \subseteq F'
    BY DEF Busy
<1> HIDE DEF F, B, L
<1>11. /\ Cardinality(F) \in Nat /\ Cardinality(L) \in Nat /\ Cardinality(B) \in Nat
       /\ Cardinality(F') \in Nat /\ Cardinality(L') \in Nat /\ Cardinality(B') \in Nat
       /\ Cardinality(B') <= Cardinality(F')
       /\ B' \subseteq B => Cardinality(B') <= Cardinality(B)
       /\ m \in F => Cardinality(F \ {m}) = Cardinality(F) - 1
       /\ Cardinality(F \union {m}) <= Cardinality(F) + 1
       /\ m \in F => F \union {m} = F
       /\ m \in L => Cardinality(L \ {m}) = Cardinality(L) - 1 /\ Cardinality(L) >= 1
       /\ L' \subseteq L => Cardinality(L') <= Cardinality(L)
  <2>1. F \in SUBSET Members /\ L \in SUBSET Members /\ B \in SUBSET Members
        /\ F' \in SUBSET Members /\ L' \in SUBSET Members /\ B' \in SUBSET Members
      BY DEF F, L, B, InFlight, Launching, Busy
  <2>2. m \in L => L \ {m} \in SUBSET L
      OBVIOUS
  <2>3. m \in L => Cardinality(L \ {m}) = Cardinality(L) - 1 /\ Cardinality(L \ {m}) \in Nat
                  /\ Cardinality(L) \in Nat
      BY <2>1, <2>2, Few
  <2> QED
      BY <1>7, <1>10, <2>1, <2>3, Few
<1>12. /\ Cardinality(F) <= opt.concurrency
       /\ t.pc = "queued" => Cardinality(F) < opt.concurrency
       /\ runner[r].pc = "tasks" /\ ~opt.continueOnError =>
             /\ runner[r].stop => Cardinality(B) < opt.concurrency
             /\ \A k \in Members :
                   task[r][k].pc = "off" /\ task[r][k].saves \in {"failed", "rolled_back"} => runner[r].stop
       /\ row.status = "canceled" /\ ~opt.lag => late + Cardinality(L) <= opt.concurrency
       /\ row.status = "canceled" /\ ~opt.lag => late <= opt.concurrency
  <2>1. Bounded(r) /\ LateBounded
      BY DEF SlotsBounded
  <2> QED
      BY <1>5, <2>1 DEF F, B, L, LateBounded, Bounded, FreeSlot
<1>13. LateBounded'
  <2> SUFFICES ASSUME row'.status = "canceled", ~opt'.lag PROVE late' <= opt'.concurrency
      BY DEF LateBounded
  <2>1. row.status = "canceled" /\ ~opt.lag /\ opt' = opt
      BY <1>2, <1>3
  <2>2. late <= opt.concurrency /\ late + Cardinality(L) <= opt.concurrency
      BY <1>12, <2>1
  <2>3. t.pc = "launch" => Cardinality(L) >= 1
      BY <1>7, <1>11
  <2>4. late' <= opt.concurrency
      BY <1>t, <1>6, <1>11, <2>2, <2>3
  <2> QED
      BY <2>1, <2>4
<1>14. Bounded(r)'
  <2>1. Cardinality(F') <= opt.concurrency
    <3>1. CASE x.pc = "off"
      <4>1. m \in F /\ F' = F \ {m}
          BY <1>5, <1>7, <1>8, <3>1
      <4> QED
          BY <1>t, <1>11, <1>12, <4>1
    <3>2. CASE t.pc = "queued"
      <4>1. F' = F \union {m}
          BY <1>5, <1>8, <3>2
      <4> QED
          BY <1>t, <1>11, <1>12, <3>2, <4>1
    <3>3. CASE x.pc /= "off" /\ t.pc /= "queued"
      <4>1. F' = F
          BY <1>7, <1>8, <1>11, <3>3
      <4> QED
          BY <1>12, <4>1
    <3> QED
        BY <3>1, <3>2, <3>3
  <2>2. ASSUME runner[r].pc = "tasks", ~opt.continueOnError, b PROVE Cardinality(B') < opt.concurrency
    <3>1. CASE runner[r].stop
        BY <1>t, <1>9, <1>11, <1>12, <2>2, <3>1
    <3>2. CASE x.pc = "off"
        BY <1>t, <1>5, <1>7, <1>8, <1>11, <1>12, <2>2, <3>2
    <3> QED
        BY <1>5, <2>2, <3>1, <3>2
  <2>3. ASSUME runner[r].pc = "tasks", ~opt.continueOnError, NEW k \in Members,
               task'[r][k].pc = "off", task'[r][k].saves \in {"failed", "rolled_back"}
        PROVE  b
    <3>1. CASE k = m
        BY <1>2, <1>5, <2>3, <3>1
    <3>2. CASE k /= m
      <4>1. runner[r].stop
          BY <1>2, <1>12, <2>3, <3>2
      <4> QED
          BY <1>1, <4>1 DEF MemberStep
    <3> QED
        BY <3>1, <3>2
  <2>4. ASSUME row.status = "canceled", ~opt.lag PROVE late' + Cardinality(L') <= opt.concurrency
    <3>1. x.pc /= "launch"
        BY <1>5, <2>4 DEF Skips
    <3>2. L' = L \ {m}
        BY <1>8, <3>1
    <3> QED
        BY <1>t, <1>6, <1>7, <1>11, <1>12, <2>4, <3>2
  <2> QED
      BY <1>2, <1>3, <2>1, <2>2, <2>3, <2>4 DEF Bounded, F, B, L
<1>15. ASSUME NEW s \in Slots, s /= r PROVE Bounded(s)'
  <2>1. /\ InFlight(s)' = InFlight(s) /\ Busy(s)' = Busy(s) /\ Launching(s)' = Launching(s)
        /\ runner'[s] = runner[s]
      BY <1>2, <1>15 DEF InFlight, Busy, Launching
  <2>2. ASSUME row.status = "canceled", ~opt.lag
        PROVE  late' + Cardinality(Launching(s)) <= opt.concurrency
    <3>1. CASE late' = late
        BY <2>2, <3>1 DEF SlotsBounded, Bounded
    <3>2. CASE t.pc = "launch" /\ x.pc = "update" /\ late' = late + 1
      <4>1. runner[r].pc = "tasks"
          BY <1>4, <3>2 DEF TaskFits
      <4>2. runner[s].pc = "off"
          BY <1>15, <2>2, <4>1 DEF Single
      <4>3. Launching(s) = {}
          BY <4>2 DEF Launching, TasksFit, TaskFits
      <4>4. Cardinality(Launching(s)) = 0
          BY <4>3, FS_EmptySet
      <4>5. m \in L /\ late + Cardinality(L) <= opt.concurrency /\ Cardinality(L \ {m}) = Cardinality(L) - 1
            /\ Cardinality(L \ {m}) \in Nat
        <5>1. L \ {m} \in SUBSET Members
            BY DEF L, Launching
        <5> QED
            BY <1>7, <1>11, <1>12, <2>2, <3>2, <5>1, Few
      <4> QED
          BY <1>t, <1>11, <3>2, <4>4, <4>5
    <3> QED
        BY <1>6, <3>1, <3>2
  <2> QED
      BY <1>2, <1>3, <1>15, <2>1, <2>2 DEF SlotsBounded, Bounded
<1> QED
    BY <1>13, <1>14, <1>15 DEF SlotsBounded

\* ... and in every other step.
LEMMA SlotsNext ==
    TypeOK /\ TasksFit /\ UpdatesFit /\ Single /\ SlotsBounded /\ [Next]_vars => SlotsBounded'
<1> SUFFICES ASSUME TypeOK, TasksFit, UpdatesFit, Single, SlotsBounded, [Next]_vars PROVE SlotsBounded'
    OBVIOUS
<1>1. CASE \E r \in Slots, m \in Members : TaskStep(r, m)
    BY <1>1, SlotsMember
<1>2. CASE ~\E r \in Slots, m \in Members : TaskStep(r, m)
  <2>t. late \in Nat /\ opt.concurrency \in Nat \ {0} /\ opt' = opt
      BY SameOptions, BoundAssumption, OptionAssumption DEF TypeOK, OptionType
  <2>1. late' = 0 \/ (late' = late /\ (row'.status = "canceled" => row.status = "canceled"))
      BY <1>2, Cancels
  <2>2. LateBounded'
      BY <2>t, <2>1 DEF SlotsBounded, LateBounded
  <2>3. ASSUME NEW s \in Slots PROVE Bounded(s)'
    <3> DEFINE F == InFlight(s)
               B == Busy(s)
               L == Launching(s)
    <3>1. /\ Cardinality(L) \in Nat /\ Cardinality(L) <= Cardinality(F) /\ Cardinality(F) \in Nat
          /\ Cardinality({}) = 0
      <4>1. F \in SUBSET Members /\ L \in SUBSET F
          BY DEF InFlight, Launching
      <4> HIDE DEF F, L
      <4> QED
          BY <4>1, Few, FS_EmptySet
    <3>2. CASE task'[s] = task[s] /\ (runner'[s].pc = "tasks" => runner'[s] = runner[s])
      <4>1. F' = F /\ B' = B /\ L' = L
          BY <3>2 DEF InFlight, Busy, Launching
      <4>2. Cardinality(F) <= opt.concurrency
            /\ (row.status = "canceled" /\ ~opt.lag => late + Cardinality(L) <= opt.concurrency)
          BY <2>3 DEF SlotsBounded, Bounded
      <4>3. row'.status = "canceled" /\ ~opt.lag => late' + Cardinality(L) <= opt.concurrency
          BY <2>t, <2>1, <3>1, <4>2
      <4>4. runner'[s].pc = "tasks" /\ ~opt.continueOnError =>
              /\ runner'[s].stop => Cardinality(B) < opt.concurrency
              /\ \A m \in Members :
                task'[s][m].pc = "off" /\ task'[s][m].saves \in {"failed", "rolled_back"} => runner'[s].stop
          BY <2>3, <3>2 DEF SlotsBounded, Bounded
      <4> QED
          BY <2>t, <4>1, <4>2, <4>3, <4>4 DEF Bounded
    <3>3. CASE \A m \in Members : task'[s][m].pc \in {"off", "queued"} /\ task'[s][m].saves = "pending"
      <4>1. F' = {} /\ B' = {} /\ L' = {}
          BY <3>3 DEF InFlight, Busy, Launching
      <4>2. row'.status = "canceled" /\ ~opt.lag => late' <= opt.concurrency
          BY <2>t, <2>2 DEF LateBounded
      <4>3. late' \in Nat
          BY <2>t, <2>1
      <4>4. Cardinality(F') = 0 /\ Cardinality(B') = 0 /\ Cardinality(L') = 0
          BY <3>1, <4>1
      <4> HIDE DEF F, B, L
      <4>5. \A m \in Members : task'[s][m].saves \notin {"failed", "rolled_back"}
          BY <3>3
      <4> QED
          BY <2>t, <4>2, <4>3, <4>4, <4>5 DEF Bounded, F, B, L
    <3> QED
        BY <1>2, <2>3, <3>2, <3>3, SlotSteps
  <2> QED
      BY <2>2, <2>3 DEF SlotsBounded
<1> QED
    BY <1>1, <1>2

-----------------------------------------------------------------------------
(* Members on record as running.                                           *)

\* A group that was deleted stays so.
LEMMA NeverRecreated ==
    ASSUME TypeOK, UpdatesFit, [Next]_vars, Exists' PROVE Exists
<1>1. ASSUME NEW r \in Slots, NEW m \in Members, TaskStep(r, m), ~Exists PROVE UNCHANGED row
    BY <1>1, MemberSteps DEF MemberStep, Leaves, Reads, Writes
<1>2. ASSUME ~Exists, ~\E r \in Slots, m \in Members : TaskStep(r, m) PROVE row' = row \/ ~Exists'
  <2>1. CASE DeleteCommit
      BY <2>1 DEF DeleteCommit, Exists, TypeOK, RowType
  <2> QED
      BY <1>2, <2>1
         DEF Next, vars, procVars, SchedulerStep, Tick, SchedulerRead, SchedulerCommit, SchedulerKick,
             RequestStep, RunCommit, CancelCommit, KickNow, Users, RunNow, Cancel, Delete, Receive, Restart,
             RunnerStep, RunnerRead, RunnerCommit, RunnerJoin, RunnerFinish, DoneCallback, MigrationEnds
<1> QED
    BY <1>1, <1>2 DEF Exists

\* No member is on record as running initially ...
LEMMA RecordingsInit == Init => RecordingsDue
<1> SUFFICES ASSUME Init PROVE RecordingsDue
    OBVIOUS
<1>1. row.status \notin Ended /\ updates = {} /\ \A m \in Members : row.members[m] /= "running"
    BY DEF Init, Ended, AllPending
<1> QED
    BY <1>1 DEF RecordingsDue, EndedQuietly, WillRecord

\* ... the steps which begin or end no work leave what is due as it was ...
LEMMA RecordingsStay ==
    ASSUME TypeOK, EndedQuietly, \A r \in Slots, m \in Members : WillRecord(r, m),
           \A u \in updates, m \in Members : WillWrite(u, m),
           row'.status = row.status \/ row'.status \notin Ended,
           \A m \in Members : row'.members[m] = "running" => row.members[m] = "running",
           \A r \in Slots : \/ runner'[r].pc = runner[r].pc /\ runner'[r].read = runner[r].read
                            \/ runner'[r].pc \in {"off", "read"},
           UNCHANGED <<task, updates>>
    PROVE  EndedQuietly' /\ (\A r \in Slots, m \in Members : WillRecord(r, m)')
           /\ \A u \in updates', m \in Members : WillWrite(u, m)'
<1>1. EndedQuietly'
    BY DEF EndedQuietly
<1>2. ASSUME NEW r \in Slots, NEW m \in Members PROVE WillRecord(r, m)'
  <2>1. WillRecord(r, m)
      OBVIOUS
  <2> QED
      BY <2>1 DEF WillRecord
<1>3. \A u \in updates', m \in Members : WillWrite(u, m)'
    BY DEF WillWrite
<1> QED
    BY <1>1, <1>2, <1>3

\* ... and so does every step.
LEMMA RecordingsNext ==
    TypeOK /\ TasksFit /\ UpdatesFit /\ Single /\ RecordingsDue /\ [Next]_vars => RecordingsDue'
<1> SUFFICES ASSUME TypeOK, TasksFit, UpdatesFit, Single, RecordingsDue, [Next]_vars, Exists', ~opt'.lag
             PROVE  EndedQuietly' /\ (\A r \in Slots, m \in Members : WillRecord(r, m)')
                    /\ \A u \in updates', m \in Members : WillWrite(u, m)'
    BY DEF RecordingsDue
<1>o. opt' = opt /\ ~opt.lag /\ Exists
    BY SameOptions, NeverRecreated
<1>t. /\ runner \in [Slots -> RunnerType] /\ task \in [Slots -> [Members -> TaskType]]
      /\ row \in RowType
      /\ \A u \in updates : /\ u \in UpdateType /\ u.slot \in Slots /\ u.member \in Members
                            /\ runner[u.slot].pc = "tasks" /\ task[u.slot][u.member].pc = "write"
    BY DEF TypeOK, UpdateType, UpdatesFit, TasksFit, TaskFits
<1>s. /\ \A r, s \in Slots : runner[r].pc /= "off" /\ s /= r => runner[s].pc = "off"
      /\ \A r \in Slots : runner[r].pc /= "done"
      /\ \A u \in updates : ~u.dropped /\ \A w \in updates : w = u
    BY <1>o DEF Single
<1>d. /\ EndedQuietly /\ \A r \in Slots, m \in Members : WillRecord(r, m)
      /\ \A u \in updates, m \in Members : WillWrite(u, m)
    BY <1>o DEF RecordingsDue
<1>1. CASE UNCHANGED <<row, runner, task, updates>>
    BY <1>1, <1>d, RecordingsStay
<1>2. ASSUME UNCHANGED <<row, task, updates>>, Kick
      PROVE  EndedQuietly' /\ (\A r \in Slots, m \in Members : WillRecord(r, m)')
             /\ \A u \in updates', m \in Members : WillWrite(u, m)'
  <2>1. \A r \in Slots : runner'[r] = runner[r] \/ runner'[r].pc = "read"
    <3>1. ASSUME NEW r \in Slots, runner' = [runner EXCEPT ![r].pc = "read"]
          PROVE  \A s \in Slots : runner'[s] = runner[s] \/ runner'[s].pc = "read"
        BY <1>t, <3>1 DEF RunnerType
    <3> QED
        BY <1>2, <3>1, KickFacts
  <2> QED
      BY <1>2, <1>d, <2>1, RecordingsStay
<1>3. CASE SchedulerKick \/ KickNow
    BY <1>2, <1>3 DEF SchedulerKick, KickNow
<1>4. CASE SchedulerCommit \/ CancelCommit \/ DeleteCommit
  <2>1. row' = row \/ \E st \in {"pending", "canceled", "deleted"} : row' = [row EXCEPT !.status = st]
      BY <1>4 DEF SchedulerCommit, CancelCommit, DeleteCommit
  <2>2. row'.members = row.members /\ (row'.status = row.status \/ row'.status \notin Ended)
      BY <1>t, <2>1 DEF RowType, Ended
  <2>3. UNCHANGED <<runner, task, updates>>
      BY <1>4 DEF SchedulerCommit, CancelCommit, DeleteCommit
  <2> QED
      BY <1>d, <2>2, <2>3, RecordingsStay
<1>5. CASE RunCommit
  <2> DEFINE reset == ResetMembers(req.read.members)
             flushed == Flush(req.read, [status |-> "pending", members |-> reset])
  <2>1. row' = row \/ \E members \in {reset, flushed.members} :
           row' = [status |-> IF req.read.status = "pending" THEN row.status ELSE "pending",
                   members |-> members]
      BY <1>5 DEF RunCommit
  <2>2. flushed.members \in {reset, row.members}
      BY <1>t, FlushFacts
  <2>3. \A m \in Members : reset[m] /= "running"
      BY DEF ResetMembers
  <2> HIDE DEF reset, flushed
  <2>4. row'.members \in {reset, row.members} /\ row'.status \in {"pending", row.status}
      BY <2>1, <2>2
  <2>5. UNCHANGED <<runner, task, updates>>
      BY <1>5 DEF RunCommit
  <2>6. row'.status = row.status \/ row'.status \notin Ended
      BY <2>4 DEF Ended
  <2> QED
      BY <1>d, <2>3, <2>4, <2>5, <2>6, RecordingsStay
<1>6. ASSUME NEW r \in Slots, RunnerRead(r)
      PROVE  EndedQuietly' /\ (\A s \in Slots, m \in Members : WillRecord(s, m)')
             /\ \A u \in updates', m \in Members : WillWrite(u, m)'
  <2>1. UNCHANGED <<row, task, updates>> /\ runner[r].pc = "read"
      BY <1>6 DEF RunnerRead
  <2>2. CASE EndRunner(r)
    <3>1. \A s \in Slots : runner'[s] = runner[s] \/ runner'[s].pc = "off"
        BY <1>o, <1>t, <2>2, EndRunnerFacts DEF NoRunner
    <3> QED
        BY <1>d, <2>1, <3>1, RecordingsStay
  <2>3. CASE ~EndRunner(r)
    <3>1. runner' = [runner EXCEPT ![r].pc = "commit", ![r].read = row] /\ row.status \notin Ended
        BY <1>6, <2>3 DEF RunnerRead, Finished, Ended
    <3>2. runner'[r].pc = "commit" /\ runner'[r].read = row
          /\ \A s \in Slots : s /= r => runner'[s] = runner[s]
        BY <1>t, <3>1 DEF RunnerType
    <3>3. EndedQuietly'
        BY <2>1, <3>1 DEF EndedQuietly
    <3>4. \A s \in Slots, m \in Members : WillRecord(s, m)'
        BY <1>d, <2>1, <3>2 DEF WillRecord
    <3> QED
        BY <1>d, <2>1, <3>3, <3>4 DEF WillWrite
  <2> QED
      BY <2>2, <2>3
<1>7. ASSUME NEW r \in Slots, RunnerCommit(r)
      PROVE  EndedQuietly' /\ (\A s \in Slots, m \in Members : WillRecord(s, m)')
             /\ \A u \in updates', m \in Members : WillWrite(u, m)'
  <2> DEFINE read == runner[r].read
             new == [read EXCEPT !.status = "running"]
  <2>1. new.status = "running" /\ new.members = read.members
      BY <1>t DEF RunnerType, RowType
  <2>2. row' = Flush(read, new) /\ runner[r].pc = "commit" /\ UNCHANGED updates
        /\ runner' = [runner EXCEPT ![r].pc = "tasks", ![r].read = NoRow]
      BY <1>o, <1>7 DEF RunnerCommit
  <2>3. \A m \in Members : read.members[m] = "running" => task'[r][m].pc = "queued"
      BY <1>o, <1>7, <1>t DEF RunnerCommit, Skipped, Terminal, NoTask
  <2> HIDE DEF read, new
  <2>4. row'.members = row.members /\ row'.status \in {"running", row.status}
      BY <1>t, <2>1, <2>2, FlushFacts
  <2>5. updates = {} /\ row.status \notin Ended
      BY <1>d, <1>s, <1>t, <2>2 DEF EndedQuietly
  <2>6. EndedQuietly' /\ \A u \in updates', m \in Members : WillWrite(u, m)'
      BY <2>2, <2>4, <2>5 DEF EndedQuietly, Ended
  <2>7. runner'[r].pc = "tasks" /\ \A s \in Slots : s /= r => runner'[s].pc = "off"
      BY <1>s, <1>t, <2>2 DEF RunnerType
  <2>8. \A m \in Members : row.members[m] = "running" => read.members[m] = "running"
      BY <1>d, <2>2 DEF WillRecord, read
  <2> QED
      BY <2>3, <2>4, <2>6, <2>7, <2>8 DEF WillRecord
<1>8. ASSUME NEW r \in Slots, RunnerJoin(r)
      PROVE  EndedQuietly' /\ (\A s \in Slots, m \in Members : WillRecord(s, m)')
             /\ \A u \in updates', m \in Members : WillWrite(u, m)'
  <2>1. /\ runner[r].pc = "tasks" /\ UNCHANGED <<row, updates>>
        /\ \A m \in Members : task[r][m].pc = "off"
      BY <1>8 DEF RunnerJoin
  <2>2. row.status \notin Ended /\ updates = {} /\ \A m \in Members : row.members[m] /= "running"
    <3>1. row.status \notin Ended
        BY <1>d, <2>1 DEF EndedQuietly
    <3>2. \A m \in Members : row.members[m] /= "running"
        BY <1>d, <2>1 DEF WillRecord
    <3> QED
        BY <1>d, <1>s, <1>t, <2>1, <3>1, <3>2
  <2> QED
      BY <2>1, <2>2 DEF EndedQuietly, WillRecord
<1>9. ASSUME NEW r \in Slots, RunnerFinish(r)
      PROVE  EndedQuietly' /\ (\A s \in Slots, m \in Members : WillRecord(s, m)')
             /\ \A u \in updates', m \in Members : WillWrite(u, m)'
  <2> DEFINE read == runner[r].read
             new == [read EXCEPT !.status = runner[r].write]
  <2>1. new.members = read.members
      BY <1>t DEF RunnerType, RowType
  <2>2. (row' = row \/ row' = Flush(read, new)) /\ runner[r].pc = "finish" /\ EndRunner(r)
      BY <1>9 DEF RunnerFinish
  <2> HIDE DEF read, new
  <2>3. row'.members = row.members
      BY <1>t, <2>1, <2>2, FlushFacts
  <2>4. \A m \in Members : row'.members[m] /= "running"
      BY <1>d, <2>2, <2>3 DEF WillRecord
  <2>5. \A s \in Slots : runner'[s].pc = "off"
      BY <1>o, <1>s, <1>t, <2>2, EndRunnerFacts DEF NoRunner
  <2>6. updates' = {}
    <3>1. updates = {}
        BY <1>s, <1>t, <2>2
    <3> QED
        BY <1>9, <3>1 DEF RunnerFinish
  <2> QED
      BY <2>4, <2>5, <2>6 DEF EndedQuietly, WillRecord
<1>10. CASE Restart
  <2>1. /\ \A s \in Slots : runner'[s].pc = "off"
        /\ UNCHANGED row /\ updates' = {}
      BY <1>10 DEF Restart, NoRunner
  <2> QED
      BY <1>d, <2>1 DEF EndedQuietly, WillRecord
<1>11. ASSUME NEW r \in Slots, NEW m \in Members, TaskStep(r, m)
       PROVE  EndedQuietly' /\ (\A s \in Slots, k \in Members : WillRecord(s, k)')
              /\ \A u \in updates', k \in Members : WillWrite(u, k)'
  <2>1. PICK x \in TaskType, b \in BOOLEAN : MemberStep(r, m, x, b)
      BY <1>11, MemberSteps
  <2> DEFINE t == task[r][m]
  <2>2. /\ task'[r][m] = x /\ Move(t, x) /\ t \in TaskType /\ TaskFits(r, m)
        /\ \A s \in Slots, k \in Members : s /= r \/ k /= m => task'[s][k] = task[s][k]
        /\ \A s \in Slots : runner'[s].pc = runner[s].pc /\ runner'[s].read = runner[s].read
      BY <1>t, <2>1, OneTask, StopStep DEF MemberStep, TasksFit
  <2>3. t.pc /= "off" /\ (t.saves = "running" /\ t.pc = "write" => x.pc /= "off")
      BY <2>2, MoveFields
  <2>4. runner[r].pc = "tasks" /\ row.status \notin Ended
        /\ \A s \in Slots : s /= r => runner'[s].pc = "off"
      BY <1>d, <1>s, <2>2, <2>3 DEF TaskFits, EndedQuietly
  <2>5. row'.status = row.status
      BY <1>t, <2>1 DEF MemberStep, Leaves, Reads, Writes, RowType
  <2>6. EndedQuietly'
      BY <2>4, <2>5 DEF EndedQuietly
  <2>7. ASSUME x.pc /= "off", UNCHANGED row
        PROVE  \A s \in Slots, k \in Members : WillRecord(s, k)'
      BY <1>d, <2>2, <2>4, <2>7 DEF WillRecord
  <2>8. CASE Leaves(t, x)
    <3>1. x.pc /= "off" /\ UNCHANGED <<row, updates>>
        BY <1>o, <2>8 DEF Leaves
    <3>2. \A u \in updates', k \in Members : WillWrite(u, k)'
        BY <1>d, <1>t, <2>2, <3>1 DEF WillWrite
    <3> QED
        BY <2>6, <2>7, <3>1, <3>2
  <2>9. CASE Reads(r, m, t, x)
    <3> DEFINE n == [slot |-> r, member |-> m, read |-> row.members, dropped |-> FALSE]
    <3>1. UNCHANGED row /\ x.pc = "write" /\ updates' = updates \union {n} /\ updates = {}
        BY <1>s, <2>2, <2>9 DEF Reads, TaskType
    <3>2. n.slot = r /\ n.read = row.members
        OBVIOUS
    <3> HIDE DEF n
    <3>3. \A u \in updates', k \in Members : WillWrite(u, k)'
        BY <1>d, <2>2, <2>4, <3>1, <3>2 DEF WillWrite, WillRecord
    <3> QED
        BY <2>6, <2>7, <3>1, <3>3
  <2>10. CASE Writes(r, m, t, x)
    <3>1. PICK u \in updates :
              /\ u.slot = r /\ u.member = m /\ t.pc = "write" /\ updates' = updates \ {u}
              /\ row' = [row EXCEPT !.members = [u.read EXCEPT ![m] = t.saves]]
        BY <1>o, <2>10 DEF Writes
    <3>2. \A k \in Members : row'.members[k] = IF k = m THEN t.saves ELSE u.read[k]
        BY <1>t, <3>1 DEF RowType, UpdateType
    <3>3. updates' = {}
        BY <1>s, <3>1
    <3>4. \A k \in Members : row'.members[k] = "running" => task'[r][k].pc /= "off"
        BY <1>d, <2>2, <2>3, <3>1, <3>2 DEF WillWrite
    <3>5. \A s \in Slots, k \in Members : WillRecord(s, k)'
        BY <2>2, <2>4, <3>4 DEF WillRecord
    <3> QED
        BY <2>6, <3>3, <3>5
  <2> QED
      BY <2>1, <2>8, <2>9, <2>10 DEF MemberStep
<1>12. ASSUME NEW r \in Slots PROVE ~DoneCallback(r)
    BY <1>s DEF DoneCallback
<1>13. \/ UNCHANGED <<row, runner, task, updates>> \/ Restart \/ SchedulerKick \/ KickNow
       \/ SchedulerCommit \/ CancelCommit \/ DeleteCommit \/ RunCommit
       \/ \E r \in Slots : \/ RunnerRead(r) \/ RunnerCommit(r) \/ RunnerJoin(r) \/ RunnerFinish(r)
                           \/ DoneCallback(r) \/ \E m \in Members : TaskStep(r, m)
    BY DEF Next, vars, procVars, SchedulerStep, Tick, SchedulerRead,
           RequestStep, Users, RunNow, Cancel, Delete, Receive, RunnerStep, MigrationEnds
<1> QED
    BY <1>1, <1>3, <1>4, <1>5, <1>6, <1>7, <1>8, <1>9, <1>10, <1>11, <1>12, <1>13

-----------------------------------------------------------------------------
(* Migrations in flight.                                                   *)

\* A task that follows a migration is left alone by all but its own steps and a
\* restart.
LEMMA FollowersStay ==
    ASSUME TypeOK, TasksFit, [Next]_vars, ~Restart, ~\E r \in Slots, m \in Members : TaskStep(r, m),
           NEW s \in Slots, NEW k \in Members, task[s][k].saves = "running"
    PROVE  task'[s][k] = task[s][k]
<1>1. runner[s].pc = "tasks" /\ task[s][k].pc /= "off"
    BY DEF TasksFit, TaskFits
<1>2. CASE Bystands
    BY <1>2 DEF Bystands
<1>3. ASSUME NEW r \in Slots, RunnerCommit(r), Exists PROVE task'[s][k] = task[s][k]
    BY <1>1, <1>3 DEF RunnerCommit, TypeOK
<1>4. ASSUME NEW r \in Slots, RunnerJoin(r) PROVE task'[s][k] = task[s][k]
    BY <1>1, <1>4 DEF RunnerJoin, TypeOK
<1> QED
    BY <1>2, <1>3, <1>4, Bystanders

\* There are no migrations initially ...
LEMMA AwaitedInit == Init => AllAwaited
BY DEF Init, AllAwaited

\* ... and each one in flight is followed to its end.
LEMMA AwaitedNext ==
    TypeOK /\ TasksFit /\ UpdatesFit /\ AllAwaited /\ [Next]_vars => AllAwaited'
<1> SUFFICES ASSUME TypeOK, TasksFit, UpdatesFit, AllAwaited, [Next]_vars, ~opt'.timeouts,
                    NEW i \in DOMAIN migs', migs'[i].status = "running"
             PROVE  Awaited(i)'
    BY DEF AllAwaited
<1>o. opt' = opt /\ ~opt.timeouts
    BY SameOptions
<1>t. /\ Grow /\ task \in [Slots -> [Members -> TaskType]] /\ runner \in [Slots -> RunnerType]
      /\ migs \in Seq(MigType) /\ Len(migs) \in Nat /\ DOMAIN migs = 1..Len(migs)
      /\ \A j \in DOMAIN migs : migs[j] \in MigType
    BY GrowsNext, LenProperties, ElementOfSeq DEF TypeOK
<1>1. ASSUME i \in DOMAIN migs
      PROVE  /\ migs[i].status = "running" /\ migs'[i].member = migs[i].member /\ migs[i].member \in Members
             /\ \E s \in Slots : task[s][migs[i].member].saves = "running" /\ task[s][migs[i].member].mig = i
  <2>1. migs[i].status = "running" /\ migs'[i].member = migs[i].member
      BY <1>1, <1>t DEF Grow
  <2>2. migs[i].member \in Members
      BY <1>1, <1>t DEF MigType
  <2>3. Awaited(i)
      BY <1>1, <1>o, <2>1 DEF AllAwaited
  <2> QED
      BY <2>1, <2>2, <2>3 DEF Awaited
<1>2. ASSUME NEW r \in Slots, NEW m \in Members, TaskStep(r, m) PROVE Awaited(i)'
  <2> DEFINE t == task[r][m]
  <2>1. PICK x \in TaskType, b \in BOOLEAN : MemberStep(r, m, x, b)
      BY <1>2, MemberSteps
  <2>2. /\ task'[r][m] = x /\ Move(t, x) /\ t \in TaskType /\ TaskFits(r, m)
        /\ \A s \in Slots, k \in Members : s /= r \/ k /= m => task'[s][k] = task[s][k]
      BY <1>t, <2>1, OneTask DEF MemberStep, TasksFit
  <2>3. CASE i \in DOMAIN migs
    <3> DEFINE k == migs[i].member
    <3>1. PICK s \in Slots : task[s][k].saves = "running" /\ task[s][k].mig = i
        BY <1>1, <2>3
    <3>2. k \in Members /\ migs'[i].member = k /\ migs[i].status = "running"
        BY <1>1, <2>3
    <3> HIDE DEF k
    <3>3. CASE s /= r \/ k /= m
        BY <2>2, <3>1, <3>2, <3>3 DEF Awaited
    <3>4. CASE s = r /\ k = m
      <4>1. x.saves = "running" /\ x.mig = t.mig
          BY <1>o, <2>2, <3>1, <3>2, <3>4, MoveFields DEF TaskFits
      <4> QED
          BY <2>2, <3>1, <3>2, <3>4, <4>1 DEF Awaited
    <3> QED
        BY <3>3, <3>4
  <2>4. CASE i \notin DOMAIN migs
    <3>1. x.pc = "update" /\ x.saves = "running" /\ migs' = Append(migs, [member |-> m, status |-> "running"])
        BY <2>1, <2>4 DEF MemberStep, Launches
    <3>2. i = Len(migs) + 1 /\ migs'[i].member = m
        BY <1>t, <2>4, <3>1
    <3>3. x.mig = Len(migs) + 1
        BY <2>2, <3>1, MoveFields DEF TaskFits
    <3> QED
        BY <2>2, <3>1, <3>2, <3>3 DEF Awaited
  <2> QED
      BY <2>3, <2>4
<1>3. CASE Restart
  <2>1. i \in DOMAIN migs /\ migs'[i].status /= "running"
      BY <1>3, <1>t DEF Restart, MigType
  <2> QED
      BY <2>1
<1>4. CASE ~Restart /\ ~\E r \in Slots, m \in Members : TaskStep(r, m)
  <2>1. i \in DOMAIN migs
      BY <1>4 DEF Next, vars, SchedulerStep, Tick, SchedulerRead, SchedulerCommit, SchedulerKick,
           RequestStep, RunCommit, CancelCommit, DeleteCommit, KickNow, Users, RunNow, Cancel, Delete,
           Receive, RunnerStep, RunnerRead, RunnerCommit, RunnerJoin, RunnerFinish, DoneCallback, MigrationEnds
  <2> DEFINE k == migs[i].member
  <2>2. PICK s \in Slots : task[s][k].saves = "running" /\ task[s][k].mig = i
      BY <1>1, <2>1
  <2>3. k \in Members /\ migs'[i].member = k
      BY <1>1, <2>1
  <2>4. task'[s][k] = task[s][k]
      BY <1>4, <2>2, <2>3, FollowersStay
  <2> QED
      BY <2>2, <2>3, <2>4 DEF Awaited
<1> QED
    BY <1>2, <1>3, <1>4

-----------------------------------------------------------------------------
(* The theorems.                                                           *)

LEMMA IInvInit == Init => IInv
BY TypeInit, FitInit, SuccessInit, SlotsInit, RecordingsInit, AwaitedInit DEF IInv

LEMMA IInvNext == IInv /\ [Next]_vars => IInv'
BY TypeNext, TasksFitNext, UpdatesFitNext, SingleNext, SuccessNext, SlotsNext, RecordingsNext, AwaitedNext
   DEF IInv

\* All parts of the invariant hold in every reachable state.
THEOREM Invariance == Spec => []IInv
BY IInvInit, IInvNext, PTL DEF Spec

\* The variables always have their types.
THEOREM TypeCorrect == Spec => []TypeOK
<1>1. IInv => TypeOK
    BY DEF IInv
<1> QED
    BY <1>1, Invariance, PTL

\* What the row records of members and of the group is so (run_migration_group,
\* _group_update_member).
THEOREM RecordsTrue == Spec => []RecordsAreTrue
<1>1. IInv => RecordsAreTrue
  <2> SUFFICES ASSUME IInv PROVE RecordsAreTrue
      OBVIOUS
  <2>1. /\ \A m \in Members : row.members[m] = "succeeded" => Migrated(m)
        /\ row.status = "succeeded" => \A m \in Members : Migrated(m)
      BY DEF IInv, SuccessesTrue, Truly
  <2>2. row.status \in {"succeeded", "failed", "partial"} /\ ~opt.lag
        => \A m \in Members : row.members[m] /= "running"
      BY DEF IInv, RecordingsDue, EndedQuietly, Ended, Exists
  <2> QED
      BY <2>1, <2>2 DEF RecordsAreTrue
<1> QED
    BY <1>1, Invariance, PTL

\* A canceled group launches no more members than the semaphore had let pass, and
\* a group that stops on errors keeps the slots of failed members free.
THEOREM LaunchesStopped == Spec => []LaunchesStop
<1>1. IInv => LaunchesStop
  <2> SUFFICES ASSUME IInv PROVE LaunchesStop
      OBVIOUS
  <2>1. CancelStopsLaunches
      BY DEF IInv, SlotsBounded, LateBounded, CancelStopsLaunches
  <2>2. StopsOnError
    <3>1. ASSUME NEW r \in Slots, ~opt.continueOnError, runner[r].pc = "tasks",
                 NEW m \in Members, task[r][m].pc = "off", task[r][m].saves \in {"failed", "rolled_back"}
          PROVE  Cardinality(Busy(r)) < opt.concurrency
      <4>1. Bounded(r)
          BY DEF IInv, SlotsBounded
      <4> QED
          BY <3>1, <4>1 DEF Bounded
    <3> QED
        BY <3>1 DEF StopsOnError, Busy
  <2> QED
      BY <2>1, <2>2 DEF LaunchesStop
<1> QED
    BY <1>1, Invariance, PTL

\* No more migrations are in flight than the group allows, nor two of one VM, when
\* callbacks are prompt and no migration outlasts its timeout: each one is that of
\* a task which holds a slot of the only runner.
THEOREM ConcurrencyKept == Spec => []WithinConcurrency
<1>1. IInv => WithinConcurrency
  <2> DEFINE flying == {i \in DOMAIN migs : migs[i].status = "running"}
  <2> SUFFICES ASSUME IInv, ~opt.timeouts, ~opt.lag
               PROVE  /\ Cardinality(flying) <= opt.concurrency
                      /\ \A m \in Members : Cardinality(Running(m)) <= 1
      BY DEF WithinConcurrency
  <2>t. /\ \A i \in DOMAIN migs : migs[i].member \in Members
        /\ opt.concurrency \in Nat \ {0} /\ task \in [Slots -> [Members -> TaskType]]
    <3>1. opt \in OptionType /\ migs \in Seq(MigType) /\ task \in [Slots -> [Members -> TaskType]]
        BY OptionAssumption DEF IInv, TypeOK
    <3>2. \A i \in DOMAIN migs : migs[i] \in MigType
        BY <3>1, LenProperties, ElementOfSeq
    <3> QED
        BY <3>1, <3>2 DEF OptionType, MigType
  <2>1. ASSUME NEW i \in flying
        PROVE  /\ active \in Slots
               /\ migs[i].member \in InFlight(active) /\ task[active][migs[i].member].mig = i
    <3>1. PICK s \in Slots : task[s][migs[i].member].saves = "running" /\ task[s][migs[i].member].mig = i
        BY <2>1 DEF IInv, AllAwaited, Awaited
    <3>2. task[s][migs[i].member].pc \in {"update", "write", "poll"} /\ runner[s].pc = "tasks"
        BY <2>t, <2>1, <3>1 DEF IInv, TasksFit, TaskFits
    <3>3. s = active
        BY <3>2 DEF IInv, Single
    <3> QED
        BY <2>t, <2>1, <3>1, <3>2, <3>3 DEF InFlight
  <2> HIDE DEF flying
  <2>2. CASE flying = {}
    <3>1. \A m \in Members : Running(m) = {}
        BY <2>2 DEF Running, flying
    <3>2. Cardinality(flying) = 0 /\ \A m \in Members : Cardinality(Running(m)) = 0
        BY <2>2, <3>1, FS_EmptySet
    <3> QED
        BY <2>t, <3>2
  <2>3. CASE flying /= {}
    <3> DEFINE slots == InFlight(active)
               f == [i \in flying |-> migs[i].member]
    <3>1. active \in Slots /\ slots \in SUBSET Members
        BY <2>1, <2>3 DEF InFlight
    <3>2. IsFiniteSet(slots) /\ Cardinality(slots) <= opt.concurrency /\ Cardinality(slots) \in Nat
      <4>1. Bounded(active)
          BY <3>1 DEF IInv, SlotsBounded
      <4> HIDE DEF slots
      <4> QED
          BY <3>1, <4>1, Few DEF Bounded, slots
    <3>3. \A i, j \in flying : migs[i].member = migs[j].member => i = j
        BY <2>1
    <3>4. f \in Injection(flying, slots)
        BY <2>1, <3>3 DEF Injection, IsInjective
    <3> HIDE DEF f, slots
    <3>5. IsFiniteSet(flying) /\ Cardinality(flying) <= Cardinality(slots)
        BY <3>2, <3>4, FS_Injection
    <3>6. Cardinality(flying) <= opt.concurrency
        BY <2>t, <3>2, <3>5, FS_CardinalityType
    <3>7. ASSUME NEW m \in Members PROVE Cardinality(Running(m)) <= 1
      <4>1. \A i, j \in Running(m) : i = j
          BY <3>3 DEF Running, flying
      <4>2. CASE Running(m) = {}
          BY <4>2, FS_EmptySet
      <4>3. ASSUME NEW i \in Running(m) PROVE Cardinality(Running(m)) = 1
        <5>1. Running(m) = {i}
            BY <4>1, <4>3
        <5> QED
            BY <5>1, FS_Singleton
      <4> QED
          BY <4>2, <4>3
    <3> QED
        BY <3>6, <3>7
  <2> QED
      BY <2>2, <2>3
<1> QED
    BY <1>1, Invariance, PTL

\* When callbacks are prompt there is never a second live runner
\* (NeverDoubleLaunched, which late callbacks refute).
THEOREM OneRunner == Spec => [](~opt.lag => NeverDoubleLaunched)
<1>1. IInv => (~opt.lag => NeverDoubleLaunched)
  <2> SUFFICES ASSUME IInv, ~opt.lag PROVE Cardinality(LiveRunners) <= 1
      BY DEF NeverDoubleLaunched
  <2>1. \A r \in LiveRunners : r = active
      BY DEF IInv, Single, LiveRunners, Live
  <2>2. CASE LiveRunners = {}
    <3>1. Cardinality(LiveRunners) = 0
        BY <2>2, FS_EmptySet
    <3> QED
        BY <3>1
  <2>3. CASE LiveRunners /= {}
    <3>1. LiveRunners = {active}
        BY <2>1, <2>3
    <3>2. Cardinality(LiveRunners) = 1
        BY <3>1, FS_Singleton
    <3> QED
        BY <3>2
  <2> QED
      BY <2>2, <2>3
<1> QED
    BY <1>1, Invariance, PTL
=============================================================================
