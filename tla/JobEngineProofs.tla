--------------------------- MODULE JobEngineProofs ---------------------------
(***************************************************************************)
(* Theorems about JobEngine, for every set of requests, viewers and slots, *)
(* and any number of database errors and restarts.                         *)
(***************************************************************************)
EXTENDS JobEngine, SequenceTheorems, TLAPS

Finishing == {"finalize", "refinalize", "end"}

\* How far a job's log can be at each step: the bound of Lines is never passed.
Counted(j) ==
    /\ task[j].pc \in {"off", "guarded", "rowed", "waiting", "entered"} => task[j].emitted = 0
    /\ task[j].pc = "setup" => task[j].emitted = 1
    /\ task[j].pc = "op" => task[j].emitted <= OpLines + 1
    /\ task[j].pc = "finalize" => task[j].emitted <= OpLines + 2

\* The Job row follows the task, and is left behind by errors alone.
RowFollows(j) ==
    /\ task[j].pc \in {"off", "guarded", "rowed", "rejected"} => row[j] = "none"
    /\ task[j].pc \in {"waiting", "entered"} => row[j] = "pending"
    /\ task[j].pc \in {"setup", "op", "finalize", "refinalize"} => row[j] = "running"
    /\ task[j].pc \in Finishing => task[j].verdict \in {"succeeded", "failed"}
    /\ task[j].pc = "lost" => row[j] \notin InProgress
    /\ faults = 0 /\ task[j].pc \in {"end", "ended"} =>
           row[j] = task[j].verdict /\ row[j] \in {"succeeded", "failed"}

\* The Migration row follows it too, a verdict behind while the job is saved.
MigFollows(j) ==
    /\ Entry[j] = "plain" => mig[j] = "none" /\ task[j].pc /= "guarded"
    /\ task[j].pc \in {"off", "guarded"} => mig[j] = "none"
    /\ Entry[j] /= "plain" /\ task[j].pc \in {"rowed", "waiting", "entered", "setup"} =>
           mig[j] = "pending"
    /\ task[j].pc = "op" => mig[j] \in {"none", "pending", "running"}
    /\ task[j].pc = "lost" => mig[j] \notin InProgress
    /\ faults = 0 /\ Entry[j] /= "plain" =>
           /\ task[j].pc = "rejected" => mig[j] = "none"
           /\ task[j].pc \in Finishing \union {"ended"} =>
                  IF task[j].verdict = "succeeded" THEN mig[j] = "succeeded"
                  ELSE mig[j] \in {"pending", "failed", "rolled_back"}
           /\ task[j].pc = "lost" /\ row[j] = "succeeded" => mig[j] = "succeeded"

\* The log of a job with a verdict is saved whole, and nothing is added to it.
LogFollows(j) ==
    faults = 0 /\ row[j] \in Terminal => logs[j] = Saved(j) \/ task[j].pc = "lost"

\* Each task that waits for the semaphore does so once.
Queued ==
    /\ \A i \in 1..Len(waiting) : task[waiting[i]].pc = "waiting"
    /\ \A i, k \in 1..Len(waiting) : waiting[i] = waiting[k] => i = k

\* A viewer that has a line follows a job, and the end is on its way to it, or
\* was told, only if the job has its verdict.
Told(c) ==
    /\ client[c].pc = "off" => client[c].got = << >>
    /\ client[c].pc \in {"off", "gap"} => client[c].queue = << >>
    /\ client[c].pc /= "off" => client[c].job \in Jobs
    /\ faults = 0 =>
           /\ \A i \in 1..Len(client[c].queue) :
                  client[c].queue[i] = End => row[client[c].job] \in Terminal
           /\ client[c].got /= << >> /\ client[c].got[Len(client[c].got)] = End =>
                  row[client[c].job] \in Terminal

Follows(j) == Counted(j) /\ RowFollows(j) /\ MigFollows(j) /\ LogFollows(j)
IInv == TypeOK /\ (\A j \in Jobs : Follows(j)) /\ Queued /\ \A c \in Clients : Told(c)
-----------------------------------------------------------------------------
(* Lemmas.                                                                 *)

Pcs == RequestPcs \union {"waiting"} \union HoldingPcs \union {"ended", "rejected", "lost"}
Verdicts == {"none", "succeeded", "failed"}

\* The types of the rows and tasks, and of what counts.
RowTypes ==
    /\ row \in [Jobs -> JobStatus] /\ mig \in [Jobs -> MigStatus] /\ task \in [Jobs -> TaskType]
    /\ logs \in [Jobs -> Seq(1..Note)]
    /\ faults \in 0..MaxFaults /\ restarts \in 0..MaxRestarts

\* What a step of another job leaves alone.
Untouched(k) ==
    task'[k] = task[k] /\ row'[k] = row[k] /\ mig'[k] = mig[k] /\ logs'[k] = logs[k]

\* Such a job keeps what holds of it.
LEMMA OtherJobs ==
    ASSUME NEW k \in Jobs, Untouched(k), faults' = 0 => faults = 0, Follows(k)
    PROVE  Follows(k)'
BY DEF Untouched, Follows, Counted, RowFollows, MigFollows, LogFollows, Saved

\* The task of j is at p with verdict v and e lines, the others are as they were.
Moved(j, p, v, e) ==
    /\ task' \in [Jobs -> TaskType]
    /\ \A k \in Jobs \ {j} : task'[k] = task[k]
    /\ task'[j].pc = p /\ task'[j].verdict = v /\ task'[j].emitted = e

\* A step that only moves the task of j.
LEMMA PcChange ==
    ASSUME task \in [Jobs -> TaskType], NEW j \in Jobs, NEW p \in Pcs,
           task' = [task EXCEPT ![j].pc = p]
    PROVE  Moved(j, p, task[j].verdict, task[j].emitted)
BY DEF TaskType, Pcs, Moved

\* The same, when it also emits a line.
LEMMA EmitEffect ==
    ASSUME task \in [Jobs -> TaskType], NEW j \in Jobs, NEW p \in Pcs,
           NEW v \in Verdicts, task[j].emitted < Lines, Emit(j, p, v)
    PROVE  Moved(j, p, v, task[j].emitted + 1)
BY BoundAssumption DEF TaskType, Emit, Pcs, Lines, Moved, Verdicts

\* A database error is counted.
LEMMA Faulted ==
    ASSUME MaxFaults \in Nat, faults \in 0..MaxFaults, Fault
    PROVE  faults' \in 0..MaxFaults /\ faults' /= 0
BY DEF Fault

\* The migration's row takes the status, or an error keeps it.
LEMMA RecordedMigration ==
    ASSUME mig \in [Jobs -> MigStatus], NEW j \in Jobs, NEW st \in MigStatus,
           UpdateMigration(j, st)
    PROVE  /\ mig' \in [Jobs -> MigStatus]
           /\ \A k \in Jobs \ {j} : mig'[k] = mig[k]
           /\ Entry[j] = "plain" => mig'[j] = mig[j] /\ UNCHANGED faults
           /\ Entry[j] /= "plain" => \/ mig'[j] = st /\ UNCHANGED faults
                                     \/ mig'[j] = mig[j] /\ Fault
BY DEF UpdateMigration

\* The first of those that wait is waiting.
LEMMA HeadIsWaiting ==
    ASSUME waiting \in Seq(Jobs), waiting /= << >>, Queued
    PROVE  task[Head(waiting)].pc = "waiting"
BY DEF Queued

\* A saved log has its lines in order, and no others.
LEMMA SavedIsSeq ==
    ASSUME Lines \in Nat, NEW j \in Jobs, task[j].emitted \in 0..Lines
    PROVE  Saved(j) \in Seq(1..Note)
BY DEF Saved, Note

\* A step of a job keeps what holds of its rows, and the others' alone.
LEMMA JobKeeps ==
    ASSUME IInv, NEW j \in Jobs, Request(j) \/ JobStep(j)
    PROVE  /\ RowTypes' /\ (faults' = 0 => faults = 0)
           /\ Follows(j)' /\ \A k \in Jobs \ {j} : Untouched(k)
<1> USE DEF Pcs, RequestPcs, HoldingPcs, JobStatus, MigStatus, Verdicts, RowTypes, Untouched,
            Moved, Follows, Counted, RowFollows, MigFollows, LogFollows, Saved, Finishing,
            InProgress, Terminal
<1>1. RowTypes /\ Follows(j) /\ MaxFaults \in Nat /\ faults \in 0..MaxFaults
  BY BoundAssumption DEF IInv, TypeOK
<1>2. Lines = OpLines + 3 /\ OpLines \in Nat
  BY BoundAssumption DEF Lines
<1>3. task[j].emitted \in 0..Lines /\ task[j].verdict \in Verdicts
  BY <1>1 DEF TaskType
<1>4. CASE Request(j)
  <2> PICK p \in Pcs :
          /\ task[j].pc = "off" /\ task' = [task EXCEPT ![j].pc = p]
          /\ \/ p = "guarded" /\ Entry[j] /= "plain"
             \/ p = "rejected" \/ (p = "rowed" /\ Entry[j] = "plain")
    BY <1>4 DEF Request
  <2>1. UNCHANGED <<row, logs, mig, faults, restarts>>
    BY <1>4 DEF Request
  <2>2. Moved(j, p, task[j].verdict, task[j].emitted)
    BY <1>1, PcChange
  <2> QED BY <1>1, <1>2, <2>1, <2>2
<1>5. CASE CreateRow(j)
  <2>1. task[j].pc = "guarded" /\ UNCHANGED <<row, logs, faults, restarts>>
    BY <1>5 DEF CreateRow
  <2>2. CASE task' = [task EXCEPT ![j].pc = "rowed"] /\ mig' = [mig EXCEPT ![j] = "pending"]
    <3>1. Moved(j, "rowed", task[j].verdict, task[j].emitted)
      BY <1>1, <2>2, PcChange
    <3> QED BY <1>1, <1>2, <2>1, <2>2, <3>1
  <2>3. CASE task' = [task EXCEPT ![j].pc = "rejected"] /\ UNCHANGED mig
    <3>1. Moved(j, "rejected", task[j].verdict, task[j].emitted)
      BY <1>1, <2>3, PcChange
    <3> QED BY <1>1, <1>2, <2>1, <2>3, <3>1
  <2> QED BY <1>5, <2>2, <2>3 DEF CreateRow
<1>6. CASE CreateJob(j)
  <2>1. task[j].pc = "rowed" /\ UNCHANGED <<logs, mig, restarts>>
    BY <1>6 DEF CreateJob
  <2>2. CASE /\ row' = [row EXCEPT ![j] = "pending"] /\ UNCHANGED faults
             /\ task' = [task EXCEPT ![j].pc = "waiting"]
    <3>1. Moved(j, "waiting", task[j].verdict, task[j].emitted)
      BY <1>1, <2>2, PcChange
    <3> QED BY <1>1, <1>2, <2>1, <2>2, <3>1
  <2>3. CASE Fault /\ task' = [task EXCEPT ![j].pc = "rejected"] /\ UNCHANGED row
    <3>1. Moved(j, "rejected", task[j].verdict, task[j].emitted)
      BY <1>1, <2>3, PcChange
    <3> QED BY <1>1, <1>2, <2>1, <2>3, <3>1, Faulted
  <2> QED BY <1>6, <2>2, <2>3 DEF CreateJob
<1>7. CASE Enter(j)
  <2>1. task' = [task EXCEPT ![j].pc = "entered"] /\ UNCHANGED <<row, logs, mig, faults, restarts>>
    BY <1>7 DEF Enter
  <2>2. task[j].pc = "waiting"
    BY <1>7, HeadIsWaiting DEF Enter, IInv, TypeOK
  <2>3. Moved(j, "entered", task[j].verdict, task[j].emitted)
    BY <1>1, <2>1, PcChange
  <2> QED BY <1>1, <1>2, <2>1, <2>2, <2>3
<1>8. CASE SetRunning(j)
  <2>1. task[j].pc = "entered" /\ UNCHANGED <<logs, mig, restarts>>
    BY <1>8 DEF SetRunning
  <2>2. CASE row' = [row EXCEPT ![j] = "running"] /\ Emit(j, "setup", "none") /\ UNCHANGED faults
    <3>1. Moved(j, "setup", "none", 1)
      BY <1>1, <1>2, <2>1, <2>2, EmitEffect
    <3> QED BY <1>1, <1>2, <2>1, <2>2, <3>1
  <2>3. CASE Fault /\ task' = [task EXCEPT ![j].pc = "ended"] /\ UNCHANGED row
    <3>1. Moved(j, "ended", task[j].verdict, task[j].emitted)
      BY <1>1, <2>3, PcChange
    <3> QED BY <1>1, <1>2, <2>1, <2>3, <3>1, Faulted
  <2> QED BY <1>8, <2>2, <2>3 DEF SetRunning
<1>9. CASE Setup(j)
  <2>1. task[j].pc = "setup" /\ UNCHANGED <<row, logs, restarts>>
    BY <1>9 DEF Setup
  <2>2. CASE task' = [task EXCEPT ![j].pc = "op"] /\ UpdateMigration(j, "running")
    <3>1. Moved(j, "op", task[j].verdict, 1)
      BY <1>1, <1>2, <2>1, <2>2, PcChange
    <3> QED BY <1>1, <1>2, <2>1, <2>2, <3>1, Faulted, RecordedMigration
  <2>3. ASSUME NEW p \in {"finalize", "refinalize"}, Emit(j, p, "failed"), UNCHANGED <<mig, faults>>
        PROVE  RowTypes' /\ Follows(j)' /\ \A k \in Jobs \ {j} : Untouched(k)
    <3>1. Moved(j, p, "failed", 2)
      BY <1>1, <1>2, <2>1, <2>3, EmitEffect
    <3> QED BY <1>1, <1>2, <2>1, <2>3, <3>1
  <2> QED BY <1>9, <2>2, <2>3 DEF Setup
<1>10. CASE OperationLogs(j)
  <2>1. /\ task[j].pc = "op" /\ task[j].emitted <= OpLines /\ Emit(j, "op", "none")
        /\ UNCHANGED <<row, logs, mig, faults, restarts>>
    BY <1>10 DEF OperationLogs
  <2>2. Moved(j, "op", "none", task[j].emitted + 1)
    BY <1>1, <1>2, <1>3, <2>1, EmitEffect
  <2> QED BY <1>1, <1>2, <1>3, <2>1, <2>2
<1>11. CASE OperationEnds(j)
  <2>1. task[j].pc = "op" /\ UNCHANGED <<row, logs, restarts>>
    BY <1>11 DEF OperationEnds
  <2>2. ASSUME NEW st \in Terminal, UpdateMigration(j, st), Emit(j, "finalize", JobVerdict(st))
        PROVE  /\ RowTypes' /\ (faults' = 0 => faults = 0)
               /\ Follows(j)' /\ \A k \in Jobs \ {j} : Untouched(k)
    <3>1. Moved(j, "finalize", JobVerdict(st), task[j].emitted + 1)
      BY <1>1, <1>2, <1>3, <2>1, <2>2, EmitEffect DEF JobVerdict
    <3> QED BY <1>1, <1>2, <1>3, <2>1, <2>2, <3>1, Faulted, RecordedMigration DEF JobVerdict
  <2>3. CASE Entry[j] = "plain" /\ Emit(j, "refinalize", "failed") /\ UNCHANGED <<mig, faults>>
    <3>1. Moved(j, "refinalize", "failed", task[j].emitted + 1)
      BY <1>1, <1>2, <1>3, <2>1, <2>3, EmitEffect
    <3> QED BY <1>1, <1>2, <1>3, <2>1, <2>3, <3>1
  <2> QED BY <1>11, <2>2, <2>3 DEF OperationEnds
<1>12. CASE FinalizeAgain(j)
  <2>1. /\ task[j].pc = "finalize" /\ Fault /\ Emit(j, "refinalize", "failed")
        /\ UNCHANGED <<row, logs, mig, restarts>>
    BY <1>12 DEF FinalizeAgain
  <2>2. Moved(j, "refinalize", "failed", task[j].emitted + 1)
    BY <1>1, <1>2, <1>3, <2>1, EmitEffect
  <2> QED BY <1>1, <1>2, <1>3, <2>1, <2>2, Faulted
<1>13. CASE FinalizeFails(j)
  <2>1. /\ task[j].pc = "refinalize" /\ Fault /\ task' = [task EXCEPT ![j].pc = "end"]
        /\ UNCHANGED <<row, logs, mig, restarts>>
    BY <1>13 DEF FinalizeFails, AfterError
  <2>2. Moved(j, "end", task[j].verdict, task[j].emitted)
    BY <1>1, <2>1, PcChange
  <2> QED BY <1>1, <1>2, <1>3, <2>1, <2>2, Faulted
<1>14. CASE Finalize(j)
  <2>1. /\ task[j].pc \in {"finalize", "refinalize"} /\ task' = [task EXCEPT ![j].pc = "end"]
        /\ row' = [row EXCEPT ![j] = task[j].verdict] /\ logs' = [logs EXCEPT ![j] = Saved(j)]
        /\ UNCHANGED <<mig, faults, restarts>>
    BY <1>14 DEF Finalize
  <2>2. Moved(j, "end", task[j].verdict, task[j].emitted)
    BY <1>1, <2>1, PcChange
  <2>3. Saved(j)' = Saved(j)
    BY <2>2
  <2>4. Saved(j) \in Seq(1..Note)
    <3> HIDE DEF Saved
    <3> QED BY <1>2, <1>3, SavedIsSeq
  <2> QED BY <1>1, <1>2, <1>3, <2>1, <2>2, <2>3, <2>4
<1>15. CASE PublishEnd(j)
  <2>1. /\ task[j].pc = "end" /\ task' = [task EXCEPT ![j].pc = "ended"]
        /\ UNCHANGED <<row, logs, mig, faults, restarts>>
    BY <1>15 DEF PublishEnd
  <2>2. Moved(j, "ended", task[j].verdict, task[j].emitted)
    BY <1>1, <2>1, PcChange
  <2> QED BY <1>1, <1>2, <2>1, <2>2
<1> QED
  BY <1>4, <1>5, <1>6, <1>7, <1>8, <1>9, <1>10, <1>11, <1>12, <1>13, <1>14, <1>15 DEF JobStep

\* It revises no verdict: who has one is past every step that records.
LEMMA JobFinal ==
    ASSUME IInv, NEW j \in Jobs, Request(j) \/ JobStep(j), NEW k \in Jobs
    PROVE  /\ row[k] \in Terminal => row'[k] = row[k]
           /\ mig[k] \in Terminal => mig'[k] = mig[k]
<1>1. CASE k /= j
  BY <1>1, JobKeeps DEF Untouched
<1>2. CASE k = j
  <2> USE DEF Terminal
  <2>1. RowFollows(j) /\ MigFollows(j) /\ RowTypes
    BY DEF IInv, Follows, TypeOK, RowTypes
  <2>2. CASE CreateRow(j)
    BY <1>2, <2>1, <2>2 DEF CreateRow, MigFollows, RowTypes
  <2>3. CASE CreateJob(j)
    BY <1>2, <2>1, <2>3 DEF CreateJob, RowFollows, RowTypes
  <2>4. CASE SetRunning(j)
    BY <1>2, <2>1, <2>4 DEF SetRunning, RowFollows, RowTypes
  <2>5. CASE Setup(j)
    BY <1>2, <2>1, <2>5 DEF Setup, UpdateMigration, MigFollows, RowTypes
  <2>6. CASE OperationEnds(j)
    BY <1>2, <2>1, <2>6 DEF OperationEnds, UpdateMigration, MigFollows, RowTypes
  <2>7. CASE Finalize(j)
    BY <1>2, <2>1, <2>7 DEF Finalize, RowFollows, RowTypes
  <2>8. CASE \/ Request(j) \/ Enter(j) \/ OperationLogs(j) \/ FinalizeAgain(j)
             \/ FinalizeFails(j) \/ PublishEnd(j)
    BY <1>2, <2>8 DEF Request, Enter, OperationLogs, FinalizeAgain, FinalizeFails, PublishEnd
  <2> QED BY <2>2, <2>3, <2>4, <2>5, <2>6, <2>7, <2>8 DEF JobStep
<1> QED BY <1>1, <1>2

\* A queue whose tasks stay as they are stays a queue.
LEMMA QueueSame ==
    ASSUME waiting \in Seq(Jobs), Queued, NEW j \in Jobs, task[j].pc /= "waiting",
           \A k \in Jobs \ {j} : task'[k] = task[k], UNCHANGED waiting
    PROVE  Queued'
<1>1. ASSUME NEW i \in 1..Len(waiting) PROVE task'[waiting[i]].pc = "waiting"
  <2>1. waiting[i] \in Jobs \ {j}
    BY DEF Queued
  <2> QED BY <2>1 DEF Queued
<1> QED BY <1>1 DEF Queued

\* A job joins the queue at its end and leaves it at its head.
LEMMA JobQueue ==
    ASSUME IInv, NEW j \in Jobs, Request(j) \/ JobStep(j)
    PROVE  waiting' \in Seq(Jobs) /\ Queued'
<1>1. /\ waiting \in Seq(Jobs) /\ Queued /\ task \in [Jobs -> TaskType]
      /\ \A k \in Jobs \ {j} : task'[k] = task[k]
  BY JobKeeps DEF IInv, TypeOK, Untouched
<1>2. CASE Enter(j)
  <2>1. waiting /= << >> /\ waiting' = Tail(waiting) /\ j = waiting[1]
    BY <1>1, <1>2 DEF Enter
  <2>2. ASSUME NEW i \in 1..Len(waiting')
        PROVE  waiting'[i] = waiting[i + 1] /\ i + 1 \in 1..Len(waiting) /\ waiting[i + 1] \in Jobs \ {j}
    BY <1>1, <2>1, <2>2 DEF Queued
  <2> QED BY <1>1, <2>1, <2>2 DEF Queued
<1>3. CASE CreateJob(j) /\ waiting' = Append(waiting, j)
  <2>1. task[j].pc = "rowed" /\ task'[j].pc = "waiting"
    BY <1>1, <1>3 DEF CreateJob, TaskType
  <2>2. ASSUME NEW i \in 1..Len(waiting) PROVE waiting[i] \in Jobs \ {j} /\ waiting'[i] = waiting[i]
    BY <1>1, <1>3, <2>1 DEF Queued
  <2>3. Len(waiting') = Len(waiting) + 1 /\ waiting'[Len(waiting) + 1] = j
    BY <1>1, <1>3
  <2> QED BY <1>1, <1>3, <2>1, <2>2, <2>3 DEF Queued
<1>4. CASE UNCHANGED waiting /\ ~Enter(j)
  <2>1. task[j].pc /= "waiting"
    BY <1>4 DEF JobStep, Request, CreateRow, CreateJob, SetRunning, Setup, OperationLogs,
                OperationEnds, FinalizeAgain, FinalizeFails, Finalize, PublishEnd
  <2> QED BY <1>1, <1>4, <2>1, QueueSame
<1> QED
  BY <1>2, <1>3, <1>4 DEF JobStep, Request, CreateRow, CreateJob, SetRunning, Setup, OperationLogs,
                          OperationEnds, FinalizeAgain, FinalizeFails, Finalize, PublishEnd

ClientTypes == client \in [Clients -> ClientType]
\* Nothing a viewer relies on is taken back.
RowsStand ==
    (faults' = 0 => faults = 0) /\ \A k \in Jobs : row[k] \in Terminal => row'[k] = row[k]

\* A viewer nobody touches stays rightly told.
LEMMA ClientSame ==
    ASSUME NEW c \in Clients, Told(c), RowsStand, client'[c] = client[c]
    PROVE  Told(c)'
BY DEF Told, RowsStand

\* One more element, and one less.
LEMMA Longer ==
    ASSUME NEW S, NEW s \in Seq(S), NEW x \in S
    PROVE  /\ Append(s, x) \in Seq(S) /\ Append(s, x) = s \o <<x>>
           /\ Len(Append(s, x)) = Len(s) + 1 /\ Len(s) \in Nat
           /\ Append(s, x)[Len(s) + 1] = x
           /\ \A i \in 1..Len(s) : Append(s, x)[i] = s[i]
BY AppendProperties, AppendIsConcat, LenProperties

\* The head is the first element, the tail the rest.
LEMMA Shorter ==
    ASSUME NEW S, NEW s \in Seq(S), s /= << >>
    PROVE  /\ Head(s) = s[1] /\ s[1] \in S /\ 1 \in 1..Len(s) /\ Tail(s) \in Seq(S)
           /\ \A i \in 1..Len(Tail(s)) : i + 1 \in 1..Len(s) /\ Tail(s)[i] = s[i + 1]
BY HeadTailProperties, LenProperties, EmptySeq

\* A viewer's record after each kind of step.
LEMMA Replaced ==
    ASSUME NEW r \in ClientType, NEW q
    PROVE  /\ [r EXCEPT !.queue = q] = [pc |-> r.pc, job |-> r.job, got |-> r.got, queue |-> q]
           /\ [r EXCEPT !.pc = "tail"] = [pc |-> "tail", job |-> r.job, got |-> r.got, queue |-> r.queue]
           /\ [r EXCEPT !.pc = "closed", !.queue = q] =
                 [pc |-> "closed", job |-> r.job, got |-> r.got, queue |-> q]
<1> DEFINE closed == [r EXCEPT !.pc = "closed"]
<1>1. /\ [r EXCEPT !.queue = q] = [pc |-> r.pc, job |-> r.job, got |-> r.got, queue |-> q]
      /\ [r EXCEPT !.pc = "tail"] = [pc |-> "tail", job |-> r.job, got |-> r.got, queue |-> r.queue]
      /\ closed = [pc |-> "closed", job |-> r.job, got |-> r.got, queue |-> r.queue]
  BY DEF ClientType
<1>2. [r EXCEPT !.pc = "closed", !.queue = q] = [closed EXCEPT !.queue = q]
  OBVIOUS
<1> HIDE DEF closed
<1>3. [closed EXCEPT !.queue = q] = [pc |-> "closed", job |-> r.job, got |-> r.got, queue |-> q]
  BY <1>1
<1> QED BY <1>1, <1>2, <1>3

\* The same, when it has been sent a line.
LEMMA Heard ==
    ASSUME NEW r \in ClientType, NEW g, NEW q
    PROVE  [r EXCEPT !.got = g, !.queue = q] = [pc |-> r.pc, job |-> r.job, got |-> g, queue |-> q]
<1> DEFINE heard == [r EXCEPT !.got = g]
<1>1. heard = [pc |-> r.pc, job |-> r.job, got |-> g, queue |-> r.queue]
  BY DEF ClientType
<1>2. [r EXCEPT !.got = g, !.queue = q] = [heard EXCEPT !.queue = q]
  OBVIOUS
<1> HIDE DEF heard
<1>3. [heard EXCEPT !.queue = q] = [pc |-> r.pc, job |-> r.job, got |-> g, queue |-> q]
  BY <1>1
<1> QED BY <1>2, <1>3

\* What holds of a viewer whose record has been replaced.
LEMMA ToldAfter ==
    ASSUME NEW c \in Clients, NEW p \in {"gap", "tail", "closed"}, NEW j \in Jobs,
           NEW g \in Seq(0..Note), NEW q \in Seq(0..Note),
           client'[c] = [pc |-> p, job |-> j, got |-> g, queue |-> q],
           p = "gap" => q = << >>,
           faults' = 0 => /\ \A i \in 1..Len(q) : q[i] = End => row'[j] \in Terminal
                          /\ g /= << >> /\ g[Len(g)] = End => row'[j] \in Terminal
    PROVE  client'[c] \in ClientType /\ Told(c)'
<1>1. client'[c].pc = p /\ client'[c].job = j /\ client'[c].got = g /\ client'[c].queue = q
  OBVIOUS
<1>2. client'[c] \in ClientType
  BY DEF ClientType
<1>3. Told(c)'
  BY <1>1 DEF Told
<1> QED BY <1>2, <1>3

\* Publishing lines; the end only of a job that has its verdict.
LEMMA Publishes ==
    ASSUME ClientTypes, \A c \in Clients : Told(c), RowsStand,
           NEW j \in Jobs, NEW line \in 0..Note, Publish(j, <<line>>),
           faults' = 0 /\ line = End => row'[j] \in Terminal
    PROVE  ClientTypes' /\ \A c \in Clients : Told(c)'
<1>1. <<line>> \in Seq(0..Note)
  OBVIOUS
<1>2. ASSUME NEW c \in Clients PROVE client'[c] \in ClientType /\ Told(c)'
  <2>1. client[c] \in ClientType
    BY DEF ClientTypes
  <2>2. CASE client[c].pc = "tail" /\ client[c].job = j
    <3> DEFINE q == client[c].queue
               g == client[c].got
    <3>1. /\ client[c] = [pc |-> "tail", job |-> j, got |-> g, queue |-> q]
          /\ q \in Seq(0..Note) /\ g \in Seq(0..Note)
      BY <2>1, <2>2 DEF ClientType
    <3>2. client'[c] = [client[c] EXCEPT !.queue = q \o <<line>>]
      BY <2>2 DEF Publish
    <3>3. /\ Append(q, line) \in Seq(0..Note) /\ Append(q, line) = q \o <<line>>
          /\ Len(Append(q, line)) = Len(q) + 1 /\ Len(q) \in Nat
          /\ Append(q, line)[Len(q) + 1] = line
          /\ \A i \in 1..Len(q) : Append(q, line)[i] = q[i]
      BY <3>1, Longer
    <3>4. client'[c] = [pc |-> "tail", job |-> j, got |-> g, queue |-> Append(q, line)]
      <4>1. client'[c] = [client[c] EXCEPT !.queue = Append(q, line)]
        BY <3>2, <3>3
      <4>2. [client[c] EXCEPT !.queue = Append(q, line)] =
                [pc |-> client[c].pc, job |-> client[c].job, got |-> g, queue |-> Append(q, line)]
        BY <2>1, Replaced
      <4> QED BY <2>2, <4>1, <4>2
    <3>5. ASSUME faults' = 0
          PROVE  /\ \A i \in 1..Len(q) : q[i] = End => row'[j] \in Terminal
                 /\ g /= << >> /\ g[Len(g)] = End => row'[j] \in Terminal
      BY <2>2, <3>5 DEF Told, RowsStand
    <3>6. ASSUME faults' = 0, NEW i \in 1..Len(Append(q, line)), Append(q, line)[i] = End
          PROVE  row'[j] \in Terminal
      <4>1. CASE i \in 1..Len(q)
        BY <3>3, <3>5, <3>6, <4>1
      <4>2. CASE i = Len(q) + 1
        BY <3>3, <3>6, <4>2
      <4> QED BY <4>1, <4>2, <3>3
    <3> HIDE DEF q, g
    <3> QED BY <3>1, <3>3, <3>4, <3>5, <3>6, ToldAfter
  <2>3. CASE ~(client[c].pc = "tail" /\ client[c].job = j)
    <3>1. client'[c] = client[c]
      BY <2>3 DEF Publish
    <3> QED BY <2>1, <3>1, ClientSame
  <2> QED BY <2>2, <2>3
<1> QED BY <1>2 DEF ClientTypes, Publish

\* What a step of a job tells the viewers.
LEMMA JobTells ==
    ASSUME IInv, NEW j \in Jobs, Request(j) \/ JobStep(j)
    PROVE  ClientTypes' /\ \A c \in Clients : Told(c)'
<1>1. ClientTypes /\ RowsStand /\ \A c \in Clients : Told(c)
  BY JobKeeps, JobFinal DEF IInv, TypeOK, ClientTypes, RowsStand
<1>2. CASE UNCHANGED client
  BY <1>1, <1>2, ClientSame DEF ClientTypes
<1>3. CASE Publish(j, <<task[j].emitted + 1>>)
  <2>1. task[j].emitted \in 0..Lines /\ Lines \in Nat
    BY BoundAssumption DEF IInv, TypeOK, TaskType, Lines
  <2> QED BY <1>1, <1>3, <2>1, Publishes DEF Note, End
<1>4. CASE PublishEnd(j)
  <2>1. faults = 0 => row[j] \in Terminal
    BY <1>4 DEF PublishEnd, IInv, Follows, RowFollows, Terminal
  <2>2. UNCHANGED <<row, faults>> /\ Publish(j, <<End>>) /\ End \in 0..Note
    BY <1>4, BoundAssumption DEF PublishEnd, End, Note, Lines
  <2> QED BY <1>1, <2>1, <2>2, Publishes
<1> QED
  BY <1>2, <1>3, <1>4 DEF JobStep, Request, CreateRow, CreateJob, Enter, SetRunning, Setup,
      OperationLogs, OperationEnds, FinalizeAgain, FinalizeFails, Finalize, Emit

\* A viewer's own step.
LEMMA ViewerKeeps ==
    ASSUME IInv, NEW c \in Clients, Subscribe(c) \/ Deliver(c) \/ \E j \in Jobs : Connect(c, j)
    PROVE  ClientTypes' /\ \A d \in Clients : Told(d)'
<1> DEFINE q == client[c].queue
           g == client[c].got
           j == client[c].job
<1>1. /\ ClientTypes /\ RowsStand /\ \A d \in Clients : Told(d)
      /\ logs \in [Jobs -> Seq(1..Note)] /\ UNCHANGED <<row, faults>>
  BY DEF IInv, TypeOK, ClientTypes, RowsStand, Subscribe, Deliver, Connect
<1>2. /\ client[c] = [pc |-> client[c].pc, job |-> j, got |-> g, queue |-> q]
      /\ q \in Seq(0..Note) /\ g \in Seq(0..Note)
  BY <1>1 DEF ClientTypes, ClientType
<1>3. SUFFICES client'[c] \in ClientType /\ Told(c)' /\ \E v : client' = [client EXCEPT ![c] = v]
  BY <1>1, ClientSame DEF ClientTypes
<1>4. << >> \in Seq(0..Note) /\ \A i \in 1..Len(<< >>) : FALSE
  OBVIOUS
<1>5. CASE Subscribe(c)
  <2>1. client[c].pc = "gap" /\ j \in Jobs /\ q = << >>
    BY <1>1, <1>5 DEF Subscribe, Told
  <2>2. client'[c] = [pc |-> "tail", job |-> j, got |-> g, queue |-> q]
    BY <1>1, <1>2, <1>5 DEF Subscribe, ClientTypes
  <2>3. faults' = 0 => /\ \A i \in 1..Len(q) : q[i] = End => row'[j] \in Terminal
                       /\ g /= << >> /\ g[Len(g)] = End => row'[j] \in Terminal
    BY <1>1 DEF Told
  <2>4. client'[c] \in ClientType /\ Told(c)'
    BY <1>2, <2>1, <2>2, <2>3, ToldAfter
  <2> QED BY <1>5, <2>4 DEF Subscribe
<1>6. ASSUME NEW k \in Jobs, Connect(c, k)
      PROVE  client'[c] \in ClientType /\ Told(c)' /\ \E v : client' = [client EXCEPT ![c] = v]
  <2>1. /\ logs[k] \in Seq(0..Note) /\ Append(logs[k], End) \in Seq(0..Note) /\ << >> \in Seq(0..Note)
        /\ logs[k] /= << >> => logs[k][Len(logs[k])] /= End
    BY <1>1, BoundAssumption DEF End, Note, Lines
  <2>2. CASE row[k] \in Terminal
    <3>1. client' = [client EXCEPT ![c] =
                        [NoClient EXCEPT !.pc = "closed", !.job = k, !.got = Append(logs[k], End)]]
      BY <1>6, <2>2 DEF Connect
    <3>2. client'[c] = [pc |-> "closed", job |-> k, got |-> Append(logs[k], End), queue |-> << >>]
      BY <1>1, <3>1 DEF NoClient, ClientTypes
    <3>3. row'[k] \in Terminal
      BY <1>1, <2>2
    <3> DEFINE h == Append(logs[k], End)
    <3>4. h \in Seq(0..Note) /\ client'[c] = [pc |-> "closed", job |-> k, got |-> h, queue |-> << >>]
      BY <2>1, <3>2
    <3> HIDE DEF h
    <3>5. client'[c] \in ClientType /\ Told(c)'
      BY <2>1, <1>4, <3>3, <3>4, ToldAfter
    <3> QED BY <3>1, <3>5
  <2>3. CASE row[k] \notin Terminal
    <3>1. client' = [client EXCEPT ![c] = [NoClient EXCEPT !.pc = "gap", !.job = k, !.got = logs[k]]]
      BY <1>6, <2>3 DEF Connect
    <3>2. client'[c] = [pc |-> "gap", job |-> k, got |-> logs[k], queue |-> << >>]
      BY <1>1, <3>1 DEF NoClient, ClientTypes
    <3>3. client'[c] \in ClientType /\ Told(c)'
      <4> DEFINE h == logs[k]
      <4>1. h \in Seq(0..Note) /\ (h /= << >> => h[Len(h)] /= End)
        BY <2>1
      <4>2. client'[c] = [pc |-> "gap", job |-> k, got |-> h, queue |-> << >>]
        BY <3>2
      <4> HIDE DEF h
      <4> QED BY <1>4, <4>1, <4>2, ToldAfter
    <3> QED BY <3>1, <3>3
  <2> QED BY <2>2, <2>3
<1>7. CASE Deliver(c)
  <2>1. client[c].pc = "tail" /\ q /= << >> /\ j \in Jobs /\ << >> \in Seq(0..Note)
    BY <1>1, <1>7 DEF Deliver, Told
  <2>2. /\ faults = 0 => \A i \in 1..Len(q) : q[i] = End => row[j] \in Terminal
        /\ faults = 0 /\ g /= << >> /\ g[Len(g)] = End => row[j] \in Terminal
    BY <1>1 DEF Told
  <2> DEFINE gone == [client[c] EXCEPT !.pc = "closed", !.queue = << >>]
             last == Append(g, End)
             more == Append(g, Head(q))
             rest == Tail(q)
             told == [gone EXCEPT !.got = last]
             sent == [client[c] EXCEPT !.got = more, !.queue = rest]
  <2>3. PICK viewer \in {gone, IF Head(q) = End THEN told ELSE sent} :
            client' = [client EXCEPT ![c] = viewer]
    BY <1>7 DEF Deliver
  <2>4. /\ Head(q) = q[1] /\ 1 \in 1..Len(q) /\ q[1] \in 0..Note
        /\ rest \in Seq(0..Note) /\ more \in Seq(0..Note) /\ more[Len(more)] = Head(q)
        /\ \A i \in 1..Len(rest) : i + 1 \in 1..Len(q) /\ rest[i] = q[i + 1]
    <3>1. /\ Head(q) = q[1] /\ 1 \in 1..Len(q) /\ q[1] \in 0..Note /\ rest \in Seq(0..Note)
          /\ \A i \in 1..Len(rest) : i + 1 \in 1..Len(q) /\ rest[i] = q[i + 1]
      BY <1>2, <2>1, Shorter
    <3> HIDE DEF q, g, rest
    <3>2. more \in Seq(0..Note) /\ more[Len(more)] = Head(q)
      BY <1>2, <3>1, Longer
    <3> QED BY <3>1, <3>2
  <2>5. Head(q) = End => last \in Seq(0..Note) /\ (faults = 0 => row[j] \in Terminal)
    BY <2>2, <2>4
  <2>6. faults = 0 => \A i \in 1..Len(rest) : rest[i] = End => row[j] \in Terminal
    BY <2>2, <2>4
  <2> HIDE DEF last, more, rest
  <2>7. gone = [pc |-> "closed", job |-> j, got |-> g, queue |-> << >>]
    BY <1>1, Replaced DEF ClientTypes
  <2>8. sent = [pc |-> "tail", job |-> j, got |-> more, queue |-> rest]
    <3>1. sent = [pc |-> client[c].pc, job |-> j, got |-> more, queue |-> rest]
      BY <1>1, Heard DEF ClientTypes
    <3> QED BY <2>1, <3>1
  <2> HIDE DEF gone, sent, q, g, j
  <2>9. told = [pc |-> "closed", job |-> j, got |-> last, queue |-> << >>]
    BY <2>7
  <2> HIDE DEF told
  <2>10. client'[c] = viewer
    BY <1>1, <2>3 DEF ClientTypes
  <2>11. CASE viewer = gone
    <3>1. client'[c] = [pc |-> "closed", job |-> j, got |-> g, queue |-> << >>]
      BY <2>7, <2>10, <2>11
    <3> QED BY <1>1, <1>2, <1>4, <2>1, <2>2, <2>3, <3>1, ToldAfter
  <2>12. CASE Head(q) = End /\ viewer = told
    <3>1. client'[c] = [pc |-> "closed", job |-> j, got |-> last, queue |-> << >>]
      BY <2>9, <2>10, <2>12
    <3> QED BY <1>1, <1>4, <2>1, <2>3, <2>5, <2>12, <3>1, ToldAfter
  <2>13. CASE Head(q) /= End /\ viewer = sent
    <3>1. client'[c] = [pc |-> "tail", job |-> j, got |-> more, queue |-> rest]
      BY <2>8, <2>10, <2>13
    <3>2. faults' = 0 => /\ \A i \in 1..Len(rest) : rest[i] = End => row'[j] \in Terminal
                         /\ more[Len(more)] = End => row'[j] \in Terminal
      BY <1>1, <2>4, <2>6, <2>13
    <3>3. client'[c] \in ClientType /\ Told(c)'
      BY <2>1, <2>4, <3>1, <3>2, ToldAfter
    <3> QED BY <2>3, <3>3
  <2> QED BY <2>3, <2>11, <2>12, <2>13
<1> QED BY <1>5, <1>6, <1>7

\* A restart leaves nobody waiting and nothing in progress.
LEMMA RestartKeeps ==
    ASSUME IInv, Restart
    PROVE  IInv' /\ \A j \in Jobs : /\ row[j] \in Terminal => row'[j] = row[j]
                                    /\ mig[j] \in Terminal => mig'[j] = mig[j]
<1> USE DEF Orphaned, InProgress, Terminal
<1>1. /\ TypeOK /\ faults' = faults /\ waiting' = << >> /\ \A j \in Jobs : Follows(j)
      /\ MaxRestarts \in Nat /\ Note \in Nat \ {0} /\ End = 0
  <2>1. MaxRestarts \in Nat /\ Note \in Nat \ {0} /\ End = 0
    BY BoundAssumption DEF Note, Lines, End
  <2>2. faults' = faults /\ waiting' = << >>
    BY DEF Restart
  <2> QED BY <2>1, <2>2 DEF IInv
<1>2. RowTypes'
  <2>1. row' \in [Jobs -> JobStatus] /\ mig' \in [Jobs -> MigStatus]
    BY <1>1 DEF TypeOK, Restart, JobStatus, MigStatus
  <2>2. task' \in [Jobs -> TaskType]
    <3>1. ASSUME NEW j \in Jobs PROVE [task[j] EXCEPT !.pc = "lost"] \in TaskType
      BY <1>1 DEF TypeOK, TaskType
    <3> QED BY <1>1, <3>1 DEF TypeOK, Restart
  <2>3. logs' \in [Jobs -> Seq(1..Note)]
    <3>1. ASSUME NEW j \in Jobs PROVE Append(logs[j], Note) \in Seq(1..Note)
      BY <1>1 DEF TypeOK
    <3> QED BY <1>1, <3>1 DEF TypeOK, Restart
  <2>4. faults' \in 0..MaxFaults /\ restarts' \in 0..MaxRestarts
    <3>1. restarts < MaxRestarts /\ restarts' = restarts + 1
      BY DEF Restart
    <3>2. faults \in 0..MaxFaults /\ restarts \in 0..MaxRestarts
      BY <1>1 DEF TypeOK
    <3> QED BY <1>1, <3>1, <3>2
  <2> QED BY <2>1, <2>2, <2>3, <2>4 DEF RowTypes
<1>3. ASSUME NEW j \in Jobs PROVE Follows(j)'
  <2>1. /\ row'[j] = IF row[j] \in {"pending", "running"} THEN "failed" ELSE row[j]
        /\ mig'[j] = IF mig[j] \in {"pending", "running"} THEN "failed" ELSE mig[j]
        /\ row[j] \notin {"pending", "running"} => logs'[j] = logs[j]
    BY DEF Restart
  <2>2. RowFollows(j) /\ MigFollows(j) /\ LogFollows(j) /\ Counted(j)
    BY <1>1 DEF Follows
  <2>3. CASE task[j].pc \in {"off", "ended", "rejected"}
    <3>1. task'[j] = task[j]
      BY <2>3 DEF Restart
    <3>2. Counted(j)'
      BY <2>2, <3>1 DEF Counted
    <3>3. RowFollows(j)'
      BY <1>1, <2>1, <2>2, <2>3, <3>1 DEF RowFollows, Finishing
    <3>4. MigFollows(j)'
      BY <1>1, <2>1, <2>2, <2>3, <3>1 DEF MigFollows, RowFollows, Finishing
    <3>5. LogFollows(j)'
      BY <1>1, <2>1, <2>2, <2>3, <3>1 DEF LogFollows, RowFollows, Saved
    <3> QED BY <3>2, <3>3, <3>4, <3>5 DEF Follows
  <2>4. CASE task[j].pc \notin {"off", "ended", "rejected"}
    <3>1. task'[j].pc = "lost" /\ task[j].pc \in Pcs
      BY <1>1, <2>4 DEF Restart, TypeOK, TaskType, Pcs
    <3>2. Counted(j)' /\ RowFollows(j)' /\ LogFollows(j)'
      BY <2>1, <3>1 DEF Counted, RowFollows, LogFollows, Finishing
    <3>3. MigFollows(j)'
      BY <1>1, <2>1, <2>2, <2>4, <3>1 DEF MigFollows, RowFollows, Finishing, Pcs, HoldingPcs, RequestPcs
    <3> QED BY <3>2, <3>3 DEF Follows
  <2> QED BY <2>3, <2>4
<1>4. ASSUME NEW j \in Jobs
      PROVE  /\ row[j] \in Terminal => row'[j] = row[j]
             /\ mig[j] \in Terminal => mig'[j] = mig[j]
  BY DEF Restart
<1>5. waiting' \in Seq(Jobs) /\ Queued'
  BY <1>1 DEF Queued
<1>6. ASSUME NEW c \in Clients PROVE client'[c] \in ClientType /\ Told(c)'
  <2>1. client[c] \in ClientType /\ Told(c)
    BY DEF IInv, TypeOK
  <2>2. RowsStand
    BY <1>1, <1>4 DEF RowsStand
  <2>3. CASE client[c].pc = "off"
    <3>1. client'[c] = client[c]
      BY <2>3 DEF Restart
    <3> QED BY <2>1, <2>2, <3>1, ClientSame
  <2>4. CASE client[c].pc /= "off"
    <3> DEFINE g == client[c].got
               j == client[c].job
    <3>1. client'[c] = [client[c] EXCEPT !.pc = "closed", !.queue = << >>]
      BY <2>4 DEF Restart
    <3>2. client'[c] = [pc |-> "closed", job |-> j, got |-> g, queue |-> << >>]
      BY <2>1, <3>1, Replaced
    <3>3. /\ j \in Jobs /\ g \in Seq(0..Note)
          /\ faults' = 0 /\ g /= << >> /\ g[Len(g)] = End => row'[j] \in Terminal
      BY <1>1, <1>4, <2>1, <2>4 DEF Told, ClientType
    <3>4. << >> \in Seq(0..Note) /\ \A i \in 1..Len(<< >>) : FALSE
      OBVIOUS
    <3> HIDE DEF g, j
    <3> QED BY <3>2, <3>3, <3>4, ToldAfter
  <2> QED BY <2>3, <2>4
<1>7. client' \in [Clients -> ClientType]
  BY <1>6 DEF Restart
<1> QED BY <1>2, <1>3, <1>4, <1>5, <1>6, <1>7 DEF IInv, TypeOK, RowTypes
-----------------------------------------------------------------------------
(* The invariant.                                                          *)

\* Initially, it holds.
LEMMA Initial == Init => IInv
<1> SUFFICES ASSUME Init PROVE IInv
  OBVIOUS
<1> USE DEF Init, NoTask, NoClient
<1>1. 0 \in 0..Lines /\ 0 \in 0..MaxFaults /\ 0 \in 0..MaxRestarts /\ << >> \in Seq(0..Note)
  BY BoundAssumption DEF Lines
<1>2. NoTask \in TaskType
  BY <1>1 DEF TaskType, RequestPcs
<1>3. NoClient \in ClientType
  BY <1>1 DEF ClientType
<1>4. TypeOK
  BY <1>1, <1>2, <1>3 DEF TypeOK, JobStatus, MigStatus
<1>5. ASSUME NEW j \in Jobs PROVE Follows(j)
  <2>1. task[j] = NoTask /\ row[j] = "none" /\ mig[j] = "none"
    OBVIOUS
  <2> QED BY <2>1, BoundAssumption DEF Follows, Counted, RowFollows, MigFollows, LogFollows,
                                       Finishing, InProgress, Terminal
<1>6. Queued
  BY DEF Queued
<1>7. ASSUME NEW c \in Clients PROVE Told(c)
  BY DEF Told
<1> QED BY <1>4, <1>5, <1>6, <1>7 DEF IInv

\* One step: the invariant is kept and no verdict is revised.
LEMMA Step ==
    ASSUME IInv, [Next]_vars
    PROVE  IInv' /\ \A j \in Jobs : /\ row[j] \in Terminal => row'[j] = row[j]
                                    /\ mig[j] \in Terminal => mig'[j] = mig[j]
<1>1. CASE \E j \in Jobs : Request(j) \/ JobStep(j)
  <2>1. PICK j \in Jobs : Request(j) \/ JobStep(j)
    BY <1>1
  <2>2. RowTypes' /\ (faults' = 0 => faults = 0) /\ Follows(j)' /\ \A k \in Jobs \ {j} : Untouched(k)
    BY <2>1, JobKeeps
  <2>3. ASSUME NEW k \in Jobs PROVE Follows(k)'
    <3>1. CASE k = j
      BY <2>2, <3>1
    <3>2. CASE k /= j
      BY <2>2, <3>2, OtherJobs DEF IInv
    <3> QED BY <3>1, <3>2
  <2>4. waiting' \in Seq(Jobs) /\ Queued'
    BY <2>1, JobQueue
  <2>5. ClientTypes' /\ \A c \in Clients : Told(c)'
    BY <2>1, JobTells
  <2>6. \A k \in Jobs : /\ row[k] \in Terminal => row'[k] = row[k]
                        /\ mig[k] \in Terminal => mig'[k] = mig[k]
    BY <2>1, JobFinal
  <2> QED BY <2>2, <2>3, <2>4, <2>5, <2>6 DEF IInv, TypeOK, RowTypes, ClientTypes
<1>2. CASE \E c \in Clients : Subscribe(c) \/ Deliver(c) \/ \E j \in Jobs : Connect(c, j)
  <2>1. PICK c \in Clients : Subscribe(c) \/ Deliver(c) \/ \E j \in Jobs : Connect(c, j)
    BY <1>2
  <2>2. UNCHANGED <<row, logs, mig, task, waiting, faults, restarts>>
    BY <2>1 DEF Subscribe, Deliver, Connect
  <2>3. ClientTypes' /\ \A d \in Clients : Told(d)'
    BY <2>1, ViewerKeeps
  <2>4. ASSUME NEW k \in Jobs PROVE Follows(k)'
    BY <2>2, OtherJobs DEF IInv, Untouched
  <2>5. Queued'
    BY <2>2 DEF IInv, Queued
  <2> QED BY <2>2, <2>3, <2>4, <2>5 DEF IInv, TypeOK, ClientTypes
<1>3. CASE Restart
  BY <1>3, RestartKeeps
<1>4. CASE UNCHANGED vars
  <2>1. ASSUME NEW k \in Jobs PROVE Follows(k)'
    BY <1>4, OtherJobs DEF IInv, Untouched, vars
  <2>2. ASSUME NEW c \in Clients PROVE Told(c)'
    BY <1>4, ClientSame DEF IInv, RowsStand, vars
  <2>3. Queued' /\ TypeOK'
    BY <1>4 DEF IInv, Queued, TypeOK, vars
  <2> QED BY <1>4, <2>1, <2>2, <2>3 DEF IInv, vars
<1> QED BY <1>1, <1>2, <1>3, <1>4 DEF Next

\* What a reachable state satisfies.
LEMMA Invariance == Spec => []IInv
<1>1. IInv /\ [Next]_vars => IInv'
  BY Step
<1> QED BY <1>1, Initial, PTL DEF Spec
-----------------------------------------------------------------------------
(* Theorems.                                                               *)

\* Rows, tasks, the semaphore's queue and the viewers' logs have their types; in
\* particular no job's log passes its bound.
THEOREM TypeCorrect == Spec => []TypeOK
<1>1. IInv => TypeOK
  BY DEF IInv
<1> QED BY <1>1, Invariance, PTL

\* With a working database nothing is shown as in progress for ever: a row that
\* says pending or running has its task, over any number of restarts.
THEOREM NothingIsOrphaned == Spec => []NoOrphans
<1>1. ASSUME IInv PROVE NoOrphans
  <2> SUFFICES ASSUME faults = 0, NEW j \in Jobs
               PROVE  /\ row[j] \in InProgress => task[j].pc \in HoldingPcs \union {"waiting"}
                      /\ mig[j] \in InProgress =>
                            \/ task[j].pc \in HoldingPcs \union {"waiting", "rowed"}
                            \/ mig[j] = "pending" /\ row[j] = "failed"
    BY DEF NoOrphans
  <2>1. RowFollows(j) /\ MigFollows(j) /\ task[j].pc \in Pcs
    BY <1>1 DEF IInv, Follows, TypeOK, TaskType, Pcs
  <2>2. Entry[j] = "plain" => mig[j] = "none"
    BY <2>1 DEF MigFollows
  <2> QED BY <2>1, <2>2 DEF RowFollows, MigFollows, InProgress, Finishing, Pcs, HoldingPcs, RequestPcs
<1> QED BY <1>1, Invariance, PTL

\* The two records of a migration tell the same story, unless a restart came
\* between them or the database failed.
THEOREM RecordsAgree == Spec => []VerdictsAgree
<1>1. ASSUME IInv PROVE VerdictsAgree
  <2> SUFFICES ASSUME faults = 0, NEW j \in Jobs, Entry[j] /= "plain"
               PROVE  /\ row[j] = "succeeded" => mig[j] = "succeeded"
                      /\ row[j] = "failed" /\ mig[j] = "succeeded" => task[j].pc = "lost"
    BY DEF VerdictsAgree
  <2>1. RowFollows(j) /\ MigFollows(j) /\ task[j].pc \in Pcs
    BY <1>1 DEF IInv, Follows, TypeOK, TaskType, Pcs
  <2> QED BY <2>1 DEF RowFollows, MigFollows, Finishing, Pcs, HoldingPcs, RequestPcs
<1> QED BY <1>1, Invariance, PTL

\* Who was told the end of a job finds its verdict and its log in the database.
THEOREM ToldWhatIsRecorded == Spec => []EndMeansRecorded
<1>1. ASSUME IInv PROVE EndMeansRecorded
  <2> SUFFICES ASSUME faults = 0, NEW c \in Clients,
                      client[c].got /= << >>, client[c].got[Len(client[c].got)] = End
               PROVE  /\ row[client[c].job] \in Terminal
                      /\ \/ logs[client[c].job] = [i \in 1 .. task[client[c].job].emitted |-> i]
                         \/ task[client[c].job].pc = "lost"
    BY DEF EndMeansRecorded
  <2>1. Told(c) /\ client[c] \in ClientType /\ \A j \in Jobs : LogFollows(j)
    BY <1>1 DEF IInv, TypeOK, Follows
  <2>2. client[c].job \in Jobs /\ row[client[c].job] \in Terminal
    BY <2>1 DEF Told
  <2> QED BY <2>1, <2>2 DEF LogFollows, Saved
<1> QED BY <1>1, Invariance, PTL

\* A verdict stands, whatever the database does and however often the process
\* restarts: reconciliation touches only what was in progress.
THEOREM VerdictsStand == Spec => VerdictsAreFinal
<1>1. ASSUME IInv, [Next]_vars
      PROVE  [\A j \in Jobs : /\ row[j] \in Terminal => row'[j] = row[j]
                              /\ mig[j] \in Terminal => mig'[j] = mig[j]]_vars
  BY <1>1, Step
<1> QED BY <1>1, Invariance, PTL DEF Spec, VerdictsAreFinal
=============================================================================
